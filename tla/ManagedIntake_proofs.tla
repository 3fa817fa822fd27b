------------------------- MODULE ManagedIntake_proofs -------------------------
(***************************************************************************)
(* What is accepted from a project that an editor is changing was there,   *)
(* for any texts and any number of edits.                                  *)
(*                                                                         *)
(* The first part says which step is at each line of a program.  For an    *)
(* intake the moment at which the tree has been collected is a witness:    *)
(* the walk sees what the tree said then, a document that has the time of  *)
(* the plan was there already, and the confirmation concludes from both.   *)
(* For the other programs one look is an anchor: what was read before it   *)
(* and is read again after it was there when it was taken, unless the      *)
(* editor put a text back.                                                 *)
(***************************************************************************)
EXTENDS ManagedIntake, TLAPS

-----------------------------------------------------------------------------
(* The programs, step by step.                                             *)

StepType ==
    [do : {"collect", "hash", "verify", "read", "readPlain", "resolve", "classify", "compare",
           "match", "comparePair", "declare", "snapshot", "plan", "confirm", "adopt",
           "toolchain", "register"},
     doc : Documents \cup {""},
     slot : {"", "first", "again", "before", "after", "adopt", "pair"}]

\* Two sequences of steps one after the other.
LEMMA Joined ==
    ASSUME NEW s \in Seq(StepType), NEW t \in Seq(StepType), NEW r, r = s \o t
    PROVE  /\ r \in Seq(StepType) /\ Len(r) = Len(s) + Len(t)
           /\ \A i \in 1..Len(s) : r[i] = s[i]
           /\ \A i \in Len(s) + 1..Len(s) + Len(t) : r[i] = t[i - Len(s)]
<1> HIDE DEF StepType
<1> QED OBVIOUS

\* Every entry is collected, hashed and verified.
LEMMA HashTreeSteps ==
    ASSUME NEW slot \in {"before", "after", "adopt"}
    PROVE  /\ HashTree(slot) \in Seq(StepType) /\ Len(HashTree(slot)) = 9
           /\ \A i \in 1..3 : /\ HashTree(slot)[i] = Do("collect", Tree[i], slot)
                              /\ HashTree(slot)[3 + i] = Do("hash", Tree[i], slot)
                              /\ HashTree(slot)[6 + i] = Do("verify", Tree[i], slot)
<1> DEFINE All(action) == [i \in DOMAIN Tree |-> Do(action, Tree[i], slot)]
           c == All("collect")
           h == All("hash")
           v == All("verify")
<1>1. /\ c \in Seq(StepType) /\ h \in Seq(StepType) /\ v \in Seq(StepType)
      /\ Len(c) = 3 /\ Len(h) = 3 /\ Len(v) = 3
      /\ \A i \in 1..3 : /\ c[i] = Do("collect", Tree[i], slot)
                         /\ h[i] = Do("hash", Tree[i], slot)
                         /\ v[i] = Do("verify", Tree[i], slot)
  <2>1. DOMAIN Tree = 1..3 /\ \A i \in 1..3 : Tree[i] \in Documents
    BY DEF Tree, Documents
  <2> HIDE DEF Documents
  <2>2. ASSUME NEW action \in {"collect", "hash", "verify"}
        PROVE  /\ All(action) \in Seq(StepType) /\ Len(All(action)) = 3
               /\ \A i \in 1..3 : All(action)[i] = Do(action, Tree[i], slot)
    <3>1. \A i \in 1..3 : Do(action, Tree[i], slot) \in StepType
      BY <2>1 DEF Do, StepType
    <3> QED
      BY <2>1, <3>1
  <2> QED
    BY <2>2
<1>2. PICK s, r : s = c \o h /\ r = s \o v
  OBVIOUS
<1>3. HashTree(slot) = r
  BY <1>2 DEF HashTree
<1> HIDE DEF c, h, v, StepType
<1>4. /\ s \in Seq(StepType) /\ Len(s) = 6
      /\ \A i \in 1..3 : s[i] = c[i]
      /\ \A i \in 1..3 : s[3 + i] = h[i]
  <2>1. c \in Seq(StepType) /\ h \in Seq(StepType) /\ s = c \o h
    BY <1>1, <1>2
  <2>2. /\ s \in Seq(StepType) /\ Len(s) = Len(c) + Len(h)
        /\ \A i \in 1..Len(c) : s[i] = c[i]
        /\ \A i \in 1..Len(h) : s[Len(c) + i] = h[i]
    BY <2>1, Joined
  <2>3. Len(c) = 3 /\ Len(h) = 3
    BY <1>1, <1>2
  <2> QED
    BY <2>2, <2>3
<1>5. /\ r \in Seq(StepType) /\ Len(r) = 9
      /\ \A i \in 1..6 : r[i] = s[i]
      /\ \A i \in 1..3 : r[6 + i] = v[i]
  <2>1. s \in Seq(StepType) /\ v \in Seq(StepType) /\ r = s \o v
    BY <1>1, <1>2, <1>4
  <2>2. /\ r \in Seq(StepType) /\ Len(r) = Len(s) + Len(v)
        /\ \A i \in 1..Len(s) : r[i] = s[i]
        /\ \A i \in 1..Len(v) : r[Len(s) + i] = v[i]
    BY <2>1, Joined
  <2>3. Len(s) = 6 /\ Len(v) = 3
    BY <1>1, <1>2, <1>4
  <2> QED
    BY <2>2, <2>3
<1> QED
  BY <1>1, <1>3, <1>4, <1>5

\* A step that reads nothing.
LEMMA DecisionSteps ==
    ASSUME NEW action \in {"classify", "compare", "match", "comparePair", "declare", "snapshot",
                            "plan", "confirm", "adopt", "toolchain", "register"}
    PROVE  <<Decision(action)>> \in Seq(StepType) /\ Len(<<Decision(action)>>) = 1
<1>1. Decision(action) \in StepType
  BY DEF Decision, Do, StepType
<1> QED
  BY <1>1

\* The four reads of an input.
LEMMA ReadAllSteps ==
    ASSUME NEW slot \in {"first", "again"}
    PROVE  /\ ReadAll(slot) \in Seq(StepType) /\ Len(ReadAll(slot)) = 4
           /\ ReadAll(slot)[1] = ReadStable("toolchain", slot)
           /\ ReadAll(slot)[2] = ReadStable("manifest", slot)
           /\ ReadAll(slot)[3] = ReadStable("override", slot)
           /\ ReadAll(slot)[4] = Do("resolve", "links", slot)
<1>1. /\ Do("resolve", "links", slot) \in StepType
      /\ \A d \in {"toolchain", "manifest", "override"} : ReadStable(d, slot) \in StepType
  BY DEF ReadStable, Do, StepType, Documents
<1> HIDE DEF StepType
<1> QED
  BY <1>1 DEF ReadAll

\* The reads of single files, and of the documents of a provider.
LEMMA SingleSteps ==
    /\ <<ReadStable("config", "first"), Decision("declare")>> \in Seq(StepType)
    /\ <<Decision("toolchain"), ReadStable("config", "first")>> \in Seq(StepType)
    /\ <<Do("readPlain", "manifest", "first"), Decision("register")>> \in Seq(StepType)
    /\ ReadProviderPair \in Seq(StepType) /\ Len(ReadProviderPair) = 7
<1>1. /\ ReadStable("config", "first") \in StepType
      /\ Do("readPlain", "manifest", "first") \in StepType
      /\ Do("resolve", "links", "pair") \in StepType
      /\ \A d \in {"registry", "providerOverride"} : \A slot \in {"first", "again"} :
            ReadStable(d, slot) \in StepType
  BY DEF ReadStable, Do, StepType, Documents
<1>2. \A a \in {"declare", "toolchain", "register", "match", "comparePair"} :
          Decision(a) \in StepType
  BY DEF Decision, Do, StepType
<1> HIDE DEF StepType
<1> QED
  BY <1>1, <1>2 DEF ReadProviderPair

\* An input is read twice.
LEMMA InputSteps ==
    /\ ReadProjectInput \in Seq(StepType) /\ Len(ReadProjectInput) = 10
    /\ \A i \in 1..4 : ReadProjectInput[i] = ReadAll("first")[i]
    /\ ReadProjectInput[5] = Decision("classify")
    /\ \A i \in 6..9 : ReadProjectInput[i] = ReadAll("again")[i - 5]
    /\ ReadProjectInput[10] = Decision("compare")
<1>1. PICK p1, p2, p3, p4 :
         /\ p1 = ReadAll("first")
         /\ p2 = <<Decision("classify")>>
         /\ p3 = ReadAll("again")
         /\ p4 = <<Decision("compare")>>
  OBVIOUS
<1>2. PICK r2, r3, r4 :
         /\ r2 = p1 \o p2
         /\ r3 = r2 \o p3
         /\ r4 = r3 \o p4
  OBVIOUS
<1>3. ReadProjectInput = r4
  BY <1>1, <1>2 DEF ReadProjectInput
<1> HIDE DEF StepType
<1>4. /\ p1 \in Seq(StepType) /\ Len(p1) = 4
      /\ p2 \in Seq(StepType) /\ Len(p2) = 1
      /\ p3 \in Seq(StepType) /\ Len(p3) = 4
      /\ p4 \in Seq(StepType) /\ Len(p4) = 1
  BY <1>1, ReadAllSteps, DecisionSteps
<1>5. /\ r2 \in Seq(StepType) /\ Len(r2) = 5
      /\ \A i \in 1..4 : r2[i] = p1[i]
      /\ \A i \in 5..5 : r2[i] = p2[i - 4]
  <2>1. p1 \in Seq(StepType) /\ p2 \in Seq(StepType) /\ r2 = p1 \o p2
    BY <1>2, <1>4
  <2>2. /\ r2 \in Seq(StepType) /\ Len(r2) = Len(p1) + Len(p2)
        /\ \A i \in 1..Len(p1) : r2[i] = p1[i]
        /\ \A i \in Len(p1) + 1..Len(p1) + Len(p2) : r2[i] = p2[i - Len(p1)]
    BY <2>1, Joined
  <2>3. Len(p1) = 4 /\ Len(p2) = 1
    BY <1>2, <1>4
  <2> QED
    BY <2>2, <2>3
<1>6. /\ \A i \in 1..4 : r2[i] = p1[i]
      /\ r2[5] = p2[1]
  BY <1>5
<1>7. /\ r3 \in Seq(StepType) /\ Len(r3) = 9
      /\ \A i \in 1..5 : r3[i] = r2[i]
      /\ \A i \in 6..9 : r3[i] = p3[i - 5]
  <2>1. r2 \in Seq(StepType) /\ p3 \in Seq(StepType) /\ r3 = r2 \o p3
    BY <1>2, <1>4, <1>5
  <2>2. /\ r3 \in Seq(StepType) /\ Len(r3) = Len(r2) + Len(p3)
        /\ \A i \in 1..Len(r2) : r3[i] = r2[i]
        /\ \A i \in Len(r2) + 1..Len(r2) + Len(p3) : r3[i] = p3[i - Len(r2)]
    BY <2>1, Joined
  <2>3. Len(r2) = 5 /\ Len(p3) = 4
    BY <1>2, <1>4, <1>5
  <2> QED
    BY <2>2, <2>3
<1>8. /\ \A i \in 1..4 : r3[i] = p1[i]
      /\ r3[5] = p2[1]
      /\ \A i \in 6..9 : r3[i] = p3[i - 5]
  <2>1. \A i \in 1..5 : r3[i] = r2[i]
    BY <1>7
  <2>2. \A i \in 6..9 : r3[i] = p3[i - 5]
    BY <1>7
  <2> QED
    BY <1>6, <2>1, <2>2
<1>9. /\ r4 \in Seq(StepType) /\ Len(r4) = 10
      /\ \A i \in 1..9 : r4[i] = r3[i]
      /\ \A i \in 10..10 : r4[i] = p4[i - 9]
  <2>1. r3 \in Seq(StepType) /\ p4 \in Seq(StepType) /\ r4 = r3 \o p4
    BY <1>2, <1>4, <1>7
  <2>2. /\ r4 \in Seq(StepType) /\ Len(r4) = Len(r3) + Len(p4)
        /\ \A i \in 1..Len(r3) : r4[i] = r3[i]
        /\ \A i \in Len(r3) + 1..Len(r3) + Len(p4) : r4[i] = p4[i - Len(r3)]
    BY <2>1, Joined
  <2>3. Len(r3) = 9 /\ Len(p4) = 1
    BY <1>2, <1>4, <1>7
  <2> QED
    BY <2>2, <2>3
<1>10. /\ \A i \in 1..4 : r4[i] = p1[i]
       /\ r4[5] = p2[1]
       /\ \A i \in 6..9 : r4[i] = p3[i - 5]
       /\ r4[10] = p4[1]
  <2>1. \A i \in 1..9 : r4[i] = r3[i]
    BY <1>9
  <2>2. r4[10] = p4[1]
    BY <1>9
  <2> QED
    BY <1>8, <2>1, <2>2
<1>11. /\ p2[1] = Decision("classify")
       /\ p4[1] = Decision("compare")
  BY <1>1
<1> QED
  BY <1>1, <1>3, <1>9, <1>10, <1>11

\* A snapshot is a tree, an input, a declaration and the tree again.
LEMMA SnapshotSteps ==
    /\ Snapshot \in Seq(StepType) /\ Len(Snapshot) = 31
    /\ \A i \in 1..9 : Snapshot[i] = HashTree("before")[i]
    /\ \A i \in 10..19 : Snapshot[i] = ReadProjectInput[i - 9]
    /\ Snapshot[20] = ReadStable("config", "first")
    /\ Snapshot[21] = Decision("declare")
    /\ \A i \in 22..30 : Snapshot[i] = HashTree("after")[i - 21]
    /\ Snapshot[31] = Decision("snapshot")
<1>1. PICK p1, p2, p3, p4, p5 :
         /\ p1 = HashTree("before")
         /\ p2 = ReadProjectInput
         /\ p3 = <<ReadStable("config", "first"), Decision("declare")>>
         /\ p4 = HashTree("after")
         /\ p5 = <<Decision("snapshot")>>
  OBVIOUS
<1>2. PICK r2, r3, r4, r5 :
         /\ r2 = p1 \o p2
         /\ r3 = r2 \o p3
         /\ r4 = r3 \o p4
         /\ r5 = r4 \o p5
  OBVIOUS
<1>3. Snapshot = r5
  BY <1>1, <1>2 DEF Snapshot
<1> HIDE DEF StepType
<1>4. /\ p1 \in Seq(StepType) /\ Len(p1) = 9
      /\ p2 \in Seq(StepType) /\ Len(p2) = 10
      /\ p3 \in Seq(StepType) /\ Len(p3) = 2
      /\ p4 \in Seq(StepType) /\ Len(p4) = 9
      /\ p5 \in Seq(StepType) /\ Len(p5) = 1
  BY <1>1, HashTreeSteps, InputSteps, SingleSteps, DecisionSteps
<1>5. /\ r2 \in Seq(StepType) /\ Len(r2) = 19
      /\ \A i \in 1..9 : r2[i] = p1[i]
      /\ \A i \in 10..19 : r2[i] = p2[i - 9]
  <2>1. p1 \in Seq(StepType) /\ p2 \in Seq(StepType) /\ r2 = p1 \o p2
    BY <1>2, <1>4
  <2>2. /\ r2 \in Seq(StepType) /\ Len(r2) = Len(p1) + Len(p2)
        /\ \A i \in 1..Len(p1) : r2[i] = p1[i]
        /\ \A i \in Len(p1) + 1..Len(p1) + Len(p2) : r2[i] = p2[i - Len(p1)]
    BY <2>1, Joined
  <2>3. Len(p1) = 9 /\ Len(p2) = 10
    BY <1>2, <1>4
  <2> QED
    BY <2>2, <2>3
<1>6. /\ \A i \in 1..9 : r2[i] = p1[i]
      /\ \A i \in 10..19 : r2[i] = p2[i - 9]
  BY <1>5
<1>7. /\ r3 \in Seq(StepType) /\ Len(r3) = 21
      /\ \A i \in 1..19 : r3[i] = r2[i]
      /\ \A i \in 20..21 : r3[i] = p3[i - 19]
  <2>1. r2 \in Seq(StepType) /\ p3 \in Seq(StepType) /\ r3 = r2 \o p3
    BY <1>2, <1>4, <1>5
  <2>2. /\ r3 \in Seq(StepType) /\ Len(r3) = Len(r2) + Len(p3)
        /\ \A i \in 1..Len(r2) : r3[i] = r2[i]
        /\ \A i \in Len(r2) + 1..Len(r2) + Len(p3) : r3[i] = p3[i - Len(r2)]
    BY <2>1, Joined
  <2>3. Len(r2) = 19 /\ Len(p3) = 2
    BY <1>2, <1>4, <1>5
  <2> QED
    BY <2>2, <2>3
<1>8. /\ \A i \in 1..9 : r3[i] = p1[i]
      /\ \A i \in 10..19 : r3[i] = p2[i - 9]
      /\ \A i \in 20..21 : r3[i] = p3[i - 19]
  <2>1. \A i \in 1..19 : r3[i] = r2[i]
    BY <1>7
  <2>2. \A i \in 20..21 : r3[i] = p3[i - 19]
    BY <1>7
  <2> QED
    BY <1>6, <2>1, <2>2
<1>9. /\ r4 \in Seq(StepType) /\ Len(r4) = 30
      /\ \A i \in 1..21 : r4[i] = r3[i]
      /\ \A i \in 22..30 : r4[i] = p4[i - 21]
  <2>1. r3 \in Seq(StepType) /\ p4 \in Seq(StepType) /\ r4 = r3 \o p4
    BY <1>2, <1>4, <1>7
  <2>2. /\ r4 \in Seq(StepType) /\ Len(r4) = Len(r3) + Len(p4)
        /\ \A i \in 1..Len(r3) : r4[i] = r3[i]
        /\ \A i \in Len(r3) + 1..Len(r3) + Len(p4) : r4[i] = p4[i - Len(r3)]
    BY <2>1, Joined
  <2>3. Len(r3) = 21 /\ Len(p4) = 9
    BY <1>2, <1>4, <1>7
  <2> QED
    BY <2>2, <2>3
<1>10. /\ \A i \in 1..9 : r4[i] = p1[i]
       /\ \A i \in 10..19 : r4[i] = p2[i - 9]
       /\ \A i \in 20..21 : r4[i] = p3[i - 19]
       /\ \A i \in 22..30 : r4[i] = p4[i - 21]
  <2>1. \A i \in 1..21 : r4[i] = r3[i]
    BY <1>9
  <2>2. \A i \in 22..30 : r4[i] = p4[i - 21]
    BY <1>9
  <2> QED
    BY <1>8, <2>1, <2>2
<1>11. /\ r5 \in Seq(StepType) /\ Len(r5) = 31
       /\ \A i \in 1..30 : r5[i] = r4[i]
       /\ \A i \in 31..31 : r5[i] = p5[i - 30]
  <2>1. r4 \in Seq(StepType) /\ p5 \in Seq(StepType) /\ r5 = r4 \o p5
    BY <1>2, <1>4, <1>9
  <2>2. /\ r5 \in Seq(StepType) /\ Len(r5) = Len(r4) + Len(p5)
        /\ \A i \in 1..Len(r4) : r5[i] = r4[i]
        /\ \A i \in Len(r4) + 1..Len(r4) + Len(p5) : r5[i] = p5[i - Len(r4)]
    BY <2>1, Joined
  <2>3. Len(r4) = 30 /\ Len(p5) = 1
    BY <1>2, <1>4, <1>9
  <2> QED
    BY <2>2, <2>3
<1>12. /\ \A i \in 1..9 : r5[i] = p1[i]
       /\ \A i \in 10..19 : r5[i] = p2[i - 9]
       /\ \A i \in 20..21 : r5[i] = p3[i - 19]
       /\ \A i \in 22..30 : r5[i] = p4[i - 21]
       /\ r5[31] = p5[1]
  <2>1. \A i \in 1..30 : r5[i] = r4[i]
    BY <1>11
  <2>2. r5[31] = p5[1]
    BY <1>11
  <2> QED
    BY <1>10, <2>1, <2>2
<1>13. /\ p5[1] = Decision("snapshot")
       /\ p3[1] = ReadStable("config", "first") /\ p3[2] = Decision("declare")
  BY <1>1
<1> QED
  BY <1>1, <1>3, <1>11, <1>12, <1>13

\* An intake is two of them, with the plan between them, and a tree.
LEMMA IntakeSteps ==
    /\ Intake \in Seq(StepType) /\ Len(Intake) = 74
    /\ \A i \in 1..31 : Intake[i] = Snapshot[i]
    /\ Intake[32] = Decision("plan")
    /\ \A i \in 33..63 : Intake[i] = Snapshot[i - 32]
    /\ Intake[64] = Decision("confirm")
    /\ \A i \in 65..73 : Intake[i] = HashTree("adopt")[i - 64]
    /\ Intake[74] = Decision("adopt")
<1>1. PICK p1, p2, p3, p4, p5, p6 :
         /\ p1 = Snapshot
         /\ p2 = <<Decision("plan")>>
         /\ p3 = Snapshot
         /\ p4 = <<Decision("confirm")>>
         /\ p5 = HashTree("adopt")
         /\ p6 = <<Decision("adopt")>>
  OBVIOUS
<1>2. PICK r2, r3, r4, r5, r6 :
         /\ r2 = p1 \o p2
         /\ r3 = r2 \o p3
         /\ r4 = r3 \o p4
         /\ r5 = r4 \o p5
         /\ r6 = r5 \o p6
  OBVIOUS
<1>3. Intake = r6
  BY <1>1, <1>2 DEF Intake
<1> HIDE DEF StepType
<1>4. /\ p1 \in Seq(StepType) /\ Len(p1) = 31
      /\ p2 \in Seq(StepType) /\ Len(p2) = 1
      /\ p3 \in Seq(StepType) /\ Len(p3) = 31
      /\ p4 \in Seq(StepType) /\ Len(p4) = 1
      /\ p5 \in Seq(StepType) /\ Len(p5) = 9
      /\ p6 \in Seq(StepType) /\ Len(p6) = 1
  BY <1>1, SnapshotSteps, HashTreeSteps, DecisionSteps
<1>5. /\ r2 \in Seq(StepType) /\ Len(r2) = 32
      /\ \A i \in 1..31 : r2[i] = p1[i]
      /\ \A i \in 32..32 : r2[i] = p2[i - 31]
  <2>1. p1 \in Seq(StepType) /\ p2 \in Seq(StepType) /\ r2 = p1 \o p2
    BY <1>2, <1>4
  <2>2. /\ r2 \in Seq(StepType) /\ Len(r2) = Len(p1) + Len(p2)
        /\ \A i \in 1..Len(p1) : r2[i] = p1[i]
        /\ \A i \in Len(p1) + 1..Len(p1) + Len(p2) : r2[i] = p2[i - Len(p1)]
    BY <2>1, Joined
  <2>3. Len(p1) = 31 /\ Len(p2) = 1
    BY <1>2, <1>4
  <2> QED
    BY <2>2, <2>3
<1>6. /\ \A i \in 1..31 : r2[i] = p1[i]
      /\ r2[32] = p2[1]
  BY <1>5
<1>7. /\ r3 \in Seq(StepType) /\ Len(r3) = 63
      /\ \A i \in 1..32 : r3[i] = r2[i]
      /\ \A i \in 33..63 : r3[i] = p3[i - 32]
  <2>1. r2 \in Seq(StepType) /\ p3 \in Seq(StepType) /\ r3 = r2 \o p3
    BY <1>2, <1>4, <1>5
  <2>2. /\ r3 \in Seq(StepType) /\ Len(r3) = Len(r2) + Len(p3)
        /\ \A i \in 1..Len(r2) : r3[i] = r2[i]
        /\ \A i \in Len(r2) + 1..Len(r2) + Len(p3) : r3[i] = p3[i - Len(r2)]
    BY <2>1, Joined
  <2>3. Len(r2) = 32 /\ Len(p3) = 31
    BY <1>2, <1>4, <1>5
  <2> QED
    BY <2>2, <2>3
<1>8. /\ \A i \in 1..31 : r3[i] = p1[i]
      /\ r3[32] = p2[1]
      /\ \A i \in 33..63 : r3[i] = p3[i - 32]
  <2>1. \A i \in 1..32 : r3[i] = r2[i]
    BY <1>7
  <2>2. \A i \in 33..63 : r3[i] = p3[i - 32]
    BY <1>7
  <2> QED
    BY <1>6, <2>1, <2>2
<1>9. /\ r4 \in Seq(StepType) /\ Len(r4) = 64
      /\ \A i \in 1..63 : r4[i] = r3[i]
      /\ \A i \in 64..64 : r4[i] = p4[i - 63]
  <2>1. r3 \in Seq(StepType) /\ p4 \in Seq(StepType) /\ r4 = r3 \o p4
    BY <1>2, <1>4, <1>7
  <2>2. /\ r4 \in Seq(StepType) /\ Len(r4) = Len(r3) + Len(p4)
        /\ \A i \in 1..Len(r3) : r4[i] = r3[i]
        /\ \A i \in Len(r3) + 1..Len(r3) + Len(p4) : r4[i] = p4[i - Len(r3)]
    BY <2>1, Joined
  <2>3. Len(r3) = 63 /\ Len(p4) = 1
    BY <1>2, <1>4, <1>7
  <2> QED
    BY <2>2, <2>3
<1>10. /\ \A i \in 1..31 : r4[i] = p1[i]
       /\ r4[32] = p2[1]
       /\ \A i \in 33..63 : r4[i] = p3[i - 32]
       /\ r4[64] = p4[1]
  <2>1. \A i \in 1..63 : r4[i] = r3[i]
    BY <1>9
  <2>2. r4[64] = p4[1]
    BY <1>9
  <2> QED
    BY <1>8, <2>1, <2>2
<1>11. /\ r5 \in Seq(StepType) /\ Len(r5) = 73
       /\ \A i \in 1..64 : r5[i] = r4[i]
       /\ \A i \in 65..73 : r5[i] = p5[i - 64]
  <2>1. r4 \in Seq(StepType) /\ p5 \in Seq(StepType) /\ r5 = r4 \o p5
    BY <1>2, <1>4, <1>9
  <2>2. /\ r5 \in Seq(StepType) /\ Len(r5) = Len(r4) + Len(p5)
        /\ \A i \in 1..Len(r4) : r5[i] = r4[i]
        /\ \A i \in Len(r4) + 1..Len(r4) + Len(p5) : r5[i] = p5[i - Len(r4)]
    BY <2>1, Joined
  <2>3. Len(r4) = 64 /\ Len(p5) = 9
    BY <1>2, <1>4, <1>9
  <2> QED
    BY <2>2, <2>3
<1>12. /\ \A i \in 1..31 : r5[i] = p1[i]
       /\ r5[32] = p2[1]
       /\ \A i \in 33..63 : r5[i] = p3[i - 32]
       /\ r5[64] = p4[1]
       /\ \A i \in 65..73 : r5[i] = p5[i - 64]
  <2>1. \A i \in 1..64 : r5[i] = r4[i]
    BY <1>11
  <2>2. \A i \in 65..73 : r5[i] = p5[i - 64]
    BY <1>11
  <2> QED
    BY <1>10, <2>1, <2>2
<1>13. /\ r6 \in Seq(StepType) /\ Len(r6) = 74
       /\ \A i \in 1..73 : r6[i] = r5[i]
       /\ \A i \in 74..74 : r6[i] = p6[i - 73]
  <2>1. r5 \in Seq(StepType) /\ p6 \in Seq(StepType) /\ r6 = r5 \o p6
    BY <1>2, <1>4, <1>11
  <2>2. /\ r6 \in Seq(StepType) /\ Len(r6) = Len(r5) + Len(p6)
        /\ \A i \in 1..Len(r5) : r6[i] = r5[i]
        /\ \A i \in Len(r5) + 1..Len(r5) + Len(p6) : r6[i] = p6[i - Len(r5)]
    BY <2>1, Joined
  <2>3. Len(r5) = 73 /\ Len(p6) = 1
    BY <1>2, <1>4, <1>11
  <2> QED
    BY <2>2, <2>3
<1>14. /\ \A i \in 1..31 : r6[i] = p1[i]
       /\ r6[32] = p2[1]
       /\ \A i \in 33..63 : r6[i] = p3[i - 32]
       /\ r6[64] = p4[1]
       /\ \A i \in 65..73 : r6[i] = p5[i - 64]
       /\ r6[74] = p6[1]
  <2>1. \A i \in 1..73 : r6[i] = r5[i]
    BY <1>13
  <2>2. r6[74] = p6[1]
    BY <1>13
  <2> QED
    BY <1>12, <2>1, <2>2
<1>15. /\ p2[1] = Decision("plan")
       /\ p4[1] = Decision("confirm")
       /\ p6[1] = Decision("adopt")
  BY <1>1
<1> QED
  BY <1>1, <1>3, <1>13, <1>14, <1>15

-----------------------------------------------------------------------------
(* Where the programs read what.                                           *)

Reading == {"hash", "read", "readPlain", "resolve"}

\* A step of a program is a step.
LEMMA Stepwise ==
    ASSUME NEW s \in Seq(StepType), NEW i \in 1..Len(s)
    PROVE  s[i] \in StepType
<1> HIDE DEF StepType
<1> QED OBVIOUS

\* A decision is known by its action.
LEMMA DecisionIs ==
    ASSUME NEW action, NEW x, x = Decision(action)
    PROVE  x.do = action
BY DEF Decision, Do

\* The steps of an input that read its documents for the first time.
LEMMA InputPlaces ==
    ASSUME NEW i \in 1..10
    PROVE  /\ ReadProjectInput[i] \in StepType
           /\ ReadProjectInput[i].do \in {"read", "resolve", "classify", "compare"}
           /\ ReadProjectInput[i].do \in Reading =>
                 /\ ReadProjectInput[i].doc \in Documents
                 /\ ReadProjectInput[i].slot \in {"first", "again"}
                 /\ ReadProjectInput[i].slot = "first" => i \in 1..4
           /\ ReadProjectInput[i].do = "resolve" => ReadProjectInput[i].doc = "links"
           /\ i = 1 => ReadProjectInput[i] = Do("read", "toolchain", "first")
           /\ i = 2 => ReadProjectInput[i] = Do("read", "manifest", "first")
           /\ i = 3 => ReadProjectInput[i] = Do("read", "override", "first")
           /\ i = 4 => ReadProjectInput[i] = Do("resolve", "links", "first")
<1>1. ReadProjectInput[i] \in StepType
  <2>1. ReadProjectInput \in Seq(StepType) /\ i \in 1..Len(ReadProjectInput)
    BY InputSteps
  <2> QED
    BY <2>1, Stepwise
<1>5. ReadProjectInput[5] = Decision("classify") /\ ReadProjectInput[10] = Decision("compare")
  BY InputSteps
<1>2. CASE i \in 1..4
  <2>1. ReadProjectInput[i] = ReadAll("first")[i]
    BY <1>2, InputSteps
  <2>2. i = 1 \/ i = 2 \/ i = 3 \/ i = 4
    BY <1>2
  <2> QED
    BY <1>1, <1>2, <2>1, <2>2, ReadAllSteps DEF ReadStable, Do, Reading, Documents
<1>3. CASE i \in 6..9
  <2>1. ReadProjectInput[i] = ReadAll("again")[i - 5]
    BY <1>3, InputSteps
  <2>2. i = 6 \/ i = 7 \/ i = 8 \/ i = 9
    BY <1>3
  <2> QED
    BY <1>1, <1>3, <2>1, <2>2, ReadAllSteps DEF ReadStable, Do, Reading, Documents
<1>4. CASE i = 5 \/ i = 10
  <2>1. ReadProjectInput[i].do \in {"classify", "compare"}
    <3>1. ReadProjectInput[i] = Decision("classify") \/ ReadProjectInput[i] = Decision("compare")
      BY <1>4, <1>5
    <3> QED
      BY <3>1, DecisionIs
  <2> QED
    BY <1>1, <1>4, <2>1 DEF Reading
<1> QED
  BY <1>2, <1>3, <1>4

\* The steps of a walk of the tree.
LEMMA TreePlaces ==
    ASSUME NEW slot \in {"before", "after", "adopt"}, NEW i \in 1..9
    PROVE  /\ HashTree(slot)[i] \in StepType
           /\ HashTree(slot)[i].do \in {"collect", "hash", "verify"}
           /\ HashTree(slot)[i].doc \in Documents
           /\ HashTree(slot)[i].slot = slot
           /\ HashTree(slot)[i].do \in Reading => i \in 4..6
           /\ i \in 1..3 => HashTree(slot)[i] = Do("collect", Tree[i], slot)
           /\ i \in 4..6 => HashTree(slot)[i] = Do("hash", Tree[i - 3], slot)
<1>1. HashTree(slot)[i] \in StepType
  <2>1. HashTree(slot) \in Seq(StepType) /\ i \in 1..Len(HashTree(slot))
    BY HashTreeSteps
  <2> QED
    BY <2>1, Stepwise
<1>2. Tree[1] \in Documents /\ Tree[2] \in Documents /\ Tree[3] \in Documents
  BY DEF Tree, Documents
<1>3. CASE i \in 1..3
  <2>1. HashTree(slot)[i] = Do("collect", Tree[i], slot) /\ Tree[i] \in Documents
    BY <1>2, <1>3, HashTreeSteps
  <2> QED
    BY <1>1, <1>3, <2>1 DEF Do, Reading
<1>4. CASE i \in 4..6
  <2>1. HashTree(slot)[3 + (i - 3)] = Do("hash", Tree[i - 3], slot) /\ Tree[i - 3] \in Documents
    BY <1>2, <1>4, HashTreeSteps
  <2> QED
    BY <1>1, <1>4, <2>1 DEF Do, Reading
<1>5. CASE i \in 7..9
  <2>1. HashTree(slot)[6 + (i - 6)] = Do("verify", Tree[i - 6], slot) /\ Tree[i - 6] \in Documents
    BY <1>2, <1>5, HashTreeSteps
  <2> QED
    BY <1>1, <1>5, <2>1 DEF Do, Reading
<1> QED
  BY <1>3, <1>4, <1>5

\* The steps of a snapshot.
LEMMA SnapshotPlaces ==
    ASSUME NEW i \in 1..31
    PROVE  /\ Snapshot[i] \in StepType
           /\ Snapshot[i].do \notin {"plan", "confirm", "adopt", "readPlain"}
           /\ Snapshot[i].do \in Reading \cup {"collect", "verify"} => Snapshot[i].doc \in Documents
           /\ Snapshot[i].do = "read" => Snapshot[i].slot \in {"first", "again"}
           /\ Snapshot[i].do = "hash" => Snapshot[i].slot \in {"before", "after"}
           /\ Snapshot[i].do = "resolve" => Snapshot[i].doc = "links"
           /\ Snapshot[i].do \in Reading =>
                 /\ Snapshot[i].slot = "before" => i \in 4..6
                 /\ Snapshot[i].slot = "first" => i \in {10, 11, 12, 13, 20}
           /\ i = 1 => Snapshot[i] = Do("collect", "manifest", "before")
           /\ i = 2 => Snapshot[i] = Do("collect", "config", "before")
           /\ i = 3 => Snapshot[i] = Do("collect", "toolchain", "before")
           /\ i = 4 => Snapshot[i] = Do("hash", "manifest", "before")
           /\ i = 5 => Snapshot[i] = Do("hash", "config", "before")
           /\ i = 6 => Snapshot[i] = Do("hash", "toolchain", "before")
           /\ i = 10 => Snapshot[i] = Do("read", "toolchain", "first")
           /\ i = 11 => Snapshot[i] = Do("read", "manifest", "first")
           /\ i = 12 => Snapshot[i] = Do("read", "override", "first")
           /\ i = 13 => Snapshot[i] = Do("resolve", "links", "first")
           /\ i = 20 => Snapshot[i] = Do("read", "config", "first")
<1>1. Snapshot[i] \in StepType
  <2>1. Snapshot \in Seq(StepType) /\ i \in 1..Len(Snapshot)
    BY SnapshotSteps
  <2> QED
    BY <2>1, Stepwise
<1>6. \A j \in 10..19 : Snapshot[j] = ReadProjectInput[j - 9]
  BY SnapshotSteps
<1>7. \A j \in 22..30 : Snapshot[j] = HashTree("after")[j - 21]
  BY SnapshotSteps
<1>8. /\ Snapshot[20] = ReadStable("config", "first") /\ Snapshot[21] = Decision("declare")
      /\ Snapshot[31] = Decision("snapshot")
  BY SnapshotSteps
<1>2. CASE i \in 1..9
  <2>1. Snapshot[i] = HashTree("before")[i]
    BY <1>2, SnapshotSteps
  <2>2. Tree[1] = "manifest" /\ Tree[2] = "config" /\ Tree[3] = "toolchain"
    BY DEF Tree
  <2> QED
    BY <1>1, <1>2, <2>1, <2>2, TreePlaces
<1>3. CASE i \in 10..19
  <2>1. Snapshot[i] = ReadProjectInput[i - 9] /\ i - 9 \in 1..10
    BY <1>3, <1>6
  <2> QED
    BY <1>1, <1>3, <2>1, InputPlaces DEF Reading
<1>4. CASE i \in {20, 21, 31}
  <2>1. CASE i = 20
    <3>1. Snapshot[i] = Do("read", "config", "first") /\ "config" \in Documents
      BY <1>8, <2>1 DEF ReadStable, Documents
    <3> QED
      BY <1>1, <2>1, <3>1 DEF Do
  <2>2. CASE i = 21 \/ i = 31
    <3>1. Snapshot[i].do \in {"declare", "snapshot"}
      <4>1. Snapshot[i] = Decision("declare") \/ Snapshot[i] = Decision("snapshot")
        BY <1>8, <2>2
      <4> QED
        BY <4>1, DecisionIs
    <3> QED
      BY <1>1, <2>2, <3>1 DEF Reading
  <2> QED
    BY <1>4, <2>1, <2>2
<1>5. CASE i \in 22..30
  <2>1. Snapshot[i] = HashTree("after")[i - 21] /\ i - 21 \in 1..9
    BY <1>5, <1>7
  <2> QED
    BY <1>1, <1>5, <2>1, TreePlaces
<1> QED
  BY <1>2, <1>3, <1>4, <1>5

\* The steps of an intake.
LEMMA IntakePlaces ==
    ASSUME NEW i \in 1..74
    PROVE  /\ Intake[i].do # "readPlain"
           /\ Intake[i].do \in Reading \cup {"collect", "verify"} => Intake[i].doc \in Documents
           /\ Intake[i].do = "read" => Intake[i].slot \in {"first", "again"}
           /\ Intake[i].do = "hash" => Intake[i].slot \in {"before", "after", "adopt"}
           /\ Intake[i].do = "resolve" => Intake[i].doc = "links"
           /\ Intake[i].do = "plan" <=> i = 32
           /\ Intake[i].do = "confirm" <=> i = 64
           /\ i = 10 => Intake[i] = Do("read", "toolchain", "first")
           /\ i = 11 => Intake[i] = Do("read", "manifest", "first")
           /\ i = 12 => Intake[i] = Do("read", "override", "first")
           /\ i = 33 => Intake[i] = Do("collect", "manifest", "before")
           /\ i = 34 => Intake[i] = Do("collect", "config", "before")
           /\ i = 35 => Intake[i] = Do("collect", "toolchain", "before")
           /\ i = 36 => Intake[i] = Do("hash", "manifest", "before")
           /\ i = 37 => Intake[i] = Do("hash", "config", "before")
           /\ i = 38 => Intake[i] = Do("hash", "toolchain", "before")
           /\ i = 42 => Intake[i] = Do("read", "toolchain", "first")
           /\ i = 43 => Intake[i] = Do("read", "manifest", "first")
           /\ i = 44 => Intake[i] = Do("read", "override", "first")
           /\ i = 52 => Intake[i] = Do("read", "config", "first")
           /\ 32 < i /\ i < 64 /\ Intake[i].do \in Reading =>
                 /\ Intake[i].slot = "before" => i \in {36, 37, 38}
                 /\ Intake[i].slot = "first" => i \in {42, 43, 44, 45, 52}
<1>5. \A j \in 33..63 : Intake[j] = Snapshot[j - 32]
  BY IntakeSteps
<1>6. \A j \in 65..73 : Intake[j] = HashTree("adopt")[j - 64]
  BY IntakeSteps
<1>7. /\ Intake[32] = Decision("plan") /\ Intake[64] = Decision("confirm")
      /\ Intake[74] = Decision("adopt")
  BY IntakeSteps
<1>1. CASE i \in 1..31
  <2>1. Intake[i] = Snapshot[i]
    BY <1>1, IntakeSteps
  <2> QED
    BY <1>1, <2>1, SnapshotPlaces
<1>2. CASE i \in 33..63
  <2>1. Intake[i] = Snapshot[i - 32] /\ i - 32 \in 1..31
    BY <1>2, <1>5
  <2> QED
    BY <1>2, <2>1, SnapshotPlaces
<1>3. CASE i \in 65..73
  <2>1. Intake[i] = HashTree("adopt")[i - 64] /\ i - 64 \in 1..9
    BY <1>3, <1>6
  <2> QED
    BY <1>3, <2>1, TreePlaces
<1>4. CASE i \in {32, 64, 74}
  <2>1. /\ i = 32 => Intake[i].do = "plan"
        /\ i = 64 => Intake[i].do = "confirm"
        /\ i = 74 => Intake[i].do = "adopt"
    BY <1>7, DecisionIs
  <2> QED
    BY <1>4, <2>1 DEF Reading
<1> QED
  BY <1>1, <1>2, <1>3, <1>4

-----------------------------------------------------------------------------
(* The invariant of an intake.                                             *)

TreeDocuments == {"manifest", "config", "toolchain"}

Known(slot, d) == <<slot, d>> \in DOMAIN seen
Look(slot, d) == seen[<<slot, d>>]
Sighted(d, said) == \E m \in moments : m[d] = said

\* To the confirmation a file is what was planned if its text and time are.
IsPlanned(d, e) ==
    plan.input[d] # Nothing /\ e.text = plan.input[d] /\ e.modified = plan.files[d]

EditorInv ==
    /\ edits \in Nat
    /\ stamp \in [Documents -> 0..edits] /\ modified \in [Documents -> 0..edits]
    /\ DOMAIN text = Documents /\ text \in moments
    /\ outcome \in {"running", "refused", "accepted"}
    /\ line \in Nat /\ (outcome = "running" => line \in 1..74)
    /\ outcome = "accepted" => line > 64

\* The file that is open is the one that is read.
HeldInv ==
    outcome = "running" /\ IsOpen =>
        /\ Now.do = "read"
        /\ held.file.modified \in 0..edits /\ Sighted(Here, held.file.text)

\* What has been read was there.
SeenInv ==
    outcome = "running" =>
        \A d \in Documents : Known("first", d) =>
            Look("first", d).modified \in 0..edits /\ Sighted(d, Look("first", d).text)

\* What the plan is made of has been read.
FirstInv ==
    outcome = "running" /\ line <= 32 =>
        /\ line > 10 => Known("first", "toolchain")
        /\ line > 11 => Known("first", "manifest")
        /\ line > 12 => Known("first", "override")

PlanInv ==
    outcome # "refused" /\ line > 32 =>
        /\ plan.input.toolchain = Managed
        /\ \A d \in Timed : plan.input[d] # Nothing => plan.files[d] \in 0..edits

\* While the snapshot is taken that must equal the plan.
Confirming == outcome = "running" /\ 32 < line /\ line <= 64

ReachedInv ==
    Confirming =>
        /\ \A d \in Timed : Known("first", d) => line > 42
        /\ \A d \in TreeDocuments : Known("before", d) => line > 36
        /\ line > 36 => Known("before", "manifest")
        /\ line > 37 => Known("before", "config")
        /\ line > 38 => Known("before", "toolchain")
        /\ line > 42 => Known("first", "toolchain")
        /\ line > 43 => Known("first", "manifest")
        /\ line > 44 => Known("first", "override")
        /\ line > 52 => Known("first", "config")

\* The walk of the tree knows the identities of the files that it has collected.
CollectedInv ==
    Confirming /\ line <= 38 =>
        /\ line > 33 => "manifest" \in DOMAIN held /\ held["manifest"] \in 0..edits
        /\ line > 34 => "config" \in DOMAIN held /\ held["config"] \in 0..edits
        /\ line > 35 => "toolchain" \in DOMAIN held /\ held["toolchain"] \in 0..edits

\* The moment at which the last file of the tree has been collected: the walk sees
\* what the tree said then or refuses, and a document that is found with the text
\* and the time of the plan later was there already, unless the editor has put a
\* file with an older time there.
Witness(m) ==
    /\ \A d \in TreeDocuments :
          /\ Known("before", d) => Look("before", d).text = m[d]
          /\ line <= 38 /\ stamp[d] = held[d] => text[d] = m[d]
    /\ \A d \in Timed \ aged :
          /\ IsPlanned(d, Current(d)) => m[d] = plan.input[d]
          /\ IsOpen /\ Here = d /\ IsPlanned(d, held.file) => m[d] = plan.input[d]
          /\ Known("first", d) /\ IsPlanned(d, Look("first", d)) => m[d] = plan.input[d]

WitnessInv == Confirming /\ line > 35 => \E m \in moments : Witness(m)

WasThere ==
    /\ \E m \in moments :
          /\ plan.tree = [i \in DOMAIN Tree |-> m[Tree[i]]]
          /\ \A d \in Timed \ aged : plan.input[d] \in {Nothing, m[d]}
    /\ \A d \in Timed : \E m \in moments : plan.input[d] = m[d]
    /\ \E m \in moments : Declaration(m.config) = plan.declaration

ConfirmedInv == outcome # "refused" /\ line > 64 => WasThere

IntakeInv ==
    EditorInv /\ HeldInv /\ SeenInv /\ FirstInv /\ PlanInv /\ ReachedInv
    /\ CollectedInv /\ WitnessInv /\ ConfirmedInv

LEMMA TimedAre == Timed \subseteq Documents /\ TreeDocuments \subseteq Documents
BY DEF Timed, TreeDocuments, Documents

-----------------------------------------------------------------------------
(* What the steps do.                                                      *)

\* The step that is next.
LEMMA NowPlaces ==
    ASSUME mode = "intake", outcome = "running", EditorInv
    PROVE  /\ line \in 1..74 /\ Len(Program[mode]) = 74
           /\ Now.do # "readPlain"
           /\ Now.do \in Reading \cup {"collect", "verify"} => Here \in Documents
           /\ Now.do = "read" => Now.slot \in {"first", "again"}
           /\ Now.do = "hash" => Now.slot \in {"before", "after", "adopt"}
           /\ Now.do = "resolve" => Here = "links"
           /\ Now.do = "plan" <=> line = 32
           /\ Now.do = "confirm" <=> line = 64
           /\ line = 10 => Now.do = "read" /\ Here = "toolchain" /\ Now.slot = "first"
           /\ line = 11 => Now.do = "read" /\ Here = "manifest" /\ Now.slot = "first"
           /\ line = 12 => Now.do = "read" /\ Here = "override" /\ Now.slot = "first"
           /\ line = 33 => Now.do = "collect" /\ Here = "manifest"
           /\ line = 34 => Now.do = "collect" /\ Here = "config"
           /\ line = 35 => Now.do = "collect" /\ Here = "toolchain"
           /\ line = 36 => Now.do = "hash" /\ Here = "manifest" /\ Now.slot = "before"
           /\ line = 37 => Now.do = "hash" /\ Here = "config" /\ Now.slot = "before"
           /\ line = 38 => Now.do = "hash" /\ Here = "toolchain" /\ Now.slot = "before"
           /\ line = 42 => Now.do = "read" /\ Here = "toolchain" /\ Now.slot = "first"
           /\ line = 43 => Now.do = "read" /\ Here = "manifest" /\ Now.slot = "first"
           /\ line = 44 => Now.do = "read" /\ Here = "override" /\ Now.slot = "first"
           /\ line = 52 => Now.do = "read" /\ Here = "config" /\ Now.slot = "first"
           /\ 32 < line /\ line < 64 /\ Now.do \in Reading =>
                 /\ Now.slot = "before" => line \in {36, 37, 38}
                 /\ Now.slot = "first" => line \in {42, 43, 44, 45, 52}
<1>1. line \in 1..74
  BY DEF EditorInv
<1>2. Program[mode] = Intake
  BY DEF Program
<1>3. Len(Program[mode]) = 74
  BY <1>2, IntakeSteps
<1>4. PICK i : i = line
  OBVIOUS
<1>5. Now = Intake[i] /\ Here = Intake[i].doc
  BY <1>2, <1>4 DEF Now, Here
<1>6. \A a, d, s, x : x = Do(a, d, s) => x.do = a /\ x.doc = d /\ x.slot = s
  BY DEF Do
<1>7. i \in 1..74
  BY <1>1, <1>4
<1>8. /\ Now.do # "readPlain"
      /\ Now.do \in Reading \cup {"collect", "verify"} => Here \in Documents
      /\ Now.do = "read" => Now.slot \in {"first", "again"}
      /\ Now.do = "hash" => Now.slot \in {"before", "after", "adopt"}
      /\ Now.do = "resolve" => Here = "links"
      /\ Now.do = "plan" <=> i = 32
      /\ Now.do = "confirm" <=> i = 64
      /\ 32 < i /\ i < 64 /\ Now.do \in Reading =>
            /\ Now.slot = "before" => i \in {36, 37, 38}
            /\ Now.slot = "first" => i \in {42, 43, 44, 45, 52}
  BY <1>5, <1>7, IntakePlaces
<1>9. \A a, d, s : Intake[i] = Do(a, d, s) => Now.do = a /\ Here = d /\ Now.slot = s
  BY <1>5, <1>6
<1>10. /\ i = 10 => Intake[i] = Do("read", "toolchain", "first")
       /\ i = 11 => Intake[i] = Do("read", "manifest", "first")
       /\ i = 12 => Intake[i] = Do("read", "override", "first")
       /\ i = 33 => Intake[i] = Do("collect", "manifest", "before")
       /\ i = 34 => Intake[i] = Do("collect", "config", "before")
       /\ i = 35 => Intake[i] = Do("collect", "toolchain", "before")
       /\ i = 36 => Intake[i] = Do("hash", "manifest", "before")
       /\ i = 37 => Intake[i] = Do("hash", "config", "before")
       /\ i = 38 => Intake[i] = Do("hash", "toolchain", "before")
       /\ i = 42 => Intake[i] = Do("read", "toolchain", "first")
       /\ i = 43 => Intake[i] = Do("read", "manifest", "first")
       /\ i = 44 => Intake[i] = Do("read", "override", "first")
       /\ i = 52 => Intake[i] = Do("read", "config", "first")
  BY <1>7, IntakePlaces
<1>11. /\ i = 10 => Now.do = "read" /\ Here = "toolchain" /\ Now.slot = "first"
       /\ i = 11 => Now.do = "read" /\ Here = "manifest" /\ Now.slot = "first"
       /\ i = 12 => Now.do = "read" /\ Here = "override" /\ Now.slot = "first"
       /\ i = 33 => Now.do = "collect" /\ Here = "manifest"
       /\ i = 34 => Now.do = "collect" /\ Here = "config"
       /\ i = 35 => Now.do = "collect" /\ Here = "toolchain"
       /\ i = 36 => Now.do = "hash" /\ Here = "manifest" /\ Now.slot = "before"
       /\ i = 37 => Now.do = "hash" /\ Here = "config" /\ Now.slot = "before"
       /\ i = 38 => Now.do = "hash" /\ Here = "toolchain" /\ Now.slot = "before"
       /\ i = 42 => Now.do = "read" /\ Here = "toolchain" /\ Now.slot = "first"
       /\ i = 43 => Now.do = "read" /\ Here = "manifest" /\ Now.slot = "first"
       /\ i = 44 => Now.do = "read" /\ Here = "override" /\ Now.slot = "first"
       /\ i = 52 => Now.do = "read" /\ Here = "config" /\ Now.slot = "first"
  BY <1>9, <1>10
<1> QED
  BY <1>3, <1>4, <1>7, <1>8, <1>11

\* What is known when an entry is added to what has been read.
LEMMA SetKnown ==
    ASSUME NEW e, seen' = Set(seen, Slot, e), NEW slot, NEW d
    PROVE  /\ slot = Now.slot /\ d = Here => Known(slot, d)' /\ Look(slot, d)' = e
           /\ ~(slot = Now.slot /\ d = Here) =>
                 (Known(slot, d)' <=> Known(slot, d)) /\ (Known(slot, d) => Look(slot, d)' = Look(slot, d))
<1>1. PICK key : key = Slot
  OBVIOUS
<1>2. <<slot, d>> = key <=> slot = Now.slot /\ d = Here
  BY <1>1 DEF Slot, Here
<1>3. /\ DOMAIN seen' = DOMAIN seen \cup {key}
      /\ \A k \in DOMAIN seen' : seen'[k] = IF k = key THEN e ELSE seen[k]
  BY <1>1 DEF Set
<1> QED
  BY <1>2, <1>3 DEF Known, Look

\* A step that refuses leaves nothing to say.
LEMMA RefusalKeeps ==
    ASSUME IntakeInv, Refuse, text' \in moments', UNCHANGED <<text, stamp, modified, edits>>
    PROVE  IntakeInv'
BY DEF IntakeInv, EditorInv, HeldInv, SeenInv, FirstInv, PlanInv, ReachedInv, CollectedInv,
       WitnessInv, ConfirmedInv, Refuse, Confirming

\* A step that goes on.
LEMMA AdvanceIs ==
    ASSUME mode = "intake", outcome = "running", EditorInv, NEW condition, Advance(condition)
    PROVE  \/ Refuse
           \/ /\ condition /\ line' = line + 1
              /\ outcome' = IF line = 74 THEN "accepted" ELSE "running"
<1>1. Len(Program[mode]) = 74
  BY NowPlaces
<1> QED
  BY <1>1 DEF Advance, GoOn

\* The editor changes what the files are, and never what they were.
LEMMA EditKeeps ==
    ASSUME mode = "intake", IntakeInv, NEW d \in Documents, Edit(d)
    PROVE  IntakeInv'
<1>1. PICK t : text' = [text EXCEPT ![d] = t]
  BY DEF Edit
<1>2. /\ outcome = "running" /\ edits' = edits + 1 /\ stamp' = [stamp EXCEPT ![d] = edits + 1]
      /\ moments' = moments \cup {text'}
      /\ UNCHANGED <<mode, line, held, seen, plan, outcome>>
  BY DEF Edit
<1>3. /\ edits \in Nat /\ edits + 1 \in Nat /\ EditorInv
      /\ stamp \in [Documents -> 0..edits] /\ modified \in [Documents -> 0..edits]
  BY DEF IntakeInv, EditorInv
<1>4. PICK time \in {edits + 1} \cup OldTimes :
          /\ time = edits + 1 \/ time < edits + 1
          /\ modified' = [modified EXCEPT ![d] = time]
          /\ aged' = IF time # edits + 1 THEN aged \cup {d} ELSE aged
  BY <1>2 DEF Edit
<1>5. time \in 0..(edits + 1) /\ aged \subseteq aged' /\ (d \notin aged' => time = edits + 1)
  BY <1>3, <1>4, TimesAreNumbers
<1>6. EditorInv'
  <2>1. /\ stamp' \in [Documents -> 0..(edits + 1)]
        /\ modified' \in [Documents -> 0..(edits + 1)]
    BY <1>2, <1>3, <1>4, <1>5
  <2> QED
    BY <1>1, <1>2, <1>3, <2>1 DEF EditorInv
<1>7. /\ Now' = Now /\ Here' = Here /\ IsOpen' = IsOpen /\ held' = held
      /\ \A s, c : Known(s, c)' = Known(s, c) /\ Look(s, c)' = Look(s, c)
      /\ \A c, x : Sighted(c, x) => Sighted(c, x)'
      /\ 0..edits \subseteq 0..edits'
  BY <1>2, <1>3 DEF Now, Here, IsOpen, Known, Look, Sighted
<1>8. HeldInv' /\ SeenInv'
  <2>1. \A n \in 0..edits : n \in 0..edits'
    BY <1>7
  <2>2. HeldInv'
    BY <1>2, <1>7, <2>1 DEF IntakeInv, HeldInv
  <2>3. SeenInv'
    BY <1>2, <1>7, <2>1 DEF IntakeInv, SeenInv
  <2> QED
    BY <2>2, <2>3
<1>9. FirstInv' /\ ReachedInv'
  BY <1>2, <1>7 DEF IntakeInv, FirstInv, ReachedInv, Confirming
<1>10. PlanInv' /\ CollectedInv'
  <2>1. \A n \in 0..edits : n \in 0..edits'
    BY <1>7
  <2> QED
    BY <1>2, <2>1 DEF IntakeInv, PlanInv, CollectedInv, Confirming
<1>11. WitnessInv'
  <2> SUFFICES ASSUME Confirming, line > 35
               PROVE  \E m \in moments' : Witness(m)'
    BY <1>2 DEF WitnessInv, Confirming
  <2>1. PICK m \in moments : Witness(m)
    BY DEF IntakeInv, WitnessInv
  <2>2. ASSUME NEW c \in TreeDocuments
        PROVE  /\ Known("before", c)' => Look("before", c)'.text = m[c]
               /\ line' <= 38 /\ stamp'[c] = held'[c] => text'[c] = m[c]
    <3>1. CASE c # d
      <4>1. c \in Documents
        BY TimedAre
      <4> QED
        BY <1>1, <1>2, <1>3, <1>7, <2>1, <3>1, <4>1 DEF Witness, EditorInv
    <3>2. CASE c = d
      <4>1. line <= 38 => held[c] \in 0..edits
        <5>1. line \in Nat /\ line > 33 /\ line > 34
          BY <1>3 DEF EditorInv
        <5> QED
          BY <2>2, <5>1 DEF IntakeInv, CollectedInv, TreeDocuments
      <4>2. stamp'[c] = edits + 1
        BY <1>2, <1>3, <3>2
      <4> QED
        BY <1>2, <1>3, <1>7, <2>1, <2>2, <4>1, <4>2 DEF Witness
    <3> QED
      BY <3>1, <3>2
  <2>3. ASSUME NEW c \in Timed \ aged'
        PROVE  /\ IsPlanned(c, Current(c))' => m[c] = plan'.input[c]
               /\ IsOpen' /\ Here' = c /\ IsPlanned(c, held.file)' => m[c] = plan'.input[c]
               /\ Known("first", c)' /\ IsPlanned(c, Look("first", c))' => m[c] = plan'.input[c]
    <3>1. /\ c \in Timed /\ c \notin aged /\ c \in Documents
          /\ \A e : IsPlanned(c, e)' = IsPlanned(c, e')
      BY <1>2, <1>5, TimedAre DEF IsPlanned
    <3>2. /\ IsOpen' /\ Here' = c /\ IsPlanned(c, held.file)' => m[c] = plan'.input[c]
          /\ Known("first", c)' /\ IsPlanned(c, Look("first", c))' => m[c] = plan'.input[c]
      BY <1>2, <1>7, <2>1, <3>1 DEF Witness, IsPlanned
    <3>3. CASE c # d
      <4>1. Current(c)' = Current(c)
        BY <1>1, <1>2, <1>3, <1>4, <3>1, <3>3 DEF Current, EditorInv
      <4> QED
        BY <1>2, <2>1, <3>1, <3>2, <4>1 DEF Witness, IsPlanned
    <3>4. CASE c = d
      <4>1. plan.input[c] # Nothing => plan.files[c] \in 0..edits
        BY <1>2, <3>1 DEF IntakeInv, PlanInv, Confirming
      <4>2. Current(c)'.modified = edits + 1
        BY <1>3, <1>4, <1>5, <2>3, <3>1, <3>4 DEF Current
      <4>3. ~IsPlanned(c, Current(c))'
        BY <1>2, <1>3, <4>1, <4>2 DEF IsPlanned
      <4> QED
        BY <3>2, <4>3
    <3> QED
      BY <3>3, <3>4
  <2>4. Witness(m)'
    BY <2>2, <2>3 DEF Witness
  <2> QED
    BY <1>2, <2>1, <2>4
<1>12. ConfirmedInv'
  BY <1>2, <1>5 DEF IntakeInv, ConfirmedInv, WasThere
<1> QED
  BY <1>6, <1>8, <1>9, <1>10, <1>11, <1>12 DEF IntakeInv

\* The file that is opened is the one there is.
LEMMA OpenKeeps ==
    ASSUME mode = "intake", IntakeInv, Open
    PROVE  IntakeInv'
<1>1. /\ outcome = "running" /\ ~IsOpen /\ held' = Set(held, "file", Current(Here))
      /\ UNCHANGED <<mode, text, stamp, modified, edits, seen, plan, moments, aged>>
  BY DEF Open, Next1, history, files
<1>2. EditorInv
  BY DEF IntakeInv
<1>3. Now.do = "read" /\ Here \in Documents /\ line \notin 33..38
  BY <1>1, <1>2, NowPlaces DEF Open, Next1, Reading
<1>4. CASE Refuse
  <2>1. text' \in moments'
    BY <1>1, <1>2 DEF EditorInv
  <2> QED
    BY <1>1, <1>4, <2>1, RefusalKeeps
<1>5. CASE UNCHANGED <<line, outcome>>
  <2>1. PICK h : h = Here
    OBVIOUS
  <2>2. /\ Now' = Now /\ Here' = h
        /\ \A s, c : Known(s, c)' = Known(s, c) /\ Look(s, c)' = Look(s, c)
        /\ \A c : Current(c)' = Current(c)
        /\ \A c, x : Sighted(c, x)' = Sighted(c, x)
    BY <1>1, <1>5, <2>1 DEF Now, Here, Known, Look, Current, Sighted
  <2>3. IsOpen' /\ held'.file = Current(h)
    BY <1>1, <2>1 DEF IsOpen, Set
  <2>4. Confirming' = Confirming
    BY <1>5 DEF Confirming
  <2>5. EditorInv'
    BY <1>1, <1>2, <1>5 DEF EditorInv
  <2>6. HeldInv'
    <3>1. held'.file.modified = modified[h] /\ held'.file.text = text[h]
      BY <2>3 DEF Current
    <3>2. modified[h] \in 0..edits /\ text \in moments
      BY <1>2, <1>3, <2>1 DEF EditorInv
    <3> QED
      BY <1>1, <1>3, <2>2, <3>1, <3>2 DEF HeldInv, Sighted
  <2>7. SeenInv' /\ FirstInv' /\ PlanInv' /\ ReachedInv'
    BY <1>1, <1>5, <2>2, <2>4 DEF IntakeInv, SeenInv, FirstInv, PlanInv, ReachedInv
  <2>8. CollectedInv'
    BY <1>2, <1>3, <1>5 DEF CollectedInv, Confirming, EditorInv
  <2>9. WitnessInv'
    <3> SUFFICES ASSUME Confirming, line > 35
                 PROVE  \E m \in moments' : Witness(m)'
      BY <1>5, <2>4 DEF WitnessInv
    <3>1. PICK m \in moments : Witness(m)
      BY DEF IntakeInv, WitnessInv
    <3>2. line' = line /\ line > 38
      BY <1>2, <1>3, <1>5 DEF EditorInv
    <3>3. \A c, e : IsPlanned(c, e)' = IsPlanned(c, e')
      BY <1>1 DEF IsPlanned
    <3>4. \A c \in Timed \ aged : IsPlanned(c, Current(c)) => m[c] = plan.input[c]
      BY <3>1 DEF Witness
    <3>5. ASSUME NEW c \in Timed \ aged
          PROVE  /\ IsPlanned(c, Current(c))' => m[c] = plan.input[c]
                 /\ IsOpen' /\ Here' = c /\ IsPlanned(c, held.file)' => m[c] = plan.input[c]
      BY <1>1, <2>1, <2>2, <2>3, <3>4 DEF IsPlanned
    <3>6. ASSUME NEW c \in Timed \ aged
          PROVE  Known("first", c)' /\ IsPlanned(c, Look("first", c))' => m[c] = plan.input[c]
      BY <1>1, <2>2, <3>1 DEF Witness, IsPlanned
    <3>7. ASSUME NEW c \in TreeDocuments
          PROVE  Known("before", c)' => Look("before", c)'.text = m[c]
      BY <2>2, <3>1 DEF Witness
    <3>8. Witness(m)'
      <4>1. ~(line' <= 38)
        BY <1>2, <3>2 DEF EditorInv
      <4>2. UNCHANGED <<plan, aged>>
        BY <1>1
      <4> QED
        BY <3>5, <3>6, <3>7, <4>1, <4>2 DEF Witness
    <3> QED
      BY <1>1, <3>1, <3>8
  <2>10. ConfirmedInv'
    BY <1>1, <1>5 DEF IntakeInv, ConfirmedInv, WasThere
  <2> QED
    BY <2>5, <2>6, <2>7, <2>8, <2>9, <2>10 DEF IntakeInv
<1> QED
  BY <1>4, <1>5 DEF Open

\* What a step of a program takes into account: the file that was opened, or
\* the one there is, which for a tree is the one that was collected.
Taken(e) ==
    /\ seen' = Set(seen, Slot, e)
    /\ \/ Now.do = "read" /\ IsOpen /\ e = held.file
       \/ Now.do \in {"hash", "resolve"} /\ e = Current(Here)
    /\ Now.do = "hash" => stamp[Here] = held[Here] /\ held' = held
    /\ ~IsOpen'
    /\ line' = line + 1 /\ outcome' = IF line = 74 THEN "accepted" ELSE "running"
    /\ UNCHANGED <<mode, text, stamp, modified, edits, plan, moments, aged>>

\* It was there.
LEMMA TakenWasThere ==
    ASSUME mode = "intake", outcome = "running", IntakeInv, NEW e, Taken(e)
    PROVE  /\ Here \in Documents /\ Now.do \in Reading /\ line \notin {32, 33, 34, 35, 64}
           /\ line \in 1..74 /\ line' = line + 1
           /\ e.modified \in 0..edits /\ Sighted(Here, e.text)
<1>1. EditorInv /\ HeldInv
  BY DEF IntakeInv
<1>2. /\ Now.do \in Reading /\ Here \in Documents /\ line \notin {32, 33, 34, 35, 64}
      /\ line \in 1..74 /\ line' = line + 1
  BY <1>1, NowPlaces DEF Taken, Reading
<1>3. CASE Now.do = "read" /\ IsOpen /\ e = held.file
  BY <1>1, <1>2, <1>3 DEF HeldInv
<1>4. CASE Now.do \in {"hash", "resolve"} /\ e = Current(Here)
  <2>1. modified[Here] \in 0..edits /\ text \in moments
    BY <1>1, <1>2 DEF EditorInv
  <2> QED
    BY <1>2, <1>4, <2>1 DEF Current, Sighted
<1> QED
  BY <1>3, <1>4 DEF Taken

\* What was known stays known.
LEMMA TakenKnown ==
    ASSUME mode = "intake", outcome = "running", IntakeInv, NEW e, Taken(e), NEW slot, NEW d
    PROVE  /\ Current(d)' = Current(d) /\ (\A x : Sighted(d, x)' = Sighted(d, x))
           /\ Known(slot, d) => Known(slot, d)'
           /\ slot = Now.slot /\ d = Here => Known(slot, d)' /\ Look(slot, d)' = e
           /\ ~(slot = Now.slot /\ d = Here) =>
                 (Known(slot, d)' <=> Known(slot, d)) /\ (Known(slot, d) => Look(slot, d)' = Look(slot, d))
<1>1. seen' = Set(seen, Slot, e)
  BY DEF Taken
<1>2. Current(d)' = Current(d) /\ (\A x : Sighted(d, x)' = Sighted(d, x))
  BY DEF Taken, Current, Sighted
<1> QED
  BY <1>1, <1>2, SetKnown

\* What is taken is known.
LEMMA TakenKeepsSeen ==
    ASSUME mode = "intake", outcome = "running", IntakeInv, NEW e, Taken(e)
    PROVE  EditorInv' /\ HeldInv' /\ SeenInv' /\ FirstInv' /\ PlanInv' /\ ConfirmedInv'
<1>1. EditorInv
  BY DEF IntakeInv
<1>2. line' = line + 1 /\ line \in 1..74 /\ line \notin {32, 64}
  BY TakenWasThere
<1>3. EditorInv'
  BY <1>1, <1>2 DEF EditorInv, Taken
<1>4. HeldInv'
  BY DEF HeldInv, Taken
<1>5. SeenInv'
  <2> SUFFICES ASSUME NEW d \in Documents, Known("first", d)'
               PROVE  Look("first", d)'.modified \in 0..edits' /\ Sighted(d, Look("first", d).text)'
    BY DEF SeenInv
  <2>1. edits' = edits /\ e.modified \in 0..edits /\ Sighted(Here, e.text)
    BY TakenWasThere DEF Taken
  <2>2. \A x : Sighted(d, x)' = Sighted(d, x)
    BY TakenKnown
  <2>3. CASE Now.slot = "first" /\ d = Here
    <3>1. Look("first", d)' = e
      BY <2>3, TakenKnown
    <3> QED
      BY <2>1, <2>2, <2>3, <3>1 DEF Sighted
  <2>4. CASE ~(Now.slot = "first" /\ d = Here)
    <3>1. Known("first", d) /\ Look("first", d)' = Look("first", d)
      BY <2>4, TakenKnown
    <3>2. Look("first", d).modified \in 0..edits /\ Sighted(d, Look("first", d).text)
      BY <3>1 DEF IntakeInv, SeenInv
    <3> QED
      BY <2>1, <2>2, <3>1, <3>2 DEF Sighted
  <2> QED
    BY <2>3, <2>4
<1>6. FirstInv'
  <2> SUFFICES ASSUME line' <= 32
               PROVE  FirstInv'
    BY DEF FirstInv
  <2>1. /\ line = 10 => Here = "toolchain" /\ Now.slot = "first"
        /\ line = 11 => Here = "manifest" /\ Now.slot = "first"
        /\ line = 12 => Here = "override" /\ Now.slot = "first"
    BY <1>1, NowPlaces
  <2>2. \A d : /\ Known("first", d) => Known("first", d)'
               /\ Now.slot = "first" /\ d = Here => Known("first", d)'
    BY TakenKnown
  <2>3. line <= 32
    BY <1>2
  <2> QED
    BY <1>2, <2>1, <2>2, <2>3 DEF IntakeInv, FirstInv
<1>7. PlanInv' /\ ConfirmedInv'
  <2>1. /\ UNCHANGED <<edits, plan, moments, aged>> /\ outcome' # "refused"
        /\ line' > 32 => line > 32
        /\ line' > 64 => line > 64
    BY <1>2 DEF Taken
  <2> QED
    BY <2>1 DEF IntakeInv, PlanInv, ConfirmedInv, WasThere
<1> QED
  BY <1>3, <1>4, <1>5, <1>6, <1>7

\* What is taken, and when.
LEMMA TakenKeepsReached ==
    ASSUME mode = "intake", outcome = "running", IntakeInv, NEW e, Taken(e)
    PROVE  ReachedInv' /\ CollectedInv'
<1>1. EditorInv
  BY DEF IntakeInv
<1>2. /\ line' = line + 1 /\ line \in 1..74 /\ line \notin {32, 33, 34, 35, 64}
      /\ Now.do \in Reading
  BY TakenWasThere
<1> SUFFICES ASSUME Confirming'
             PROVE  ReachedInv' /\ CollectedInv'
  BY DEF ReachedInv, CollectedInv
<1>3. Confirming /\ line < 64
  BY <1>2 DEF Confirming
<1>4. /\ \A s, d : Known(s, d) => Known(s, d)'
      /\ \A s, d : s = Now.slot /\ d = Here => Known(s, d)'
      /\ \A s, d : Known(s, d)' => Known(s, d) \/ (s = Now.slot /\ d = Here)
  BY TakenKnown
<1>5. /\ line = 36 => Here = "manifest" /\ Now.slot = "before" /\ Now.do = "hash"
      /\ line = 37 => Here = "config" /\ Now.slot = "before" /\ Now.do = "hash"
      /\ line = 38 => Here = "toolchain" /\ Now.slot = "before" /\ Now.do = "hash"
      /\ line = 42 => Here = "toolchain" /\ Now.slot = "first"
      /\ line = 43 => Here = "manifest" /\ Now.slot = "first"
      /\ line = 44 => Here = "override" /\ Now.slot = "first"
      /\ line = 52 => Here = "config" /\ Now.slot = "first"
      /\ Now.slot = "before" => line \in {36, 37, 38}
      /\ Now.slot = "first" => line \in {42, 43, 44, 45, 52}
  BY <1>1, <1>2, <1>3, NowPlaces DEF Confirming
<1>6. ReachedInv
  BY DEF IntakeInv
<1>7. /\ \A d \in Timed : Known("first", d)' => line' > 42
      /\ \A d \in TreeDocuments : Known("before", d)' => line' > 36
  BY <1>2, <1>3, <1>4, <1>5, <1>6 DEF ReachedInv
<1>8. ReachedInv'
  BY <1>2, <1>3, <1>4, <1>5, <1>6, <1>7 DEF ReachedInv
<1>9. CollectedInv'
  <2>1. line' <= 38 => line \in {36, 37} /\ held' = held /\ edits' = edits
    BY <1>2, <1>3, <1>5 DEF Confirming, Taken
  <2> QED
    BY <1>2, <1>3, <2>1 DEF IntakeInv, CollectedInv
<1> QED
  BY <1>8, <1>9

\* What is taken agrees with the moment of the walk.
LEMMA TakenKeepsWitness ==
    ASSUME mode = "intake", outcome = "running", IntakeInv, NEW e, Taken(e)
    PROVE  WitnessInv'
<1> SUFFICES ASSUME Confirming', line' > 35
             PROVE  \E m \in moments : Witness(m)'
  BY DEF WitnessInv, Taken
<1>1. EditorInv
  BY DEF IntakeInv
<1>2. /\ line' = line + 1 /\ line \in 1..74 /\ line \notin {32, 33, 34, 35, 64}
      /\ Now.do \in Reading
  BY TakenWasThere
<1>3. Confirming /\ line < 64 /\ line > 35
  BY <1>2 DEF Confirming
<1>4. PICK m \in moments : Witness(m)
  BY <1>3 DEF IntakeInv, WitnessInv
<1>5. /\ Now.slot = "before" => line \in {36, 37, 38}
      /\ line \in {36, 37, 38} => Now.do = "hash"
      /\ Now.do = "read" => Now.slot # "before"
      /\ Now.do = "hash" => Now.slot # "first"
      /\ Now.do = "resolve" => Here = "links"
  BY <1>1, <1>2, <1>3, NowPlaces DEF Confirming
<1>6. UNCHANGED <<text, stamp, plan, aged>> /\ ~IsOpen'
  BY DEF Taken
<1>7. ASSUME NEW d \in TreeDocuments
      PROVE  /\ Known("before", d)' => Look("before", d)'.text = m[d]
             /\ line' <= 38 /\ stamp'[d] = held'[d] => text'[d] = m[d]
  <2>1. CASE Now.slot = "before" /\ d = Here
    <3>1. Look("before", d)' = e
      BY <2>1, TakenKnown
    <3>2. line <= 38 /\ Now.do = "hash" /\ stamp[d] = held[d] /\ held' = held /\ e = Current(d)
      BY <1>5, <2>1 DEF Taken
    <3>3. text[d] = m[d]
      BY <1>4, <3>2 DEF Witness
    <3> QED
      BY <1>6, <3>1, <3>2, <3>3 DEF Current
  <2>2. CASE ~(Now.slot = "before" /\ d = Here)
    <3>1. Known("before", d)' => Known("before", d) /\ Look("before", d)' = Look("before", d)
      BY <2>2, TakenKnown
    <3>2. line' <= 38 => line <= 38 /\ held' = held
      BY <1>2, <1>3, <1>5 DEF Taken
    <3> QED
      BY <1>4, <1>6, <3>1, <3>2 DEF Witness
  <2> QED
    BY <2>1, <2>2
<1>8. ASSUME NEW d \in Timed \ aged
      PROVE  /\ IsPlanned(d, Current(d))' => m[d] = plan'.input[d]
             /\ Known("first", d)' /\ IsPlanned(d, Look("first", d))' => m[d] = plan'.input[d]
  <2>1. IsPlanned(d, Current(d))' => m[d] = plan'.input[d]
    <3>1. Current(d)' = Current(d)
      BY TakenKnown
    <3> QED
      BY <1>4, <1>6, <3>1 DEF Witness, IsPlanned
  <2>2. CASE Now.slot = "first" /\ d = Here
    <3>1. Look("first", d)' = e
      BY <2>2, TakenKnown
    <3>2. Now.do = "read" /\ IsOpen /\ e = held.file
      <4>1. d # "links"
        BY DEF Timed
      <4> QED
        BY <1>5, <2>2, <4>1 DEF Taken
    <3> QED
      BY <1>4, <1>6, <2>1, <2>2, <3>1, <3>2 DEF Witness, IsPlanned
  <2>3. CASE ~(Now.slot = "first" /\ d = Here)
    <3>1. Known("first", d)' => Known("first", d) /\ Look("first", d)' = Look("first", d)
      BY <2>3, TakenKnown
    <3> QED
      BY <1>4, <1>6, <2>1, <3>1 DEF Witness, IsPlanned
  <2> QED
    BY <2>2, <2>3
<1>9. Witness(m)'
  BY <1>6, <1>7, <1>8 DEF Witness
<1> QED
  BY <1>9

\* A step that takes a document into account.
LEMMA TakenKeeps ==
    ASSUME mode = "intake", outcome = "running", IntakeInv, NEW e, Taken(e)
    PROVE  IntakeInv'
BY TakenKeepsSeen, TakenKeepsReached, TakenKeepsWitness DEF IntakeInv

\* The comparison with the plan: the walk saw the moment at which the last file was
\* collected, and a document that has the text and the time of the plan was there.
LEMMA ConfirmationShows ==
    ASSUME mode = "intake", outcome = "running", IntakeInv, line = 64, IsConfirmed
    PROVE  WasThere
<1>1. Confirming /\ line > 35
  BY DEF Confirming
<1>2. /\ plan.tree = Digest("before") /\ plan.declaration = Declaration(At("first", "config"))
      /\ \A d \in Timed :
            /\ plan.input[d] = At("first", d)
            /\ plan.input[d] # Nothing => plan.files[d] = Look("first", d).modified
  BY DEF IsConfirmed, IntakeSnapshot, Input, Timed, Look, At
<1>3. /\ \A d \in TreeDocuments : Known("before", d)
      /\ \A d \in Timed : Known("first", d)
      /\ Known("first", "config")
  BY <1>1 DEF IntakeInv, ReachedInv, TreeDocuments, Timed
<1>4. PICK m \in moments : Witness(m)
  BY <1>1 DEF IntakeInv, WitnessInv
<1>5. plan.tree = [i \in DOMAIN Tree |-> m[Tree[i]]]
  <2>1. \A d \in TreeDocuments : At("before", d) = m[d]
    BY <1>3, <1>4 DEF Witness, Look, At
  <2>2. \A i \in DOMAIN Tree : Tree[i] \in TreeDocuments
    BY DEF Tree, TreeDocuments
  <2> QED
    BY <1>2, <2>1, <2>2 DEF Digest
<1>6. ASSUME NEW d \in Timed \ aged PROVE plan.input[d] \in {Nothing, m[d]}
  <2>1. plan.input[d] # Nothing => IsPlanned(d, Look("first", d))
    BY <1>2 DEF IsPlanned, Look, At
  <2> QED
    BY <1>3, <1>4, <2>1 DEF Witness
<1>7. /\ \A d \in Timed : \E c \in moments : plan.input[d] = c[d]
      /\ \E c \in moments : Declaration(c.config) = plan.declaration
  <2>1. \A d \in Timed \cup {"config"} : Sighted(d, At("first", d))
    <3>1. Timed \cup {"config"} \subseteq Documents
      BY DEF Timed, Documents
    <3> QED
      BY <1>3, <3>1 DEF IntakeInv, SeenInv, Look, At
  <2> QED
    BY <1>2, <2>1 DEF Sighted
<1> QED
  BY <1>4, <1>5, <1>6, <1>7 DEF WasThere

\* A step that reads nothing.
Still ==
    /\ Now.do \notin Reading \cup {"plan"}
    /\ Now.do = "confirm" => IsConfirmed
    /\ Now.do = "collect" => held' = Set(held, Here, stamp[Here])
    /\ ~IsOpen'
    /\ line' = line + 1 /\ outcome' = IF line = 74 THEN "accepted" ELSE "running"
    /\ UNCHANGED <<mode, text, stamp, modified, edits, seen, plan, moments, aged>>

\* A step that takes nothing keeps the invariant; the last file that is collected
\* makes the moment of the walk.
LEMMA StillKeeps ==
    ASSUME mode = "intake", outcome = "running", IntakeInv, Still
    PROVE  IntakeInv'
<1>1. EditorInv
  BY DEF IntakeInv
<1>2. line' = line + 1 /\ line \in 1..74 /\ line # 32 /\ (line = 64 => IsConfirmed)
  BY <1>1, NowPlaces DEF Still
<1>3. /\ line \notin {10, 11, 12, 36, 37, 38, 42, 43, 44, 52}
      /\ line = 33 => Here = "manifest" /\ Now.do = "collect"
      /\ line = 34 => Here = "config" /\ Now.do = "collect"
      /\ line = 35 => Here = "toolchain" /\ Now.do = "collect"
  BY <1>1, NowPlaces DEF Still, Reading
<1>4. /\ \A s, c : Known(s, c)' = Known(s, c) /\ Look(s, c)' = Look(s, c)
      /\ \A c : Current(c)' = Current(c)
      /\ \A c, x : Sighted(c, x)' = Sighted(c, x)
  BY DEF Still, Known, Look, Current, Sighted
<1>5. EditorInv' /\ HeldInv'
  BY <1>1, <1>2 DEF EditorInv, HeldInv, Still
<1>6. SeenInv' /\ FirstInv' /\ PlanInv'
  BY <1>2, <1>3, <1>4 DEF IntakeInv, SeenInv, FirstInv, PlanInv, Still
<1>7. Confirming' => Confirming \/ line = 32
  BY <1>2 DEF Confirming
<1>8. ReachedInv'
  <2> SUFFICES ASSUME Confirming'
               PROVE  ReachedInv'
    BY DEF ReachedInv
  <2> QED
    BY <1>2, <1>3, <1>4, <1>7 DEF IntakeInv, ReachedInv
<1>9. CollectedInv'
  <2> SUFFICES ASSUME Confirming', line' <= 38
               PROVE  CollectedInv'
    BY DEF CollectedInv
  <2>1. Confirming /\ line \in {33, 34, 35}
    BY <1>2, <1>3, <1>7 DEF Confirming
  <2>2. /\ Now.do = "collect" /\ held' = Set(held, Here, stamp[Here]) /\ edits' = edits
        /\ Here \in Documents
    BY <1>1, <1>3, <2>1, NowPlaces DEF Still
  <2>3. stamp[Here] \in 0..edits
    BY <1>1, <2>2 DEF EditorInv
  <2>4. /\ held'[Here] = stamp[Here]
        /\ \A d : d \in DOMAIN held /\ d # Here => held'[d] = held[d]
    BY <2>2 DEF Set
  <2>5. CollectedInv
    BY DEF IntakeInv
  <2>6. DOMAIN held' = DOMAIN held \cup {Here}
    BY <2>2 DEF Set
  <2>7. CASE line = 33
    <3>1. Here = "manifest" /\ line' = 34
      BY <1>2, <1>3, <2>7
    <3> QED
      BY <2>2, <2>3, <2>4, <2>6, <3>1 DEF CollectedInv
  <2>8. CASE line = 34
    <3>1. Here = "config" /\ line' = 35
      BY <1>2, <1>3, <2>8
    <3> QED
      BY <2>1, <2>2, <2>3, <2>4, <2>5, <2>6, <2>8, <3>1 DEF CollectedInv
  <2>9. CASE line = 35
    <3>1. Here = "toolchain" /\ line' = 36
      BY <1>2, <1>3, <2>9
    <3> QED
      BY <2>1, <2>2, <2>3, <2>4, <2>5, <2>6, <2>9, <3>1 DEF CollectedInv
  <2> QED
    BY <2>1, <2>7, <2>8, <2>9
<1>10. WitnessInv'
  <2> SUFFICES ASSUME Confirming', line' > 35
               PROVE  \E m \in moments : Witness(m)'
    BY DEF WitnessInv, Still
  <2>1. Confirming /\ UNCHANGED <<text, stamp, plan, aged>> /\ ~IsOpen'
    BY <1>2, <1>7 DEF Still
  <2>2. CASE line = 35
    <3>1. text \in moments
      BY <1>1 DEF EditorInv
    <3>2. /\ \A d \in TreeDocuments : ~Known("before", d)
          /\ \A d \in Timed : ~Known("first", d)
      BY <2>1, <2>2 DEF IntakeInv, ReachedInv
    <3>3. Witness(text)'
      BY <1>4, <2>1, <3>2 DEF Witness, IsPlanned, Current
    <3> QED
      BY <2>1, <3>1, <3>3
  <2>3. CASE line # 35
    <3>1. line > 38
      BY <1>2, <1>3, <2>3
    <3>2. PICK m \in moments : Witness(m)
      <4>1. line > 35
        BY <1>2, <3>1
      <4> QED
        BY <2>1, <4>1 DEF IntakeInv, WitnessInv
    <3>3. Witness(m)'
      BY <1>2, <1>4, <2>1, <3>1, <3>2 DEF Witness, IsPlanned
    <3> QED
      BY <3>3
  <2> QED
    BY <2>2, <2>3
<1>11. ConfirmedInv'
  <2>1. CASE line = 64
    <3>1. WasThere
      BY <1>2, <2>1, ConfirmationShows
    <3> QED
      BY <3>1 DEF ConfirmedInv, WasThere, Still
  <2>2. CASE line # 64
    BY <1>2, <2>2 DEF IntakeInv, ConfirmedInv, WasThere, Still
  <2> QED
    BY <2>1, <2>2
<1> QED
  BY <1>5, <1>6, <1>8, <1>9, <1>10, <1>11 DEF IntakeInv

\* What is planned is what was read.
LEMMA PlanKeeps ==
    ASSUME mode = "intake", IntakeInv, Plan
    PROVE  IntakeInv'
<1>1. /\ outcome = "running" /\ Now.do = "plan" /\ Advance(Holds("plan"))
      /\ plan' = IntakeSnapshot /\ seen' = <<>> /\ moments' = {text}
      /\ UNCHANGED <<mode, text, stamp, modified, edits, held>>
  BY DEF Plan, Next1, files
<1>2. EditorInv /\ line = 32 /\ ~IsOpen
  BY <1>1, NowPlaces DEF IntakeInv, HeldInv
<1>3. \/ Refuse
      \/ Holds("plan") /\ line' = 33 /\ outcome' = "running"
  BY <1>1, <1>2, AdvanceIs
<1>4. CASE Refuse
  <2>1. text' \in moments'
    BY <1>1
  <2> QED
    BY <1>1, <1>4, <2>1, RefusalKeeps
<1>5. CASE Holds("plan") /\ line' = 33 /\ outcome' = "running"
  <2>1. \A s, c : ~Known(s, c)'
    BY <1>1 DEF Known
  <2>2. EditorInv'
    BY <1>1, <1>2, <1>5 DEF EditorInv
  <2>3. HeldInv'
    BY <1>1, <1>2 DEF HeldInv, IsOpen
  <2>4. SeenInv' /\ FirstInv' /\ ReachedInv' /\ CollectedInv' /\ WitnessInv' /\ ConfirmedInv'
    BY <1>5, <2>1 DEF SeenInv, FirstInv, ReachedInv, CollectedInv, WitnessInv, ConfirmedInv
  <2>5. ASSUME NEW d \in Timed, plan'.input[d] # Nothing
        PROVE  plan'.files[d] \in 0..edits'
    <3>1. Known("first", d) /\ d \in Documents
      BY <1>1, <1>2, TimedAre DEF IntakeInv, FirstInv, Timed
    <3>2. Look("first", d).modified \in 0..edits
      BY <1>1, <3>1 DEF IntakeInv, SeenInv
    <3>3. plan'.input[d] = At("first", d)
      BY <1>1 DEF IntakeSnapshot, Input, Timed
    <3>4. plan'.files[d] = Look("first", d).modified
      BY <1>1, <2>5, <3>3 DEF IntakeSnapshot, Look
    <3> QED
      BY <1>1, <3>2, <3>4
  <2>6. plan'.input.toolchain = Managed
    BY <1>1, <1>5 DEF Holds, IntakeSnapshot
  <2>7. PlanInv'
    BY <2>5, <2>6 DEF PlanInv
  <2> QED
    BY <2>2, <2>3, <2>4, <2>7 DEF IntakeInv
<1> QED
  BY <1>3, <1>4, <1>5

\* The second half of a read, a link, an entry of a tree.
LEMMA ReadingKeeps ==
    ASSUME mode = "intake", IntakeInv, Close \/ Resolve \/ HashEntry
    PROVE  IntakeInv'
<1>1. EditorInv /\ outcome = "running"
  BY DEF IntakeInv, Close, Resolve, HashEntry, Next1
<1>3. text \in moments
  BY <1>1 DEF EditorInv
<1>4. CASE Refuse
  <2>1. text' \in moments' /\ UNCHANGED <<text, stamp, modified, edits>>
    BY <1>3 DEF Close, Resolve, HashEntry, history, files
  <2> QED
    BY <1>4, <2>1, RefusalKeeps
<1>5. CASE ~Refuse
  <2>1. CASE Close
    <3>1. /\ Advance(held.file.text = Nothing \/ stamp[Here] = held.file.stamp)
          /\ Now.do = "read" /\ IsOpen /\ seen' = Set(seen, Slot, held.file) /\ held' = <<>>
          /\ UNCHANGED <<mode, text, stamp, modified, edits, plan, moments, aged>>
      BY <2>1 DEF Close, Next1, history, files
    <3>2. line' = line + 1 /\ outcome' = IF line = 74 THEN "accepted" ELSE "running"
      BY <1>1, <1>5, <3>1, AdvanceIs
    <3>3. ~IsOpen'
      BY <3>1 DEF IsOpen
    <3>4. Taken(held.file)
      BY <3>1, <3>2, <3>3 DEF Taken
    <3> QED
      BY <1>1, <3>4, TakenKeeps
  <2>2. CASE Resolve
    <3>1. /\ Advance(TRUE) /\ Now.do = "resolve" /\ seen' = Set(seen, Slot, Current(Here))
          /\ held' = held /\ UNCHANGED <<mode, text, stamp, modified, edits, plan, moments, aged>>
      BY <2>2 DEF Resolve, Next1, history, files, Advance
    <3>2. line' = line + 1 /\ outcome' = IF line = 74 THEN "accepted" ELSE "running"
      BY <1>1, <1>5, <3>1, AdvanceIs
    <3>3. ~IsOpen'
      BY <1>1, <3>1 DEF IntakeInv, HeldInv, IsOpen
    <3>4. Taken(Current(Here))
      BY <3>1, <3>2, <3>3 DEF Taken
    <3> QED
      BY <1>1, <3>4, TakenKeeps
  <2>3. CASE HashEntry
    <3>1. /\ Advance(stamp[Here] = held[Here]) /\ Now.do = "hash"
          /\ seen' = Set(seen, Slot, Current(Here))
          /\ held' = held /\ UNCHANGED <<mode, text, stamp, modified, edits, plan, moments, aged>>
      BY <2>3 DEF HashEntry, Next1, history, files
    <3>2. /\ stamp[Here] = held[Here]
          /\ line' = line + 1 /\ outcome' = IF line = 74 THEN "accepted" ELSE "running"
      BY <1>1, <1>5, <3>1, AdvanceIs
    <3>3. ~IsOpen'
      BY <1>1, <3>1 DEF IntakeInv, HeldInv, IsOpen
    <3>5. Taken(Current(Here))
      BY <3>1, <3>2, <3>3 DEF Taken
    <3> QED
      BY <1>1, <3>5, TakenKeeps
  <2> QED
    BY <2>1, <2>2, <2>3
<1> QED
  BY <1>4, <1>5

\* The walk of a tree, but for its contents, and the comparisons.
LEMMA DecidingKeeps ==
    ASSUME mode = "intake", IntakeInv,
           \/ Collect \/ VerifyEntry
           \/ \E action \in {"classify", "compare", "match", "comparePair", "declare", "snapshot",
                             "toolchain", "confirm", "adopt", "register"} : Decide(action)
    PROVE  IntakeInv'
<1>1. EditorInv /\ outcome = "running"
  BY DEF IntakeInv, Collect, VerifyEntry, Decide, Next1
<1>2. text' \in moments' /\ UNCHANGED <<mode, text, stamp, modified, edits, seen, plan, moments, aged>>
  BY <1>1 DEF Collect, VerifyEntry, Decide, history, files, EditorInv
<1>3. CASE Refuse
  BY <1>2, <1>3, RefusalKeeps
<1>4. CASE ~Refuse
  <2>1. CASE Collect
    <3>1. /\ Advance(text[Here] # Nothing) /\ Now.do = "collect"
          /\ held' = Set(held, Here, stamp[Here])
      BY <2>1 DEF Collect, Next1
    <3>2. line' = line + 1 /\ outcome' = IF line = 74 THEN "accepted" ELSE "running"
      BY <1>1, <1>4, <3>1, AdvanceIs
    <3>3. ~IsOpen'
      <4>1. Here # "file"
        BY <1>1, <3>1, NowPlaces DEF Documents
      <4>2. ~IsOpen
        BY <1>1, <3>1 DEF IntakeInv, HeldInv
      <4> QED
        BY <3>1, <4>1, <4>2 DEF IsOpen, Set
    <3>4. Still
      BY <1>2, <3>1, <3>2, <3>3 DEF Still, Reading
    <3> QED
      BY <1>1, <3>4, StillKeeps
  <2>2. CASE VerifyEntry
    <3>1. /\ Advance(stamp[Here] = held[Here]) /\ Now.do = "verify"
          /\ held' = [d \in DOMAIN held \ {Here} |-> held[d]]
      BY <2>2 DEF VerifyEntry, Next1
    <3>2. line' = line + 1 /\ outcome' = IF line = 74 THEN "accepted" ELSE "running"
      BY <1>1, <1>4, <3>1, AdvanceIs
    <3>3. ~IsOpen'
      BY <1>1, <3>1 DEF IntakeInv, HeldInv, IsOpen
    <3>4. Still
      BY <1>2, <3>1, <3>2, <3>3 DEF Still, Reading
    <3> QED
      BY <1>1, <3>4, StillKeeps
  <2>3. ASSUME NEW action \in {"classify", "compare", "match", "comparePair", "declare",
                               "snapshot", "toolchain", "confirm", "adopt", "register"},
               Decide(action)
        PROVE  IntakeInv'
    <3>1. Advance(Holds(action)) /\ Now.do = action /\ held' = held
      BY <2>3 DEF Decide, Next1
    <3>2. /\ Holds(action)
          /\ line' = line + 1 /\ outcome' = IF line = 74 THEN "accepted" ELSE "running"
      BY <1>1, <1>4, <3>1, AdvanceIs
    <3>3. ~IsOpen'
      BY <1>1, <3>1 DEF IntakeInv, HeldInv, IsOpen
    <3>4. action = "confirm" => IsConfirmed
      BY <3>2 DEF Holds
    <3>5. Still
      BY <1>2, <3>1, <3>2, <3>3, <3>4 DEF Still, Reading
    <3> QED
      BY <1>1, <3>5, StillKeeps
  <2> QED
    BY <2>1, <2>2, <2>3
<1> QED
  BY <1>3, <1>4

-----------------------------------------------------------------------------
(* The invariant, and what it is for.                                      *)

IntakeInvariant == mode = "intake" => IntakeInv

\* A read begins with nothing known.
LEMMA InitIntake == Init => IntakeInvariant
<1> SUFFICES ASSUME Init
             PROVE  IntakeInv
  BY DEF IntakeInvariant
<1>1. DOMAIN text = Documents
  BY StartsAreTexts DEF Init
<1>2. EditorInv
  BY <1>1 DEF Init, EditorInv
<1>3. ~IsOpen /\ \A s, c : ~Known(s, c)
  BY DEF Init, IsOpen, Known
<1> QED
  BY <1>2, <1>3 DEF Init, IntakeInv, HeldInv, SeenInv, FirstInv, PlanInv, Confirming, ReachedInv,
       CollectedInv, WitnessInv, ConfirmedInv

\* Every step keeps the invariant.
LEMMA NextIntake == IntakeInvariant /\ [Next]_vars => IntakeInvariant'
<1> SUFFICES ASSUME IntakeInvariant, [Next]_vars, mode' = "intake"
             PROVE  IntakeInv'
  BY DEF IntakeInvariant
<1>1. mode = "intake"
  BY DEF Next, vars, Edit, Open, Close, Plain, Resolve, Collect, HashEntry, VerifyEntry, Plan,
         Decide
<1>2. IntakeInv
  BY <1>1 DEF IntakeInvariant
<1>3. ASSUME NEW d \in Documents, Edit(d) PROVE IntakeInv'
  BY <1>1, <1>2, <1>3, EditKeeps
<1>4. CASE Open
  BY <1>1, <1>2, <1>4, OpenKeeps
<1>5. CASE Close \/ Resolve \/ HashEntry
  BY <1>1, <1>2, <1>5, ReadingKeeps
<1>6. CASE Plain
  BY <1>1, <1>2, <1>6, NowPlaces DEF IntakeInv, Plain, Next1
<1>7. CASE Plan
  BY <1>1, <1>2, <1>7, PlanKeeps
<1>8. CASE \/ Collect \/ VerifyEntry
           \/ \E action \in {"classify", "compare", "match", "comparePair", "declare", "snapshot",
                             "toolchain", "confirm", "adopt", "register"} : Decide(action)
  BY <1>1, <1>2, <1>8, DecidingKeeps
<1>9. CASE UNCHANGED vars
  <2>1. UNCHANGED <<mode, text, stamp, modified, edits, line, held, seen, plan, outcome,
                    moments, aged>>
    BY <1>9 DEF vars, history, files
  <2>2. EditorInv' /\ ConfirmedInv'
    BY <1>2, <2>1 DEF IntakeInv, EditorInv, ConfirmedInv, WasThere
  <2>3. HeldInv' /\ FirstInv' /\ PlanInv'
    BY <1>2, <2>1 DEF IntakeInv, HeldInv, FirstInv, PlanInv, Sighted, Known, IsOpen, Now, Here
  <2>4. SeenInv' /\ ReachedInv' /\ CollectedInv'
    BY <1>2, <2>1 DEF IntakeInv, SeenInv, ReachedInv, CollectedInv, Confirming, Known, Look,
         Sighted
  <2>5. \A m : Witness(m)' = Witness(m)
    BY <2>1 DEF Witness, IsPlanned, Current, Known, Look, IsOpen, Now, Here
  <2>6. WitnessInv'
    BY <1>2, <2>1, <2>5 DEF IntakeInv, WitnessInv, Confirming
  <2> QED
    BY <2>2, <2>3, <2>4, <2>6 DEF IntakeInv
<1> QED
  BY <1>3, <1>4, <1>5, <1>6, <1>7, <1>8, <1>9 DEF Next

\* While an intake runs, every document that it has read was there; and once the
\* second walk has collected the tree (collect_entries), that moment accounts for
\* what it hashes and for every document that is still what was planned.
THEOREM IntakeIsTracked == Spec => []IntakeInvariant
BY InitIntake, NextIntake, PTL DEF Spec

\* What prepare_managed_intake_v1 and commit_managed_intake_v1 accept existed:
\* the tree and the documents of the plan at one instant after the confirmation, but
\* for documents that the editor has replaced since by a file with an older time
\* (StableTextFile compares times); those, and a configuration that declares what
\* was planned, at some instant.
THEOREM CommittedWasThere == Spec => []CommittedIntakeExisted
<1>1. IntakeInvariant => CommittedIntakeExisted
  <2> SUFFICES ASSUME IntakeInv, outcome = "accepted"
               PROVE  WasThere /\ plan.input.toolchain = Managed
    BY DEF IntakeInvariant, CommittedIntakeExisted, WasThere
  <2>1. line > 64 /\ line > 32
    BY DEF IntakeInv, EditorInv
  <2> QED
    BY <2>1 DEF IntakeInv, PlanInv, ConfirmedInv
<1> QED
  BY <1>1, IntakeIsTracked, PTL

-----------------------------------------------------------------------------
(* What is accepted has an identity.                                       *)

\* A package of a document without duplicates.
LEMMA EntryIs ==
    ASSUME NEW packages, NEW n \in NamesOf(packages)
    PROVE  \E i \in DOMAIN packages : Entry(packages, n) = packages[i] /\ packages[i].name = n
BY DEF NamesOf, Entry

\* A manifest names git packages with revisions and path packages.
LEMMA PackageIs ==
    ASSUME NEW manifest, ManifestIsValid(manifest), NEW i \in DOMAIN manifest.packages
    PROVE  \/ manifest.packages[i].type = "path"
           \/ manifest.packages[i].type = "git" /\ manifest.packages[i].rev \in Revisions
<1>1. PICK p : p = manifest.packages[i]
  OBVIOUS
<1>2. GitSourceIsValid(p) \/ PathSourceIsValid(p)
  BY <1>1 DEF ManifestIsValid
<1>3. CASE GitSourceIsValid(p)
  <2>1. Field(p, "type") = "git" /\ Field(p, "rev") \in Revisions
    BY <1>3 DEF GitSourceIsValid, IsGit
  <2>2. p.type = "git" /\ p.rev \in Revisions
    BY <2>1, NothingIsNoValue DEF Field
  <2> QED
    BY <1>1, <2>2
<1>4. CASE PathSourceIsValid(p)
  <2>1. Field(p, "type") = "path"
    BY <1>4 DEF PathSourceIsValid
  <2>2. p.type = "path"
    BY <2>1, NothingIsNoValue DEF Field
  <2> QED
    BY <1>1, <2>2
<1> QED
  BY <1>2, <1>3, <1>4

\* Path packages lead to directories.
LEMMA PathIs ==
    ASSUME NEW manifest, NEW dirs, PathPackages(manifest, dirs) # Nothing,
           NEW n \in NamesOf(manifest.packages), Entry(manifest.packages, n).type = "path"
    PROVE  /\ n \in DOMAIN PathPackages(manifest, dirs)
           /\ PathPackages(manifest, dirs)[n] # Nothing
<1>1. PICK p : p = manifest.packages
  OBVIOUS
<1>2. PICK i \in DOMAIN p : Entry(p, n) = p[i] /\ p[i].name = n
  BY <1>1, EntryIs
<1>3. PICK paths : paths = {j \in DOMAIN p : p[j].type = "path"}
  OBVIOUS
<1>4. \A j \in paths : IsContained(dirs[p[j].dir])
  BY <1>1, <1>3 DEF PathPackages
<1>5. PathPackages(manifest, dirs) = [x \in {p[j].name : j \in paths} |-> dirs[Entry(p, x).dir]]
  BY <1>1, <1>3, <1>4 DEF PathPackages
<1>6. i \in paths
  BY <1>1, <1>2, <1>3
<1>7. n \in {p[j].name : j \in paths}
  BY <1>2, <1>6
<1>8. dirs[Entry(p, n).dir] # Nothing
  BY <1>2, <1>4, <1>6 DEF IsContained
<1> QED
  BY <1>5, <1>7, <1>8

\* The provider's packages lead to directories at its revisions.
LEMMA ProvidedIs ==
    ASSUME NEW registry, NEW override, NEW dirs, NEW n \in NamesOf(registry.packages),
           ProviderPackages(registry, override, dirs) # Nothing
    PROVE  LET packages == ProviderPackages(registry, override, dirs)
           IN  /\ n \in DOMAIN packages
               /\ packages[n].revision = Entry(registry.packages, n).rev
               /\ packages[n].directory # Nothing
<1>1. /\ NamesOf(registry.packages) = NamesOf(override.packages)
      /\ \A i \in DOMAIN override.packages : IsContained(dirs[override.packages[i].dir.at])
      /\ ProviderPackages(registry, override, dirs) =
            [x \in NamesOf(registry.packages) |->
                [revision |-> Entry(registry.packages, x).rev,
                 directory |-> dirs[Entry(override.packages, x).dir.at]]]
  BY DEF ProviderPackages
<1>2. PICK i \in DOMAIN override.packages : Entry(override.packages, n) = override.packages[i]
  BY <1>1, EntryIs
<1>3. dirs[Entry(override.packages, n).dir.at] # Nothing
  BY <1>1, <1>2 DEF IsContained
<1> QED
  BY <1>1, <1>3

\* A manifest that agrees with the registry has the registry's git packages only.
LEMMA AgreesIs ==
    ASSUME NEW manifest, NEW registry, Mismatches(manifest, registry) = {},
           NEW n \in NamesOf(manifest.packages)
    PROVE  /\ n \in NamesOf(registry.packages)
           /\ Entry(manifest.packages, n).type # "path"
           /\ Entry(manifest.packages, n).type = "git" =>
                 Entry(manifest.packages, n).rev = Entry(registry.packages, n).rev
<1>1. PICK ours, theirs, both :
         ours = NamesOf(manifest.packages) /\ theirs = NamesOf(registry.packages)
         /\ both = ours \cap theirs
  OBVIOUS
<1>2. PICK a, b, c :
         /\ a = {<<x, "package">> : x \in (ours \cup theirs) \ both}
         /\ b = {<<x, "type">> : x \in {x \in both : Entry(manifest.packages, x).type = "path"}}
         /\ c = {<<x, "rev">> : x \in {x \in both :
                    /\ Entry(manifest.packages, x).type = "git"
                    /\ Entry(manifest.packages, x).rev # Entry(registry.packages, x).rev}}
  OBVIOUS
<1>3. a = {} /\ b = {} /\ c = {}
  BY <1>1, <1>2 DEF Mismatches
<1>4. n \in both
  <2>1. n \notin (ours \cup theirs) \ both
    BY <1>2, <1>3
  <2> QED
    BY <1>1, <2>1
<1>5. Entry(manifest.packages, n).type # "path"
  BY <1>2, <1>3, <1>4
<1>6. Entry(manifest.packages, n).type = "git" =>
         Entry(manifest.packages, n).rev = Entry(registry.packages, n).rev
  BY <1>2, <1>3, <1>4
<1> QED
  BY <1>1, <1>4, <1>5, <1>6

\* An input that was decoded and classified has an identity.
LEMMA ClassifiedHasIdentity ==
    ASSUME NEW input, NEW links, NEW provider, NEW pair, NEW dirs,
           ManifestIsValid(input.manifest),
           input.paths = PathPackages(input.manifest, links), input.paths # Nothing,
           input.state = Classify(input.manifest, input.override, provider),
           input.state # Nothing,
           provider = <<>> \/ provider = <<pair>>,
           provider = <<pair>> =>
               /\ pair.registry # Nothing /\ pair.override # Nothing
               /\ pair.packages = ProviderPackages(pair.registry, pair.override, dirs)
               /\ pair.packages # Nothing
    PROVE  HasIdentity(input, IF input.state = "ProviderBound" THEN provider ELSE <<>>)
<1>1. PICK given : given = IF input.state = "ProviderBound" THEN provider ELSE <<>>
  OBVIOUS
<1>2. PICK names, p : names = NamesOf(input.manifest.packages) /\ p = [n \in names |-> Entry(input.manifest.packages, n)]
  OBVIOUS
<1>3. ASSUME NEW n \in names
      PROVE  /\ p[n].name = n
             /\ p[n].type = "path" \/ (p[n].type = "git" /\ p[n].rev # Nothing)
             /\ p[n].type = "path" => n \in DOMAIN input.paths /\ input.paths[n] # Nothing
  <2>1. PICK i \in DOMAIN input.manifest.packages :
           p[n] = input.manifest.packages[i] /\ input.manifest.packages[i].name = n
    BY <1>2, EntryIs
  <2>2. p[n].type = "path" \/ (p[n].type = "git" /\ p[n].rev \in Revisions)
    BY <2>1, PackageIs
  <2>3. p[n].type = "path" => n \in DOMAIN input.paths /\ input.paths[n] # Nothing
    BY <1>2, PathIs
  <2> QED
    BY <2>1, <2>2, <2>3, NothingIsNoValue
<1>4. PICK m : m = Material(input, given)
  OBVIOUS
<1>5. PICK owned : owned = [n \in names |-> IdentityPackage(input, given, p[n])]
  OBVIOUS
<1>6. /\ m.state = input.state /\ m.override = input.override /\ m.packages = owned
      /\ m.registry = IF m.state = "ProviderBound" THEN given[1].registry ELSE Nothing
      /\ m.providerOverride = IF m.state = "ProviderBound" THEN given[1].override ELSE Nothing
  <2>1. owned = [n \in NamesOf(input.manifest.packages) |->
                   IdentityPackage(input, given, Entry(input.manifest.packages, n))]
    BY <1>2, <1>5
  <2> QED
    BY <1>4, <2>1 DEF Material
<1>7. CASE input.state = "DependencyFree" /\ given = <<>>
  <2>1. input.manifest.packages = <<>> /\ input.override = Nothing
    BY <1>7 DEF Classify
  <2>2. names = {}
    BY <1>2, <2>1 DEF NamesOf
  <2>3. {owned[n] : n \in DOMAIN owned} = {}
    BY <1>5, <2>2
  <2>4. MaterialIsValid(m)
    BY <1>6, <1>7, <2>1, <2>3 DEF MaterialIsValid
  <2> QED
    BY <1>1, <1>2, <1>4, <1>7, <2>2, <2>4 DEF HasIdentity
<1>8. CASE input.state = "Standalone" /\ given = <<>>
  <2>1. ASSUME NEW n \in names
        PROVE  /\ PackageIsBound(input, given, p[n])
               /\ owned[n].kind \in {"git", "path"}
               /\ owned[n].kind = "git" => owned[n].revision # Nothing /\ owned[n].path = Nothing
               /\ owned[n].kind = "path" => owned[n].revision = Nothing /\ owned[n].path # Nothing
    BY <1>3, <1>5, <1>8 DEF PackageIsBound, IdentityPackage
  <2>2. MaterialIsValid(m)
    BY <1>5, <1>6, <1>8, <2>1 DEF MaterialIsValid
  <2> QED
    BY <1>1, <1>2, <1>4, <1>8, <2>1, <2>2 DEF HasIdentity
<1>9. CASE input.state = "ProviderBound" /\ given = provider
  <2>1. /\ given = <<pair>> /\ Mismatches(input.manifest, pair.registry) = {}
        /\ input.override = pair.override
    BY <1>9 DEF Classify
  <2>2. given # <<>> /\ given[1] = pair
    BY <2>1
  <2>3. ASSUME NEW n \in names
        PROVE  /\ PackageIsBound(input, given, p[n])
               /\ owned[n].kind = "git" /\ owned[n].revision # Nothing /\ owned[n].path # Nothing
    <3>1. /\ n \in NamesOf(pair.registry.packages) /\ p[n].type # "path"
          /\ p[n].type = "git" => p[n].rev = Entry(pair.registry.packages, n).rev
      BY <1>2, <2>1, AgreesIs
    <3>2. /\ n \in DOMAIN pair.packages /\ pair.packages[n].directory # Nothing
          /\ pair.packages[n].revision = Entry(pair.registry.packages, n).rev
      BY <1>9, <2>1, <3>1, ProvidedIs
    <3> QED
      BY <1>3, <1>5, <2>2, <3>1, <3>2 DEF PackageIsBound, IdentityPackage
  <2>4. pair.registry # Nothing /\ pair.override # Nothing
    BY <1>9, <2>1
  <2>5. MaterialIsValid(m)
    BY <1>5, <1>6, <1>9, <2>1, <2>2, <2>3, <2>4 DEF MaterialIsValid
  <2> QED
    BY <1>1, <1>2, <1>4, <1>9, <2>2, <2>3, <2>5 DEF HasIdentity
<1>10. input.state \in {"DependencyFree", "Standalone", "ProviderBound"}
  BY DEF Classify
<1> QED
  BY <1>1, <1>7, <1>8, <1>9, <1>10

-----------------------------------------------------------------------------
(* The other programs, step by step.                                       *)

\* A dry run is one snapshot, whose declaration is not looked at.
LEMMA DryRunSteps ==
    /\ DryRun \in Seq(StepType) /\ Len(DryRun) = 31
    /\ \A i \in 1..9 : DryRun[i] = HashTree("before")[i]
    /\ \A i \in 10..19 : DryRun[i] = ReadProjectInput[i - 9]
    /\ DryRun[20] = Decision("toolchain")
    /\ DryRun[21] = ReadStable("config", "first")
    /\ \A i \in 22..30 : DryRun[i] = HashTree("after")[i - 21]
    /\ DryRun[31] = Decision("snapshot")
<1>1. PICK p1, p2, p3, p4, p5 :
         /\ p1 = HashTree("before")
         /\ p2 = ReadProjectInput
         /\ p3 = <<Decision("toolchain"), ReadStable("config", "first")>>
         /\ p4 = HashTree("after")
         /\ p5 = <<Decision("snapshot")>>
  OBVIOUS
<1>2. PICK r2, r3, r4, r5 :
         /\ r2 = p1 \o p2
         /\ r3 = r2 \o p3
         /\ r4 = r3 \o p4
         /\ r5 = r4 \o p5
  OBVIOUS
<1>3. DryRun = r5
  BY <1>1, <1>2 DEF DryRun
<1> HIDE DEF StepType
<1>4. /\ p1 \in Seq(StepType) /\ Len(p1) = 9
      /\ p2 \in Seq(StepType) /\ Len(p2) = 10
      /\ p3 \in Seq(StepType) /\ Len(p3) = 2
      /\ p4 \in Seq(StepType) /\ Len(p4) = 9
      /\ p5 \in Seq(StepType) /\ Len(p5) = 1
  BY <1>1, HashTreeSteps, InputSteps, SingleSteps, DecisionSteps
<1>5. /\ r2 \in Seq(StepType) /\ Len(r2) = 19
      /\ \A i \in 1..9 : r2[i] = p1[i]
      /\ \A i \in 10..19 : r2[i] = p2[i - 9]
  <2>1. p1 \in Seq(StepType) /\ p2 \in Seq(StepType) /\ r2 = p1 \o p2
    BY <1>2, <1>4
  <2>2. /\ r2 \in Seq(StepType) /\ Len(r2) = Len(p1) + Len(p2)
        /\ \A i \in 1..Len(p1) : r2[i] = p1[i]
        /\ \A i \in Len(p1) + 1..Len(p1) + Len(p2) : r2[i] = p2[i - Len(p1)]
    BY <2>1, Joined
  <2>3. Len(p1) = 9 /\ Len(p2) = 10
    BY <1>2, <1>4
  <2> QED
    BY <2>2, <2>3
<1>6. /\ \A i \in 1..9 : r2[i] = p1[i]
      /\ \A i \in 10..19 : r2[i] = p2[i - 9]
  BY <1>5
<1>7. /\ r3 \in Seq(StepType) /\ Len(r3) = 21
      /\ \A i \in 1..19 : r3[i] = r2[i]
      /\ \A i \in 20..21 : r3[i] = p3[i - 19]
  <2>1. r2 \in Seq(StepType) /\ p3 \in Seq(StepType) /\ r3 = r2 \o p3
    BY <1>2, <1>4, <1>5
  <2>2. /\ r3 \in Seq(StepType) /\ Len(r3) = Len(r2) + Len(p3)
        /\ \A i \in 1..Len(r2) : r3[i] = r2[i]
        /\ \A i \in Len(r2) + 1..Len(r2) + Len(p3) : r3[i] = p3[i - Len(r2)]
    BY <2>1, Joined
  <2>3. Len(r2) = 19 /\ Len(p3) = 2
    BY <1>2, <1>4, <1>5
  <2> QED
    BY <2>2, <2>3
<1>8. /\ \A i \in 1..9 : r3[i] = p1[i]
      /\ \A i \in 10..19 : r3[i] = p2[i - 9]
      /\ \A i \in 20..21 : r3[i] = p3[i - 19]
  <2>1. \A i \in 1..19 : r3[i] = r2[i]
    BY <1>7
  <2>2. \A i \in 20..21 : r3[i] = p3[i - 19]
    BY <1>7
  <2> QED
    BY <1>6, <2>1, <2>2
<1>9. /\ r4 \in Seq(StepType) /\ Len(r4) = 30
      /\ \A i \in 1..21 : r4[i] = r3[i]
      /\ \A i \in 22..30 : r4[i] = p4[i - 21]
  <2>1. r3 \in Seq(StepType) /\ p4 \in Seq(StepType) /\ r4 = r3 \o p4
    BY <1>2, <1>4, <1>7
  <2>2. /\ r4 \in Seq(StepType) /\ Len(r4) = Len(r3) + Len(p4)
        /\ \A i \in 1..Len(r3) : r4[i] = r3[i]
        /\ \A i \in Len(r3) + 1..Len(r3) + Len(p4) : r4[i] = p4[i - Len(r3)]
    BY <2>1, Joined
  <2>3. Len(r3) = 21 /\ Len(p4) = 9
    BY <1>2, <1>4, <1>7
  <2> QED
    BY <2>2, <2>3
<1>10. /\ \A i \in 1..9 : r4[i] = p1[i]
       /\ \A i \in 10..19 : r4[i] = p2[i - 9]
       /\ \A i \in 20..21 : r4[i] = p3[i - 19]
       /\ \A i \in 22..30 : r4[i] = p4[i - 21]
  <2>1. \A i \in 1..21 : r4[i] = r3[i]
    BY <1>9
  <2>2. \A i \in 22..30 : r4[i] = p4[i - 21]
    BY <1>9
  <2> QED
    BY <1>8, <2>1, <2>2
<1>11. /\ r5 \in Seq(StepType) /\ Len(r5) = 31
       /\ \A i \in 1..30 : r5[i] = r4[i]
       /\ \A i \in 31..31 : r5[i] = p5[i - 30]
  <2>1. r4 \in Seq(StepType) /\ p5 \in Seq(StepType) /\ r5 = r4 \o p5
    BY <1>2, <1>4, <1>9
  <2>2. /\ r5 \in Seq(StepType) /\ Len(r5) = Len(r4) + Len(p5)
        /\ \A i \in 1..Len(r4) : r5[i] = r4[i]
        /\ \A i \in Len(r4) + 1..Len(r4) + Len(p5) : r5[i] = p5[i - Len(r4)]
    BY <2>1, Joined
  <2>3. Len(r4) = 30 /\ Len(p5) = 1
    BY <1>2, <1>4, <1>9
  <2> QED
    BY <2>2, <2>3
<1>12. /\ \A i \in 1..9 : r5[i] = p1[i]
       /\ \A i \in 10..19 : r5[i] = p2[i - 9]
       /\ \A i \in 20..21 : r5[i] = p3[i - 19]
       /\ \A i \in 22..30 : r5[i] = p4[i - 21]
       /\ r5[31] = p5[1]
  <2>1. \A i \in 1..30 : r5[i] = r4[i]
    BY <1>11
  <2>2. r5[31] = p5[1]
    BY <1>11
  <2> QED
    BY <1>10, <2>1, <2>2
<1>13. /\ p5[1] = Decision("snapshot")
       /\ p3[1] = Decision("toolchain") /\ p3[2] = ReadStable("config", "first")
  BY <1>1
<1> QED
  BY <1>1, <1>3, <1>11, <1>12, <1>13

\* A pair and an input.
LEMMA BoundSteps ==
    /\ BoundRead \in Seq(StepType) /\ Len(BoundRead) = 17
    /\ \A i \in 1..7 : BoundRead[i] = ReadProviderPair[i]
    /\ \A i \in 8..17 : BoundRead[i] = ReadProjectInput[i - 7]
<1>1. PICK p1, p2 :
         /\ p1 = ReadProviderPair
         /\ p2 = ReadProjectInput
  OBVIOUS
<1>2. PICK r2 :
         /\ r2 = p1 \o p2
  OBVIOUS
<1>3. BoundRead = r2
  BY <1>1, <1>2 DEF BoundRead
<1> HIDE DEF StepType
<1>4. /\ p1 \in Seq(StepType) /\ Len(p1) = 7
      /\ p2 \in Seq(StepType) /\ Len(p2) = 10
  BY <1>1, InputSteps, SingleSteps
<1>5. /\ r2 \in Seq(StepType) /\ Len(r2) = 17
      /\ \A i \in 1..7 : r2[i] = p1[i]
      /\ \A i \in 8..17 : r2[i] = p2[i - 7]
  <2>1. p1 \in Seq(StepType) /\ p2 \in Seq(StepType) /\ r2 = p1 \o p2
    BY <1>2, <1>4
  <2>2. /\ r2 \in Seq(StepType) /\ Len(r2) = Len(p1) + Len(p2)
        /\ \A i \in 1..Len(p1) : r2[i] = p1[i]
        /\ \A i \in Len(p1) + 1..Len(p1) + Len(p2) : r2[i] = p2[i - Len(p1)]
    BY <2>1, Joined
  <2>3. Len(p1) = 7 /\ Len(p2) = 10
    BY <1>2, <1>4
  <2> QED
    BY <2>2, <2>3
<1>6. /\ \A i \in 1..7 : r2[i] = p1[i]
      /\ \A i \in 8..17 : r2[i] = p2[i - 7]
  BY <1>5
<1> QED
  BY <1>1, <1>3, <1>5, <1>6

\* A pair and the manifest.
LEMMA ClosureSteps ==
    /\ RegisteredClosure \in Seq(StepType) /\ Len(RegisteredClosure) = 9
    /\ \A i \in 1..7 : RegisteredClosure[i] = ReadProviderPair[i]
    /\ RegisteredClosure[8] = Do("readPlain", "manifest", "first")
    /\ RegisteredClosure[9] = Decision("register")
<1>1. PICK p1, p2 :
         /\ p1 = ReadProviderPair
         /\ p2 = <<Do("readPlain", "manifest", "first"), Decision("register")>>
  OBVIOUS
<1>2. PICK r2 :
         /\ r2 = p1 \o p2
  OBVIOUS
<1>3. RegisteredClosure = r2
  BY <1>1, <1>2 DEF RegisteredClosure
<1> HIDE DEF StepType
<1>4. /\ p1 \in Seq(StepType) /\ Len(p1) = 7
      /\ p2 \in Seq(StepType) /\ Len(p2) = 2
  BY <1>1, SingleSteps
<1>5. /\ r2 \in Seq(StepType) /\ Len(r2) = 9
      /\ \A i \in 1..7 : r2[i] = p1[i]
      /\ \A i \in 8..9 : r2[i] = p2[i - 7]
  <2>1. p1 \in Seq(StepType) /\ p2 \in Seq(StepType) /\ r2 = p1 \o p2
    BY <1>2, <1>4
  <2>2. /\ r2 \in Seq(StepType) /\ Len(r2) = Len(p1) + Len(p2)
        /\ \A i \in 1..Len(p1) : r2[i] = p1[i]
        /\ \A i \in Len(p1) + 1..Len(p1) + Len(p2) : r2[i] = p2[i - Len(p1)]
    BY <2>1, Joined
  <2>3. Len(p1) = 7 /\ Len(p2) = 2
    BY <1>2, <1>4
  <2> QED
    BY <2>2, <2>3
<1>6. /\ \A i \in 1..7 : r2[i] = p1[i]
      /\ \A i \in 8..9 : r2[i] = p2[i - 7]
  BY <1>5
<1>7. /\ p2[1] = Do("readPlain", "manifest", "first") /\ p2[2] = Decision("register")
  BY <1>1
<1> QED
  BY <1>1, <1>3, <1>5, <1>6, <1>7

\* The steps of a provider pair.
LEMMA PairExact ==
    /\ ReadProviderPair[1] = Do("read", "registry", "first")
    /\ ReadProviderPair[2] = Do("read", "providerOverride", "first")
    /\ ReadProviderPair[3] = Do("resolve", "links", "pair")
    /\ ReadProviderPair[4] = Do("match", "", "")
    /\ ReadProviderPair[5] = Do("read", "registry", "again")
    /\ ReadProviderPair[6] = Do("read", "providerOverride", "again")
    /\ ReadProviderPair[7] = Do("comparePair", "", "")
BY DEF ReadProviderPair, ReadStable, Decision

\* The steps of an input.
LEMMA InputExact ==
    /\ ReadProjectInput[1] = Do("read", "toolchain", "first")
    /\ ReadProjectInput[2] = Do("read", "manifest", "first")
    /\ ReadProjectInput[3] = Do("read", "override", "first")
    /\ ReadProjectInput[4] = Do("resolve", "links", "first")
    /\ ReadProjectInput[5] = Do("classify", "", "")
    /\ ReadProjectInput[6] = Do("read", "toolchain", "again")
    /\ ReadProjectInput[7] = Do("read", "manifest", "again")
    /\ ReadProjectInput[8] = Do("read", "override", "again")
    /\ ReadProjectInput[9] = Do("resolve", "links", "again")
    /\ ReadProjectInput[10] = Do("compare", "", "")
<1>1. /\ ReadProjectInput[5] = Decision("classify") /\ ReadProjectInput[10] = Decision("compare")
      /\ \A i \in 1..4 : ReadProjectInput[i] = ReadAll("first")[i]
      /\ \A i \in 6..9 : ReadProjectInput[i] = ReadAll("again")[i - 5]
  BY InputSteps
<1>2. \A slot \in {"first", "again"} :
         /\ ReadAll(slot)[1] = Do("read", "toolchain", slot)
         /\ ReadAll(slot)[2] = Do("read", "manifest", slot)
         /\ ReadAll(slot)[3] = Do("read", "override", slot)
         /\ ReadAll(slot)[4] = Do("resolve", "links", slot)
  BY ReadAllSteps DEF ReadStable
<1>3. PICK a, b : a = ReadAll("first") /\ b = ReadAll("again")
  OBVIOUS
<1>4. \A i \in 1..4 : ReadProjectInput[i] = a[i]
  BY <1>1, <1>3
<1>5. \A i \in 6..9 : ReadProjectInput[i] = b[i - 5]
  BY <1>1, <1>3
<1>6. /\ ReadProjectInput[6] = b[1] /\ ReadProjectInput[7] = b[2]
      /\ ReadProjectInput[8] = b[3] /\ ReadProjectInput[9] = b[4]
  BY <1>5
<1>7. ReadProjectInput[5] = Do("classify", "", "") /\ ReadProjectInput[10] = Do("compare", "", "")
  BY <1>1 DEF Decision
<1>8. /\ a[1] = Do("read", "toolchain", "first") /\ a[2] = Do("read", "manifest", "first")
      /\ a[3] = Do("read", "override", "first") /\ a[4] = Do("resolve", "links", "first")
  BY <1>2, <1>3
<1>9. /\ b[1] = Do("read", "toolchain", "again") /\ b[2] = Do("read", "manifest", "again")
      /\ b[3] = Do("read", "override", "again") /\ b[4] = Do("resolve", "links", "again")
  BY <1>2, <1>3
<1>10. /\ ReadProjectInput[1] = a[1] /\ ReadProjectInput[2] = a[2]
       /\ ReadProjectInput[3] = a[3] /\ ReadProjectInput[4] = a[4]
  BY <1>4
<1> QED
  BY <1>6, <1>7, <1>8, <1>9, <1>10

-----------------------------------------------------------------------------
(* Where the other programs read what.                                     *)

\* Files are read, links are resolved.
IsLook(x) == x.do = IF x.doc = "links" THEN "resolve" ELSE "read"

\* The document is read there into the slot, and nowhere else.
Reads(slot, d, n) ==
    /\ n \in 1..Len(Program[mode])
    /\ IsLook(Program[mode][n])
    /\ \A i \in 1..Len(Program[mode]) : Program[mode][i].do \in Reading =>
          (Program[mode][i].slot = slot /\ Program[mode][i].doc = d <=> i = n)

\* Where an input is read.
Base == IF mode = "bound" THEN 7 ELSE 9

\* What a step is made of.
LEMMA StepIs ==
    ASSUME NEW action, NEW d, NEW slot, NEW x, x = Do(action, d, slot)
    PROVE  x.do = action /\ x.doc = d /\ x.slot = slot
BY DEF Do

\* The steps of an input, taken apart.
LEMMA InputApart ==
    ASSUME NEW i \in 1..10, NEW x, x = ReadProjectInput[i]
    PROVE  /\ x.do \in Reading <=> i \notin {5, 10}
           /\ x.do \notin {"plan", "collect", "verify", "hash", "readPlain"}
           /\ IsLook(x) \/ i \in {5, 10}
           /\ i = 5 => x.do = "classify"
           /\ i = 10 => x.do = "compare"
           /\ x.do \in Reading =>
                 /\ x.doc \notin {"registry", "providerOverride"} /\ x.slot # "pair"
                 /\ x.slot = "first" /\ x.doc = "toolchain" <=> i = 1
                 /\ x.slot = "first" /\ x.doc = "manifest" <=> i = 2
                 /\ x.slot = "first" /\ x.doc = "override" <=> i = 3
                 /\ x.slot = "first" /\ x.doc = "links" <=> i = 4
                 /\ x.slot = "again" /\ x.doc = "toolchain" <=> i = 6
                 /\ x.slot = "again" /\ x.doc = "manifest" <=> i = 7
                 /\ x.slot = "again" /\ x.doc = "override" <=> i = 8
                 /\ x.slot = "again" /\ x.doc = "links" <=> i = 9
<1>1. CASE i = 1
  <2>1. x = Do("read", "toolchain", "first")
    BY <1>1, InputExact
  <2>2. x.do = "read" /\ x.doc = "toolchain" /\ x.slot = "first"
    BY <2>1, StepIs
  <2> QED
    BY <1>1, <2>2 DEF Reading, IsLook
<1>2. CASE i = 2
  <2>1. x = Do("read", "manifest", "first")
    BY <1>2, InputExact
  <2>2. x.do = "read" /\ x.doc = "manifest" /\ x.slot = "first"
    BY <2>1, StepIs
  <2> QED
    BY <1>2, <2>2 DEF Reading, IsLook
<1>3. CASE i = 3
  <2>1. x = Do("read", "override", "first")
    BY <1>3, InputExact
  <2>2. x.do = "read" /\ x.doc = "override" /\ x.slot = "first"
    BY <2>1, StepIs
  <2> QED
    BY <1>3, <2>2 DEF Reading, IsLook
<1>4. CASE i = 4
  <2>1. x = Do("resolve", "links", "first")
    BY <1>4, InputExact
  <2>2. x.do = "resolve" /\ x.doc = "links" /\ x.slot = "first"
    BY <2>1, StepIs
  <2> QED
    BY <1>4, <2>2 DEF Reading, IsLook
<1>5. CASE i = 5
  <2>1. x = Decision("classify")
    BY <1>5, InputExact DEF Decision
  <2>2. x.do = "classify"
    BY <2>1, DecisionIs
  <2> QED
    BY <1>5, <2>2 DEF Reading, IsLook
<1>6. CASE i = 6
  <2>1. x = Do("read", "toolchain", "again")
    BY <1>6, InputExact
  <2>2. x.do = "read" /\ x.doc = "toolchain" /\ x.slot = "again"
    BY <2>1, StepIs
  <2> QED
    BY <1>6, <2>2 DEF Reading, IsLook
<1>7. CASE i = 7
  <2>1. x = Do("read", "manifest", "again")
    BY <1>7, InputExact
  <2>2. x.do = "read" /\ x.doc = "manifest" /\ x.slot = "again"
    BY <2>1, StepIs
  <2> QED
    BY <1>7, <2>2 DEF Reading, IsLook
<1>8. CASE i = 8
  <2>1. x = Do("read", "override", "again")
    BY <1>8, InputExact
  <2>2. x.do = "read" /\ x.doc = "override" /\ x.slot = "again"
    BY <2>1, StepIs
  <2> QED
    BY <1>8, <2>2 DEF Reading, IsLook
<1>9. CASE i = 9
  <2>1. x = Do("resolve", "links", "again")
    BY <1>9, InputExact
  <2>2. x.do = "resolve" /\ x.doc = "links" /\ x.slot = "again"
    BY <2>1, StepIs
  <2> QED
    BY <1>9, <2>2 DEF Reading, IsLook
<1>10. CASE i = 10
  <2>1. x = Decision("compare")
    BY <1>10, InputExact DEF Decision
  <2>2. x.do = "compare"
    BY <2>1, DecisionIs
  <2> QED
    BY <1>10, <2>2 DEF Reading, IsLook
<1> QED
  BY <1>1, <1>2, <1>3, <1>4, <1>5, <1>6, <1>7, <1>8, <1>9, <1>10

\* The steps of a provider pair, taken apart.
LEMMA PairApart ==
    ASSUME NEW i \in 1..7, NEW x, x = ReadProviderPair[i]
    PROVE  /\ x.do \in Reading <=> i \notin {4, 7}
           /\ x.do \notin {"plan", "collect", "verify", "hash", "readPlain"}
           /\ IsLook(x) \/ i \in {4, 7}
           /\ i = 4 => x.do = "match"
           /\ i = 7 => x.do = "comparePair"
           /\ x.do \in Reading =>
                 /\ x.doc \notin {"toolchain", "manifest", "override"}
                 /\ x.doc = "links" => x.slot = "pair"
                 /\ x.slot = "first" /\ x.doc = "registry" <=> i = 1
                 /\ x.slot = "first" /\ x.doc = "providerOverride" <=> i = 2
                 /\ x.slot = "pair" /\ x.doc = "links" <=> i = 3
                 /\ x.slot = "again" /\ x.doc = "registry" <=> i = 5
                 /\ x.slot = "again" /\ x.doc = "providerOverride" <=> i = 6
<1>1. CASE i = 1
  <2>1. x = Do("read", "registry", "first")
    BY <1>1, PairExact
  <2>2. x.do = "read" /\ x.doc = "registry" /\ x.slot = "first"
    BY <2>1, StepIs
  <2> QED
    BY <1>1, <2>2 DEF Reading, IsLook
<1>2. CASE i = 2
  <2>1. x = Do("read", "providerOverride", "first")
    BY <1>2, PairExact
  <2>2. x.do = "read" /\ x.doc = "providerOverride" /\ x.slot = "first"
    BY <2>1, StepIs
  <2> QED
    BY <1>2, <2>2 DEF Reading, IsLook
<1>3. CASE i = 3
  <2>1. x = Do("resolve", "links", "pair")
    BY <1>3, PairExact
  <2>2. x.do = "resolve" /\ x.doc = "links" /\ x.slot = "pair"
    BY <2>1, StepIs
  <2> QED
    BY <1>3, <2>2 DEF Reading, IsLook
<1>4. CASE i = 4
  <2>1. x = Decision("match")
    BY <1>4, PairExact DEF Decision
  <2>2. x.do = "match"
    BY <2>1, DecisionIs
  <2> QED
    BY <1>4, <2>2 DEF Reading, IsLook
<1>5. CASE i = 5
  <2>1. x = Do("read", "registry", "again")
    BY <1>5, PairExact
  <2>2. x.do = "read" /\ x.doc = "registry" /\ x.slot = "again"
    BY <2>1, StepIs
  <2> QED
    BY <1>5, <2>2 DEF Reading, IsLook
<1>6. CASE i = 6
  <2>1. x = Do("read", "providerOverride", "again")
    BY <1>6, PairExact
  <2>2. x.do = "read" /\ x.doc = "providerOverride" /\ x.slot = "again"
    BY <2>1, StepIs
  <2> QED
    BY <1>6, <2>2 DEF Reading, IsLook
<1>7. CASE i = 7
  <2>1. x = Decision("comparePair")
    BY <1>7, PairExact DEF Decision
  <2>2. x.do = "comparePair"
    BY <2>1, DecisionIs
  <2> QED
    BY <1>7, <2>2 DEF Reading, IsLook
<1> QED
  BY <1>1, <1>2, <1>3, <1>4, <1>5, <1>6, <1>7

\* A bound read is a pair, then an input.
LEMMA BoundApart ==
    ASSUME NEW i \in 1..17, NEW x, x = BoundRead[i]
    PROVE  /\ i \in 1..7 => x = ReadProviderPair[i]
           /\ i \notin 1..7 => i - 7 \in 1..10 /\ x = ReadProjectInput[i - 7]
<1>1. CASE i \in 1..7
  BY <1>1, BoundSteps
<1>2. CASE i \in 8..17
  <2>1. \A j \in 8..17 : BoundRead[j] = ReadProjectInput[j - 7]
    BY BoundSteps
  <2> QED
    BY <1>2, <2>1
<1> QED
  BY <1>1, <1>2

\* After the pair a closure only reads the manifest.
LEMMA ClosureApart ==
    ASSUME NEW i \in 1..9, NEW x, x = RegisteredClosure[i]
    PROVE  /\ i \in 1..7 => x = ReadProviderPair[i]
           /\ i \notin 1..7 => /\ x.do \in {"readPlain", "register"}
                               /\ x.do \in Reading => x.doc = "manifest" /\ x.slot = "first"
<1>1. CASE i \in 1..7
  BY <1>1, ClosureSteps
<1>2. CASE i = 8
  <2>1. x = Do("readPlain", "manifest", "first")
    BY <1>2, ClosureSteps
  <2> QED
    BY <1>2, <2>1, StepIs
<1>3. CASE i = 9
  <2>1. x.do = "register"
    BY <1>3, ClosureSteps, DecisionIs
  <2> QED
    BY <1>3, <2>1 DEF Reading
<1> QED
  BY <1>1, <1>2, <1>3

\* A dry run reads an input and walks the tree.
LEMMA DryRunApart ==
    ASSUME NEW i \in 1..31, NEW x, x = DryRun[i]
    PROVE  /\ i \in 10..19 => i - 9 \in 1..10 /\ x = ReadProjectInput[i - 9]
           /\ i \notin 10..19 =>
                 /\ x.do \notin {"plan", "readPlain", "resolve"}
                 /\ x.do \in Reading \cup {"collect", "verify"} => x.doc \in Documents
                 /\ x.do \in Reading => x.doc = "config" \/ x.slot \notin {"first", "again"}
<1>1. CASE i \in 10..19
  <2>1. \A j \in 10..19 : DryRun[j] = ReadProjectInput[j - 9]
    BY DryRunSteps
  <2> QED
    BY <1>1, <2>1
<1>2. CASE i \in 1..9
  <2>1. x = HashTree("before")[i]
    BY <1>2, DryRunSteps
  <2> QED
    BY <1>2, <2>1, TreePlaces
<1>3. CASE i \in 22..30
  <2>1. \A j \in 22..30 : DryRun[j] = HashTree("after")[j - 21]
    BY DryRunSteps
  <2>2. x = HashTree("after")[i - 21] /\ i - 21 \in 1..9
    BY <1>3, <2>1
  <2> QED
    BY <1>3, <2>2, TreePlaces
<1>4. CASE i = 21
  <2>1. x = Do("read", "config", "first")
    BY <1>4, DryRunSteps DEF ReadStable
  <2>2. x.do = "read" /\ x.doc = "config" /\ x.slot = "first"
    BY <2>1, StepIs
  <2> QED
    BY <1>4, <2>2 DEF Documents
<1>5. CASE i = 20 \/ i = 31
  <2>1. x = Decision("toolchain") \/ x = Decision("snapshot")
    BY <1>5, DryRunSteps
  <2>2. x.do \in {"toolchain", "snapshot"}
    BY <2>1, DecisionIs
  <2> QED
    BY <1>5, <2>2 DEF Reading
<1> QED
  BY <1>1, <1>2, <1>3, <1>4, <1>5

\* The length of the other programs, and what they do not do.
LEMMA OtherPrograms ==
    ASSUME mode \in {"bound", "closure", "dryRun"}
    PROVE  /\ Len(Program[mode]) = CASE mode = "bound" -> 17 [] mode = "closure" -> 9
                                        [] mode = "dryRun" -> 31
           /\ Len(Program[mode]) \in Nat
           /\ \A i \in 1..Len(Program[mode]) :
                 /\ Program[mode][i].do # "plan"
                 /\ Program[mode][i].do = "collect" => Program[mode][i].doc \in Documents
<1>1. CASE mode = "bound"
  <2>1. Program[mode] = BoundRead /\ Len(Program[mode]) = 17
    BY <1>1, BoundSteps DEF Program
  <2>2. ASSUME NEW i \in 1..17
        PROVE  BoundRead[i].do \notin {"plan", "collect"}
    BY BoundApart, PairApart, InputApart
  <2> QED
    BY <1>1, <2>1, <2>2
<1>2. CASE mode = "closure"
  <2>1. Program[mode] = RegisteredClosure /\ Len(Program[mode]) = 9
    BY <1>2, ClosureSteps DEF Program
  <2>2. ASSUME NEW i \in 1..9
        PROVE  RegisteredClosure[i].do \notin {"plan", "collect"}
    BY ClosureApart, PairApart
  <2> QED
    BY <1>2, <2>1, <2>2
<1>3. CASE mode = "dryRun"
  <2>1. Program[mode] = DryRun /\ Len(Program[mode]) = 31
    BY <1>3, DryRunSteps DEF Program
  <2>2. ASSUME NEW i \in 1..31
        PROVE  DryRun[i].do # "plan" /\ (DryRun[i].do = "collect" => DryRun[i].doc \in Documents)
    BY DryRunApart, InputApart
  <2> QED
    BY <1>3, <2>1, <2>2
<1> QED
  BY <1>1, <1>2, <1>3

\* Where the documents of a provider are read.
LEMMA PairReads ==
    ASSUME mode \in {"bound", "closure"}
    PROVE  /\ Reads("first", "registry", 1) /\ Reads("first", "providerOverride", 2)
           /\ Reads("pair", "links", 3)
           /\ Reads("again", "registry", 5) /\ Reads("again", "providerOverride", 6)
           /\ Program[mode][4].do = "match" /\ Program[mode][7].do = "comparePair"
<1>1. PICK p : p = Program[mode]
  OBVIOUS
<1>2. Len(p) \in Nat /\ Len(p) >= 9
  BY <1>1, OtherPrograms
<1>3. ASSUME NEW i \in 1..Len(p)
      PROVE  \/ i \in 1..7 /\ p[i] = ReadProviderPair[i]
             \/ /\ i \notin 1..7
                /\ p[i].do \in Reading =>
                     p[i].slot \in {"first", "again"} /\ p[i].doc \notin {"registry", "providerOverride"}
  <2>1. CASE mode = "bound"
    <3>1. p = BoundRead /\ Len(p) = 17
      BY <1>1, <2>1, BoundSteps DEF Program
    <3>2. CASE i \in 1..7
      BY <3>1, <3>2, BoundApart
    <3>3. CASE i \notin 1..7
      <4>1. i - 7 \in 1..10 /\ p[i] = ReadProjectInput[i - 7]
        BY <3>1, <3>3, BoundApart
      <4> QED
        BY <3>3, <4>1, InputApart, InputPlaces
    <3> QED
      BY <3>2, <3>3
  <2>2. CASE mode = "closure"
    <3>1. p = RegisteredClosure /\ Len(p) = 9
      BY <1>1, <2>2, ClosureSteps DEF Program
    <3> QED
      BY <3>1, ClosureApart
  <2> QED
    BY <2>1, <2>2
<1>4. ASSUME NEW i \in 1..Len(p)
      PROVE  /\ p[i].do \in Reading =>
                  /\ p[i].slot = "first" /\ p[i].doc = "registry" <=> i = 1
                  /\ p[i].slot = "first" /\ p[i].doc = "providerOverride" <=> i = 2
                  /\ p[i].slot = "pair" /\ p[i].doc = "links" <=> i = 3
                  /\ p[i].slot = "again" /\ p[i].doc = "registry" <=> i = 5
                  /\ p[i].slot = "again" /\ p[i].doc = "providerOverride" <=> i = 6
             /\ i \in {1, 2, 3, 5, 6} => IsLook(p[i])
             /\ i = 4 => p[i].do = "match"
             /\ i = 7 => p[i].do = "comparePair"
  <2>1. CASE i \in 1..7 /\ p[i] = ReadProviderPair[i]
    BY <2>1, PairApart
  <2>2. CASE i \notin 1..7
    BY <1>3, <2>2
  <2> QED
    BY <1>3, <2>1, <2>2
<1>5. {1, 2, 3, 4, 5, 6, 7} \subseteq 1..Len(p)
  BY <1>2
<1>6. \A n \in {1, 2, 3, 5, 6} : IsLook(p[n])
  BY <1>4, <1>5
<1>7. Reads("first", "registry", 1) /\ Reads("first", "providerOverride", 2)
  BY <1>1, <1>4, <1>5, <1>6 DEF Reads
<1>8. Reads("pair", "links", 3)
  BY <1>1, <1>4, <1>5, <1>6 DEF Reads
<1>9. Reads("again", "registry", 5) /\ Reads("again", "providerOverride", 6)
  BY <1>1, <1>4, <1>5, <1>6 DEF Reads
<1>10. p[4].do = "match" /\ p[7].do = "comparePair"
  BY <1>4, <1>5
<1> QED
  BY <1>1, <1>7, <1>8, <1>9, <1>10

\* Where the documents of an input are read.
LEMMA InputReads ==
    ASSUME mode \in {"bound", "dryRun"}
    PROVE  /\ Reads("first", "toolchain", Base + 1) /\ Reads("first", "manifest", Base + 2)
           /\ Reads("first", "override", Base + 3) /\ Reads("first", "links", Base + 4)
           /\ Reads("again", "toolchain", Base + 6) /\ Reads("again", "manifest", Base + 7)
           /\ Reads("again", "override", Base + 8) /\ Reads("again", "links", Base + 9)
           /\ Program[mode][Base + 5].do = "classify" /\ Program[mode][Base + 10].do = "compare"
           /\ Base \in {7, 9} /\ Base + 10 <= Len(Program[mode])
<1>1. PICK p, b : p = Program[mode] /\ b = Base
  OBVIOUS
<1>2. b \in {7, 9} /\ Len(p) \in Nat /\ b + 10 <= Len(p)
  BY <1>1, OtherPrograms DEF Base
<1>3. ASSUME NEW i \in 1..Len(p)
      PROVE  \/ i - b \in 1..10 /\ p[i] = ReadProjectInput[i - b]
             \/ /\ i - b \notin 1..10
                /\ p[i].do \in Reading =>
                     \/ p[i].slot \notin {"first", "again"}
                     \/ p[i].doc \notin {"toolchain", "manifest", "override", "links"}
  <2>1. CASE mode = "bound"
    <3>1. p = BoundRead /\ Len(p) = 17 /\ b = 7
      BY <1>1, <2>1, BoundSteps DEF Program, Base
    <3>2. CASE i \in 1..7
      <4>1. p[i] = ReadProviderPair[i]
        BY <3>1, <3>2, BoundApart
      <4> QED
        BY <3>1, <3>2, <4>1, PairApart
    <3>3. CASE i \notin 1..7
      BY <3>1, <3>3, BoundApart
    <3> QED
      BY <3>2, <3>3
  <2>2. CASE mode = "dryRun"
    <3>1. p = DryRun /\ Len(p) = 31 /\ b = 9
      BY <1>1, <2>2, DryRunSteps DEF Program, Base
    <3> QED
      BY <3>1, DryRunApart
  <2> QED
    BY <2>1, <2>2
<1>4. ASSUME NEW i \in 1..Len(p)
      PROVE  /\ p[i].do \in Reading =>
                  /\ p[i].slot = "first" /\ p[i].doc = "toolchain" <=> i = b + 1
                  /\ p[i].slot = "first" /\ p[i].doc = "manifest" <=> i = b + 2
                  /\ p[i].slot = "first" /\ p[i].doc = "override" <=> i = b + 3
                  /\ p[i].slot = "first" /\ p[i].doc = "links" <=> i = b + 4
                  /\ p[i].slot = "again" /\ p[i].doc = "toolchain" <=> i = b + 6
                  /\ p[i].slot = "again" /\ p[i].doc = "manifest" <=> i = b + 7
                  /\ p[i].slot = "again" /\ p[i].doc = "override" <=> i = b + 8
                  /\ p[i].slot = "again" /\ p[i].doc = "links" <=> i = b + 9
             /\ i - b \in (1..10) \ {5, 10} => IsLook(p[i])
             /\ i = b + 5 => p[i].do = "classify"
             /\ i = b + 10 => p[i].do = "compare"
  <2>1. CASE i - b \in 1..10 /\ p[i] = ReadProjectInput[i - b]
    <3>1. PICK j, x : j \in 1..10 /\ j = i - b /\ x = ReadProjectInput[j] /\ x = p[i] /\ i = b + j
      BY <1>2, <2>1
    <3>2. /\ x.do \in Reading =>
                  /\ x.slot = "first" /\ x.doc = "toolchain" <=> j = 1
                  /\ x.slot = "first" /\ x.doc = "manifest" <=> j = 2
                  /\ x.slot = "first" /\ x.doc = "override" <=> j = 3
                  /\ x.slot = "first" /\ x.doc = "links" <=> j = 4
                  /\ x.slot = "again" /\ x.doc = "toolchain" <=> j = 6
                  /\ x.slot = "again" /\ x.doc = "manifest" <=> j = 7
                  /\ x.slot = "again" /\ x.doc = "override" <=> j = 8
                  /\ x.slot = "again" /\ x.doc = "links" <=> j = 9
          /\ IsLook(x) \/ j \in {5, 10}
          /\ j = 5 => x.do = "classify"
          /\ j = 10 => x.do = "compare"
      <4>1. j \in 1..10 /\ x = ReadProjectInput[j]
        BY <3>1
      <4> QED
        BY <4>1, InputApart
    <3>3. \A k \in 1..10 : i = b + k <=> j = k
      BY <1>2, <3>1
    <3>4. i - b \in (1..10) \ {5, 10} <=> j \notin {5, 10}
      BY <3>1
    <3> QED
      BY <3>1, <3>2, <3>3, <3>4
  <2>2. CASE i - b \notin 1..10
    BY <1>2, <1>3, <2>2
  <2> QED
    BY <1>3, <2>1, <2>2
<1>5. \A j \in 1..10 : b + j \in 1..Len(p) /\ (b + j) - b = j
  BY <1>2
<1>6. ASSUME NEW j \in (1..10) \ {5, 10}
      PROVE  b + j \in 1..Len(p) /\ IsLook(p[b + j])
  BY <1>4, <1>5
<1>7. p[b + 5].do = "classify" /\ p[b + 10].do = "compare"
  <2>1. b + 5 \in 1..Len(p) /\ b + 10 \in 1..Len(p)
    BY <1>2
  <2> QED
    BY <1>4, <2>1
<1>8. ASSUME NEW slot, NEW d, NEW j \in (1..10) \ {5, 10},
             \A i \in 1..Len(p) : p[i].do \in Reading => (p[i].slot = slot /\ p[i].doc = d <=> i = b + j)
      PROVE  Reads(slot, d, b + j)
  BY <1>1, <1>6, <1>8 DEF Reads
<1>9. Reads("first", "toolchain", b + 1)
  <2>1. \A i \in 1..Len(p) : p[i].do \in Reading =>
           (p[i].slot = "first" /\ p[i].doc = "toolchain" <=> i = b + 1)
    BY <1>4
  <2> QED
    BY <1>8, <2>1
<1>10. Reads("first", "manifest", b + 2)
  <2>1. \A i \in 1..Len(p) : p[i].do \in Reading =>
           (p[i].slot = "first" /\ p[i].doc = "manifest" <=> i = b + 2)
    BY <1>4
  <2> QED
    BY <1>8, <2>1
<1>11. Reads("first", "override", b + 3)
  <2>1. \A i \in 1..Len(p) : p[i].do \in Reading =>
           (p[i].slot = "first" /\ p[i].doc = "override" <=> i = b + 3)
    BY <1>4
  <2> QED
    BY <1>8, <2>1
<1>12. Reads("first", "links", b + 4)
  <2>1. \A i \in 1..Len(p) : p[i].do \in Reading =>
           (p[i].slot = "first" /\ p[i].doc = "links" <=> i = b + 4)
    BY <1>4
  <2> QED
    BY <1>8, <2>1
<1>13. Reads("again", "toolchain", b + 6)
  <2>1. \A i \in 1..Len(p) : p[i].do \in Reading =>
           (p[i].slot = "again" /\ p[i].doc = "toolchain" <=> i = b + 6)
    BY <1>4
  <2> QED
    BY <1>8, <2>1
<1>14. Reads("again", "manifest", b + 7)
  <2>1. \A i \in 1..Len(p) : p[i].do \in Reading =>
           (p[i].slot = "again" /\ p[i].doc = "manifest" <=> i = b + 7)
    BY <1>4
  <2> QED
    BY <1>8, <2>1
<1>15. Reads("again", "override", b + 8)
  <2>1. \A i \in 1..Len(p) : p[i].do \in Reading =>
           (p[i].slot = "again" /\ p[i].doc = "override" <=> i = b + 8)
    BY <1>4
  <2> QED
    BY <1>8, <2>1
<1>16. Reads("again", "links", b + 9)
  <2>1. \A i \in 1..Len(p) : p[i].do \in Reading =>
           (p[i].slot = "again" /\ p[i].doc = "links" <=> i = b + 9)
    BY <1>4
  <2> QED
    BY <1>8, <2>1
<1> QED
  BY <1>1, <1>2, <1>7, <1>9, <1>10, <1>11, <1>12, <1>13, <1>14, <1>15, <1>16

-----------------------------------------------------------------------------
(* What the steps of the other programs do.                                *)

\* What a look at a document has found, from the opening of the file on.
Got(slot, d) == IF IsOpen /\ Slot = <<slot, d>> THEN held.file.text ELSE At(slot, d)
Past(n) == line > n \/ (line = n /\ IsOpen)

IsReading == mode \in {"bound", "closure", "dryRun"} /\ outcome # "refused"

PlaceInv ==
    IsReading =>
        /\ DOMAIN text = Documents /\ text \in moments
        /\ line \in 1..Len(Program[mode]) + 1
        /\ outcome = IF line = Len(Program[mode]) + 1 THEN "accepted" ELSE "running"
        /\ IsOpen => outcome = "running" /\ Now.do \in {"read", "readPlain"}
        /\ \A i \in 1..Len(Program[mode]) :
              Program[mode][i].do \in {"read", "resolve"} /\ i < line =>
                 Known(Program[mode][i].slot, Program[mode][i].doc)

ProgramStep ==
    \/ Open \/ Close \/ Plain \/ Resolve \/ Collect \/ HashEntry \/ VerifyEntry
    \/ \E action \in {"classify", "compare", "match", "comparePair", "declare", "snapshot",
                      "toolchain", "confirm", "adopt", "register"} : Decide(action)

\* A file is opened, something is taken into account, or neither.
Opens ==
    /\ Now.do \in {"read", "readPlain"} /\ ~IsOpen
    /\ IsOpen' /\ held'.file.text = text[Here] /\ (text[Here] # Nothing \/ Here = "override")
    /\ UNCHANGED <<line, outcome, seen>>

Moves == line' = line + 1 /\ outcome' = IF line = Len(Program[mode]) THEN "accepted" ELSE "running"

Takes(e) ==
    /\ Now.do \in Reading /\ seen' = Set(seen, Slot, e)
    /\ Now.do = "read" => IsOpen /\ e = held.file
    /\ Now.do = "resolve" => ~IsOpen /\ e.text = text[Here]
    /\ ~IsOpen' /\ Moves

Passes ==
    /\ Now.do \notin Reading /\ UNCHANGED seen
    /\ Now.do \notin {"collect", "verify"} => Holds(Now.do)
    /\ ~IsOpen /\ ~IsOpen' /\ Moves

\* Every step of a program that does not refuse is one of them.
LEMMA StepForms ==
    ASSUME PlaceInv, IsReading, ProgramStep, outcome' # "refused"
    PROVE  /\ outcome = "running" /\ line \in 1..Len(Program[mode])
           /\ UNCHANGED <<mode, text, moments, restored>>
           /\ Opens \/ (\E e : Takes(e)) \/ Passes
<1>1. outcome = "running"
  BY DEF ProgramStep, Open, Close, Plain, Resolve, Collect, HashEntry, VerifyEntry, Decide, Next1
<1>2. Len(Program[mode]) \in Nat
  BY OtherPrograms DEF IsReading
<1>3. line \in 1..Len(Program[mode])
  BY <1>1, <1>2 DEF PlaceInv
<1>4. UNCHANGED <<mode, text, moments, restored>>
  BY DEF ProgramStep, Open, Close, Plain, Resolve, Collect, HashEntry, VerifyEntry, Decide, history,
         files
<1>5. \A condition : Advance(condition) => condition /\ Moves
  BY <1>1 DEF Advance, GoOn, Refuse, Moves
<1>6. GoOn => Moves
  BY <1>1 DEF GoOn, Moves
<1>7. Now.do \notin {"read", "readPlain"} => ~IsOpen
  BY DEF PlaceInv
<1>8. CASE Open
  <2>1. UNCHANGED <<line, outcome>> /\ (text[Here] # Nothing \/ Here = "override")
    BY <1>8 DEF Open, Refuse
  <2>2. held' = Set(held, "file", Current(Here))
    BY <1>8 DEF Open
  <2>3. IsOpen' /\ held'.file.text = text[Here]
    BY <2>2 DEF IsOpen, Set, Current
  <2>4. Opens
    BY <1>8, <2>1, <2>3 DEF Open, Opens, Next1
  <2> QED
    BY <1>1, <1>3, <1>4, <2>4
<1>9. CASE Close
  <2>1. Takes(held.file)
    BY <1>5, <1>9 DEF Close, Takes, Next1, IsOpen, Reading
  <2> QED
    BY <1>1, <1>3, <1>4, <2>1
<1>10. CASE Plain
  <2>1. PICK e : seen' = Set(seen, Slot, e)
    BY <1>10 DEF Plain
  <2>2. Takes(e)
    BY <1>5, <1>10, <2>1 DEF Plain, Takes, Next1, IsOpen, Reading
  <2> QED
    BY <1>1, <1>3, <1>4, <2>2
<1>11. CASE Resolve
  <2>1. Takes(Current(Here))
    BY <1>6, <1>7, <1>11 DEF Resolve, Takes, Next1, IsOpen, Reading, Current
  <2> QED
    BY <1>1, <1>3, <1>4, <2>1
<1>12. CASE Collect
  <2>1. Here \in Documents
    BY <1>3, <1>12, OtherPrograms DEF IsReading, Collect, Next1, Now, Here
  <2>2. Here # "file"
    BY <2>1 DEF Documents
  <2>3. ~IsOpen /\ ~IsOpen'
    BY <1>7, <1>12, <2>2 DEF Collect, Next1, IsOpen, Set
  <2>4. Passes
    BY <1>5, <1>12, <2>3 DEF Collect, Passes, Next1, Reading
  <2> QED
    BY <1>1, <1>3, <1>4, <2>4
<1>13. CASE HashEntry
  <2>1. Takes(Current(Here))
    BY <1>5, <1>7, <1>13 DEF HashEntry, Takes, Next1, IsOpen, Reading
  <2> QED
    BY <1>1, <1>3, <1>4, <2>1
<1>14. CASE VerifyEntry
  <2>1. ~IsOpen /\ ~IsOpen'
    BY <1>7, <1>14 DEF VerifyEntry, Next1, IsOpen
  <2>2. Passes
    BY <1>5, <1>14, <2>1 DEF VerifyEntry, Passes, Next1, Reading
  <2> QED
    BY <1>1, <1>3, <1>4, <2>2
<1>15. ASSUME NEW action \in {"classify", "compare", "match", "comparePair", "declare", "snapshot",
                              "toolchain", "confirm", "adopt", "register"}, Decide(action)
       PROVE  Passes
  <2>1. Now.do = action /\ Now.do \notin Reading \cup {"collect", "verify"}
    BY <1>15 DEF Decide, Next1, Reading
  <2>2. ~IsOpen /\ ~IsOpen' /\ UNCHANGED seen
    BY <1>7, <1>15, <2>1 DEF Decide, IsOpen, Reading
  <2>3. Holds(action) /\ Moves
    BY <1>5, <1>15 DEF Decide
  <2> QED
    BY <2>1, <2>2, <2>3 DEF Passes
<1> QED
  BY <1>1, <1>3, <1>4, <1>8, <1>9, <1>10, <1>11, <1>12, <1>13, <1>14, <1>15 DEF ProgramStep

\* A look at a document is taken at its line and stays as it was.
Looks(slot, d, n) ==
    /\ line > n => At(slot, d)' = At(slot, d)
    /\ \/ (Past(n)' <=> Past(n)) /\ (Past(n) => Got(slot, d)' = Got(slot, d))
       \/ /\ ~Past(n) /\ Past(n)' /\ line = n /\ Got(slot, d)' = text[d]
          /\ d \notin {"override", "links"} => text[d] # Nothing
          /\ \A k \in Nat : k > n => ~Past(k)'

\* A step of a program takes the look at its line, or leaves it as it was.
LEMMA LookIsTaken ==
    ASSUME PlaceInv, IsReading, ProgramStep, outcome' # "refused",
           NEW slot, NEW d, NEW n, Reads(slot, d, n)
    PROVE  Looks(slot, d, n)
<1>1. /\ outcome = "running" /\ line \in 1..Len(Program[mode])
      /\ UNCHANGED <<mode, text, moments, restored>>
      /\ Opens \/ (\E e : Takes(e)) \/ Passes
  BY StepForms
<1>2. Len(Program[mode]) \in Nat
  BY OtherPrograms DEF IsReading
<1>3. n \in 1..Len(Program[mode])
  BY DEF Reads
<1>4. Now.do \in Reading => (Now.slot = slot /\ Here = d <=> line = n)
  BY <1>1 DEF Reads, Now, Here
<1>5. line = n => Now.do = IF Here = "links" THEN "resolve" ELSE "read"
  BY DEF Reads, Now, Here, IsLook
<1>6. line > n => Known(slot, d)
  <2>1. Program[mode][n].slot = slot /\ Program[mode][n].doc = d
    BY <1>3 DEF Reads, Reading, IsLook
  <2> QED
    BY <1>2, <1>3, <2>1 DEF PlaceInv, Reads, IsLook
<1>7. Slot = <<slot, d>> <=> Now.slot = slot /\ Here = d
  BY DEF Slot, Here
<1>8. line \in Nat /\ n \in Nat
  BY <1>1, <1>2, <1>3
<1>9. CASE Opens
  <2>1. /\ ~IsOpen /\ IsOpen' /\ line' = line /\ Slot' = Slot /\ At(slot, d)' = At(slot, d)
        /\ Now.do \in Reading
    BY <1>1, <1>9 DEF Opens, Slot, Now, At, Reading
  <2>2. CASE line = n
    <3>1. Got(slot, d)' = text[d] /\ (d # "override" => text[d] # Nothing)
      BY <1>4, <1>7, <1>9, <2>1, <2>2 DEF Got, Opens
    <3>2. ~Past(n) /\ Past(n)' /\ \A k \in Nat : k > n => ~Past(k)'
      BY <1>8, <2>1, <2>2 DEF Past
    <3> QED
      BY <2>1, <2>2, <3>1, <3>2 DEF Looks
  <2>3. CASE line # n
    <3>1. Got(slot, d)' = Got(slot, d)
      BY <1>4, <1>7, <2>1, <2>3 DEF Got
    <3>2. Past(n)' <=> Past(n)
      BY <1>8, <2>1, <2>3 DEF Past
    <3> QED
      BY <2>1, <3>1, <3>2 DEF Looks
  <2> QED
    BY <2>2, <2>3
<1>10. ASSUME NEW e, Takes(e)
       PROVE  Looks(slot, d, n)
  <2>1. ~IsOpen' /\ line' = line + 1 /\ Now.do \in Reading /\ seen' = Set(seen, Slot, e)
    BY <1>10 DEF Takes, Moves
  <2>2. Got(slot, d)' = At(slot, d)'
    BY <2>1 DEF Got
  <2>3. At(slot, d)' = Look(slot, d)'.text /\ At(slot, d) = Look(slot, d).text
    BY DEF At, Look
  <2>4. CASE line = n /\ Now.do = "read"
    <3>1. Past(n) /\ Past(n)' /\ ~(line > n)
      BY <1>8, <1>10, <2>1, <2>4 DEF Past, Takes
    <3>2. Got(slot, d) = held.file.text
      BY <1>4, <1>7, <1>10, <2>1, <2>4 DEF Got, Takes
    <3>3. Look(slot, d)' = held.file
      BY <1>4, <1>10, <2>1, <2>4, SetKnown DEF Takes
    <3> QED
      BY <2>2, <2>3, <3>1, <3>2, <3>3 DEF Looks
  <2>5. CASE line = n /\ Now.do = "resolve"
    <3>1. Look(slot, d)'.text = text[d]
      <4>1. Look(slot, d)' = e /\ Here = d
        BY <1>4, <2>1, <2>5, SetKnown
      <4> QED
        BY <1>10, <2>5, <4>1 DEF Takes
    <3>2. ~Past(n) /\ Past(n)' /\ (\A k \in Nat : k > n => ~Past(k)') /\ ~(line > n)
      BY <1>8, <1>10, <2>1, <2>5 DEF Past, Takes
    <3>3. d = "links"
      BY <1>4, <1>5, <2>1, <2>5
    <3> QED
      BY <2>2, <2>3, <2>5, <3>1, <3>2, <3>3 DEF Looks
  <2>6. CASE line # n
    <3>1. line > n => At(slot, d)' = At(slot, d)
      BY <1>4, <1>6, <2>1, <2>3, <2>6, SetKnown
    <3>2. (Past(n)' <=> Past(n)) /\ (Past(n) => line > n)
      BY <1>8, <2>1, <2>6 DEF Past
    <3>3. Got(slot, d) = At(slot, d)
      BY <1>4, <1>7, <2>1, <2>6 DEF Got
    <3> QED
      BY <2>2, <3>1, <3>2, <3>3 DEF Looks
  <2> QED
    BY <1>5, <2>4, <2>5, <2>6
<1>11. CASE Passes
  <2>1. ~IsOpen /\ ~IsOpen' /\ line' = line + 1 /\ At(slot, d)' = At(slot, d) /\ line # n
    BY <1>5, <1>11 DEF Passes, Moves, At, Reading
  <2>2. Got(slot, d)' = Got(slot, d)
    BY <2>1 DEF Got
  <2>3. Past(n)' <=> Past(n)
    BY <1>8, <2>1 DEF Past
  <2> QED
    BY <2>1, <2>2, <2>3 DEF Looks
<1> QED
  BY <1>1, <1>9, <1>10, <1>11

-----------------------------------------------------------------------------
(* What a read knows about the documents.                                  *)

\* The program stands still while the editor writes.
Drifts ==
    /\ UNCHANGED <<mode, line, held, seen, outcome>>
    /\ moments \subseteq moments' /\ restored \subseteq restored'
    /\ DOMAIN text' = Documents /\ text' \in moments'
    /\ \A d \in Documents : d \in restored' \/ text'[d] = text[d] \/ ~Sighted(d, text'[d])

\* An edit, or nothing, leaves the program where it is.
LEMMA EditDrifts ==
    ASSUME PlaceInv, IsReading, (\E d \in Documents : Edit(d)) \/ UNCHANGED vars
    PROVE  Drifts
<1>1. CASE UNCHANGED vars
  BY <1>1 DEF Drifts, PlaceInv, vars, history, files
<1>2. ASSUME NEW d \in Documents, Edit(d)
      PROVE  Drifts
  <2>1. PICK t : text' = [text EXCEPT ![d] = t]
    BY <1>2 DEF Edit
  <2>2. /\ moments' = moments \cup {text'}
        /\ restored' = IF \E m \in moments : m[d] = text'[d] THEN restored \cup {d} ELSE restored
        /\ UNCHANGED <<mode, line, held, seen, outcome>>
    BY <1>2 DEF Edit
  <2>3. DOMAIN text' = Documents /\ \A c \in Documents : c # d => text'[c] = text[c]
    BY <2>1 DEF PlaceInv
  <2>4. d \in restored' \/ ~Sighted(d, text'[d])
    BY <2>2 DEF Sighted
  <2> QED
    BY <2>2, <2>3, <2>4 DEF Drifts
<1> QED
  BY <1>1, <1>2

\* Every step is one of the editor or of the program.
Goes == PlaceInv /\ IsReading /\ outcome' # "refused" /\ (Drifts \/ ProgramStep)

\* A step stays at its line or goes to the next.
LEMMA GoesOn ==
    ASSUME Goes
    PROVE  /\ mode' = mode /\ Len(Program[mode]) \in Nat
           /\ line \in 1..Len(Program[mode]) + 1 /\ line' \in {line, line + 1}
           /\ text \in moments /\ text' \in moments'
           /\ moments \subseteq moments'
<1>1. Len(Program[mode]) \in Nat
  BY OtherPrograms DEF Goes, IsReading
<1>2. CASE Drifts
  BY <1>1, <1>2 DEF Goes, Drifts, PlaceInv
<1>3. CASE ProgramStep
  BY <1>1, <1>3, StepForms DEF Goes, PlaceInv, Opens, Takes, Passes, Moves
<1> QED
  BY <1>2, <1>3 DEF Goes

\* Every step takes a look or leaves it as it was.
LEMMA LooksGoOn ==
    ASSUME Goes, NEW slot, NEW d, NEW n, Reads(slot, d, n)
    PROVE  Looks(slot, d, n)
<1>1. CASE Drifts
  BY <1>1 DEF Drifts, Looks, Got, Past, At, IsOpen, Slot, Now
<1>2. CASE ProgramStep
  BY <1>2, LookIsTaken DEF Goes
<1> QED
  BY <1>1, <1>2 DEF Goes

\* Where the program stands is kept.
LEMMA PlaceKeeps ==
    ASSUME Goes
    PROVE  PlaceInv'
<1>1. /\ mode' = mode /\ Len(Program[mode]) \in Nat /\ line \in 1..Len(Program[mode]) + 1
  BY GoesOn
<1>2. CASE Drifts
  BY <1>1, <1>2 DEF Goes, Drifts, PlaceInv, IsReading, IsOpen, Now, Known
<1>3. CASE ProgramStep
  <2>1. /\ outcome = "running" /\ line \in 1..Len(Program[mode])
        /\ UNCHANGED <<mode, text, moments, restored>>
        /\ Opens \/ (\E e : Takes(e)) \/ Passes
    BY <1>3, StepForms DEF Goes
  <2>2. DOMAIN text = Documents /\ text \in moments
    BY DEF Goes, PlaceInv
  <2>3. \A i \in 1..Len(Program[mode]) :
           Program[mode][i].do \in {"read", "resolve"} /\ i < line =>
              Known(Program[mode][i].slot, Program[mode][i].doc)
    BY DEF Goes, PlaceInv
  <2>4. CASE Opens
    <3>1. IsOpen' /\ line' = line /\ outcome' = outcome /\ Now' = Now /\ seen' = seen
          /\ Now.do \in {"read", "readPlain"}
      BY <2>1, <2>4 DEF Opens, Now
    <3>2. line # Len(Program[mode]) + 1
      BY <1>1, <2>1
    <3> QED
      BY <1>1, <2>1, <2>2, <2>3, <3>1, <3>2 DEF PlaceInv, Known
  <2>5. ASSUME NEW e, Takes(e)
        PROVE  PlaceInv'
    <3>1. ~IsOpen' /\ Moves /\ seen' = Set(seen, Slot, e) /\ Now.do \in Reading
      BY <2>5 DEF Takes
    <3>2. \A i \in 1..Len(Program[mode]) :
             Program[mode][i].do \in {"read", "resolve"} /\ i < line' =>
                Known(Program[mode][i].slot, Program[mode][i].doc)'
      <4> TAKE i \in 1..Len(Program[mode])
      <4>1. DEFINE x == Program[mode][i]
      <4>2. HAVE Program[mode][i].do \in {"read", "resolve"} /\ i < line'
      <4>3. i < line \/ i = line
        BY <1>1, <3>1, <4>2 DEF Moves
      <4>4. i = line => x.slot = Now.slot /\ x.doc = Here
        BY DEF Now, Here
      <4>5. i < line => Known(x.slot, x.doc)
        BY <2>3, <4>2
      <4> HIDE DEF x
      <4>6. PICK s, d : s = x.slot /\ d = x.doc
        OBVIOUS
      <4>7. Known(s, d)'
        BY <3>1, <4>3, <4>4, <4>5, <4>6, SetKnown
      <4>8. x' = x
        BY <1>1 DEF x
      <4> QED
        BY <4>6, <4>7, <4>8 DEF x
    <3>3. line' \in 1..Len(Program[mode]) + 1
          /\ outcome' = IF line' = Len(Program[mode]) + 1 THEN "accepted" ELSE "running"
      BY <1>1, <2>1, <3>1 DEF Moves
    <3> QED
      BY <1>1, <2>1, <2>2, <3>1, <3>2, <3>3 DEF PlaceInv
  <2>6. CASE Passes
    <3>1. ~IsOpen' /\ Moves /\ seen' = seen /\ Now.do \notin Reading
      BY <2>6 DEF Passes
    <3>2. line' \in 1..Len(Program[mode]) + 1
          /\ outcome' = IF line' = Len(Program[mode]) + 1 THEN "accepted" ELSE "running"
      BY <1>1, <2>1, <3>1 DEF Moves
    <3>3. \A i \in 1..Len(Program[mode]) :
             Program[mode][i].do \in {"read", "resolve"} /\ i < line' => i < line
      BY <1>1, <3>1 DEF Moves, Now, Reading
    <3> QED
      BY <1>1, <2>1, <2>2, <2>3, <3>1, <3>2, <3>3 DEF PlaceInv, Known
  <2> QED
    BY <2>1, <2>4, <2>5, <2>6
<1> QED
  BY <1>2, <1>3 DEF Goes

\* What is read was there, and files that must be there are.
Sight(d, n) ==
    Past(n) => /\ Sighted(d, Got("first", d))
               /\ d \notin {"override", "links"} => Got("first", d) # Nothing

\* What was read stays among what was there.
LEMMA SightKeeps ==
    ASSUME Goes, NEW d, NEW n, Reads("first", d, n), Sight(d, n)
    PROVE  Sight(d, n)'
<1>1. Looks("first", d, n)
  BY LooksGoOn
<1>2. text \in moments /\ moments \subseteq moments'
  BY GoesOn
<1>3. \A said : Sighted(d, said) => Sighted(d, said)'
  BY <1>2 DEF Sighted
<1>4. Sighted(d, text[d])
  BY <1>2 DEF Sighted
<1> QED
  BY <1>1, <1>3, <1>4 DEF Looks, Sight, Sighted

\* A moment that says what was read first, if the document still says it or
\* says it again.
Ties(m, d, again) ==
    d \notin restored =>
        /\ text[d] = Got("first", d) => m[d] = Got("first", d)
        /\ Past(again) /\ Got("again", d) = Got("first", d) => m[d] = Got("first", d)

\* A moment stays tied: a text that comes back is restored.
LEMMA TiesKeep ==
    ASSUME Goes, NEW d \in Documents, NEW first, NEW again,
           Reads("first", d, first), Reads("again", d, again),
           Past(first), Sight(d, first), NEW m, Ties(m, d, again)
    PROVE  Ties(m, d, again)'
<1>1. Got("first", d)' = Got("first", d)
  BY LooksGoOn DEF Looks
<1>2. Sighted(d, Got("first", d))
  BY DEF Sight
<1>3. Looks("again", d, again)
  BY LooksGoOn
<1>4. PICK said : said = Got("first", d)
  OBVIOUS
<1>5. d \notin restored' =>
         /\ d \notin restored
         /\ text'[d] = said => text[d] = said
         /\ Got("again", d)' = text[d] => Past(again) \/ text[d] = said \/ Got("again", d)' # said
  <2>1. CASE Drifts
    BY <1>2, <1>4, <2>1 DEF Drifts
  <2>2. CASE ProgramStep
    BY <2>2, StepForms DEF Goes
  <2> QED
    BY <2>1, <2>2 DEF Goes
<1>6. \/ (Past(again)' <=> Past(again)) /\ (Past(again) => Got("again", d)' = Got("again", d))
      \/ Got("again", d)' = text[d]
  BY <1>3 DEF Looks
<1>7. d \notin restored => /\ text[d] = said => m[d] = said
                           /\ Past(again) /\ Got("again", d) = said => m[d] = said
  BY <1>4 DEF Ties
<1>8. d \notin restored' => /\ text'[d] = said => m[d] = said
                            /\ Past(again)' /\ Got("again", d)' = said => m[d] = said
  BY <1>5, <1>6, <1>7
<1> QED
  BY <1>1, <1>4, <1>8 DEF Ties

\* The moment of a look: what was read before it and is read again after it
\* belongs to that moment.
Anchor(slot, d, n, twice) ==
    Past(n) => \E m \in moments : /\ m[d] = Got(slot, d)
                                  /\ \A t \in twice : Ties(m, t.doc, t.again)

\* An anchor is the present moment when the look is taken, and holds from then on.
LEMMA AnchorKeeps ==
    ASSUME Goes, NEW slot, NEW d, NEW n, Reads(slot, d, n), NEW twice,
           \A t \in twice : /\ t.doc \in Documents /\ Sight(t.doc, t.first)
                            /\ Reads("first", t.doc, t.first) /\ Reads("again", t.doc, t.again)
                            /\ t.first < n /\ n < t.again,
           Anchor(slot, d, n, twice)
    PROVE  Anchor(slot, d, n, twice)'
<1> SUFFICES ASSUME Past(n)'
             PROVE  \E m \in moments' : /\ m[d] = Got(slot, d)'
                                        /\ \A t \in twice : Ties(m, t.doc, t.again)'
  BY DEF Anchor
<1>1. Looks(slot, d, n)
  BY LooksGoOn
<1>2. text \in moments /\ moments \subseteq moments' /\ Len(Program[mode]) \in Nat
      /\ line \in Nat /\ line' \in {line, line + 1}
  BY GoesOn
<1>3. n \in Nat /\ \A t \in twice : t.first \in Nat /\ t.again \in Nat
  BY <1>2 DEF Reads
<1>4. CASE Past(n)
  <2>1. PICK m \in moments : m[d] = Got(slot, d) /\ \A t \in twice : Ties(m, t.doc, t.again)
    BY <1>4 DEF Anchor
  <2>2. m[d] = Got(slot, d)'
    BY <1>1, <1>4, <2>1 DEF Looks
  <2>3. ASSUME NEW t \in twice
        PROVE  Ties(m, t.doc, t.again)'
    <3>1. PICK c, f, g : c = t.doc /\ f = t.first /\ g = t.again
      OBVIOUS
    <3>2. /\ c \in Documents /\ Sight(c, f) /\ Reads("first", c, f) /\ Reads("again", c, g)
          /\ Ties(m, c, g)
      BY <2>1, <3>1
    <3>3. Past(f)
      BY <1>2, <1>3, <1>4, <3>1 DEF Past
    <3>4. Ties(m, c, g)'
      BY <3>2, <3>3, TiesKeep
    <3> QED
      BY <3>1, <3>4
  <2> QED
    BY <1>2, <2>1, <2>2, <2>3
<1>5. CASE ~Past(n)
  <2>1. Got(slot, d)' = text[d] /\ \A k \in Nat : k > n => ~Past(k)'
    BY <1>1, <1>5 DEF Looks
  <2>2. text' = text
    <3>1. CASE Drifts
      BY <1>5, <3>1 DEF Drifts, Past, IsOpen
    <3>2. CASE ProgramStep
      BY <3>2, StepForms DEF Goes
    <3> QED
      BY <3>1, <3>2 DEF Goes
  <2>3. ASSUME NEW t \in twice
        PROVE  Ties(text, t.doc, t.again)'
    <3>1. ~Past(t.again)'
      BY <1>3, <2>1
    <3> QED
      BY <2>2, <3>1 DEF Ties
  <2> QED
    BY <1>2, <2>1, <2>2, <2>3
<1> QED
  BY <1>4, <1>5

\* What was decided held, and a look that is over stays as it was.
LEMMA Decided ==
    ASSUME Goes, NEW n \in 1..Len(Program[mode]), ~(line > n), line' > n,
           Program[mode][n].do \notin Reading \cup {"collect", "verify"}
    PROVE  line = n /\ Holds(Program[mode][n].do)
<1>1. line \in Nat /\ n \in Nat /\ line' \in {line, line + 1}
  BY GoesOn
<1>2. line = n /\ line' = line + 1
  BY <1>1
<1>3. ~Drifts
  BY <1>1, <1>2 DEF Drifts
<1>4. Opens \/ (\E e : Takes(e)) \/ Passes
  BY <1>3, StepForms DEF Goes
<1>5. Now.do = Program[mode][n].do
  BY <1>2 DEF Now
<1>6. Passes
  BY <1>1, <1>2, <1>4, <1>5 DEF Opens, Takes
<1> QED
  BY <1>2, <1>5, <1>6 DEF Passes

-----------------------------------------------------------------------------
(* The invariant of the other programs, and what it is for.                *)

Again(d, first, again) == [doc |-> d, first |-> first, again |-> again]

PairInv ==
    IsReading /\ mode \in {"bound", "closure"} =>
        /\ Sight("registry", 1) /\ Sight("providerOverride", 2)
        /\ Anchor("first", "providerOverride", 2, {Again("registry", 1, 5)})
        /\ Anchor("again", "registry", 5, {Again("providerOverride", 2, 6)})
        /\ line > 4 => Pair.packages # Nothing
        /\ line > 7 => PairIsUnchanged

\* The documents of an input, where they are read the first and the second time.
Twice(base) ==
    {Again("toolchain", base + 1, base + 6), Again("manifest", base + 2, base + 7),
     Again("override", base + 3, base + 8)}

InputInv ==
    IsReading /\ mode \in {"bound", "dryRun"} =>
        /\ \A t \in Twice(Base) : Sight(t.doc, t.first)
        /\ Anchor("first", "links", Base + 4, Twice(Base))
        /\ line > Base + 5 => DecodedInput("first") /\ Input.state # Nothing
        /\ line > Base + 10 => InputIsUnchanged

ReadInvariant == PlaceInv /\ PairInv /\ InputInv

\* A read begins with nothing known.
LEMMA InitRead == Init => ReadInvariant
<1> SUFFICES ASSUME Init, IsReading
             PROVE  ReadInvariant
  BY DEF ReadInvariant, PlaceInv, PairInv, InputInv
<1>1. DOMAIN text = Documents /\ text \in moments /\ line = 1 /\ outcome = "running" /\ ~IsOpen
  BY StartsAreTexts DEF Init, IsOpen
<1>2. Len(Program[mode]) \in Nat /\ Len(Program[mode]) >= 9
  BY OtherPrograms DEF IsReading
<1>3. PlaceInv
  BY <1>1, <1>2 DEF PlaceInv
<1>4. \A n \in Nat : n >= 1 => ~Past(n)
  BY <1>1 DEF Past
<1>5. PairInv
  <2>1. ~Past(1) /\ ~Past(2) /\ ~Past(5)
    BY <1>4
  <2> QED
    BY <1>1, <2>1 DEF PairInv, Sight, Anchor
<1>6. InputInv
  <2> SUFFICES ASSUME mode \in {"bound", "dryRun"}
               PROVE  InputInv
    BY DEF InputInv
  <2>1. Base \in {7, 9}
    BY DEF Base
  <2>2. ~Past(Base + 1) /\ ~Past(Base + 2) /\ ~Past(Base + 3) /\ ~Past(Base + 4)
    BY <1>4, <2>1
  <2>3. ~(line > Base + 5) /\ ~(line > Base + 10)
    BY <1>1, <2>1
  <2> QED
    BY <2>2, <2>3 DEF InputInv, Sight, Anchor, Twice, Again
<1> QED
  BY <1>3, <1>5, <1>6 DEF ReadInvariant

\* Every step keeps what is known of a provider pair.
LEMMA PairKeeps ==
    ASSUME Goes, PairInv, mode \in {"bound", "closure"}
    PROVE  PairInv'
<1>1. /\ mode' = mode /\ Len(Program[mode]) \in Nat /\ line \in Nat /\ line' \in {line, line + 1}
  BY GoesOn
<1>2. /\ Sight("registry", 1) /\ Sight("providerOverride", 2)
      /\ Anchor("first", "providerOverride", 2, {Again("registry", 1, 5)})
      /\ Anchor("again", "registry", 5, {Again("providerOverride", 2, 6)})
      /\ line > 4 => Pair.packages # Nothing
      /\ line > 7 => PairIsUnchanged
  BY DEF Goes, PairInv
<1>3. "registry" \in Documents /\ "providerOverride" \in Documents
  BY DEF Documents
<1>4. Sight("registry", 1)' /\ Sight("providerOverride", 2)'
  BY <1>2, PairReads, SightKeeps
<1>5. Anchor("first", "providerOverride", 2, {Again("registry", 1, 5)})'
  <2>1. PICK twice : twice = {Again("registry", 1, 5)}
    OBVIOUS
  <2>2. \A t \in twice : /\ t.doc \in Documents /\ Sight(t.doc, t.first)
                         /\ Reads("first", t.doc, t.first) /\ Reads("again", t.doc, t.again)
                         /\ t.first < 2 /\ 2 < t.again
    BY <1>2, <1>3, <2>1, PairReads DEF Again
  <2>3. Anchor("first", "providerOverride", 2, twice)'
    BY <1>2, <2>1, <2>2, PairReads, AnchorKeeps
  <2> QED
    BY <2>1, <2>3
<1>6. Anchor("again", "registry", 5, {Again("providerOverride", 2, 6)})'
  <2>1. PICK twice : twice = {Again("providerOverride", 2, 6)}
    OBVIOUS
  <2>2. \A t \in twice : /\ t.doc \in Documents /\ Sight(t.doc, t.first)
                         /\ Reads("first", t.doc, t.first) /\ Reads("again", t.doc, t.again)
                         /\ t.first < 5 /\ 5 < t.again
    BY <1>2, <1>3, <2>1, PairReads DEF Again
  <2>3. Anchor("again", "registry", 5, twice)'
    BY <1>2, <2>1, <2>2, PairReads, AnchorKeeps
  <2> QED
    BY <2>1, <2>3
<1>7. /\ line > 1 => At("first", "registry")' = At("first", "registry")
      /\ line > 2 => At("first", "providerOverride")' = At("first", "providerOverride")
      /\ line > 3 => At("pair", "links")' = At("pair", "links")
      /\ line > 5 => At("again", "registry")' = At("again", "registry")
      /\ line > 6 => At("again", "providerOverride")' = At("again", "providerOverride")
  BY PairReads, LooksGoOn DEF Looks
<1>8. line' > 4 => Pair'.packages # Nothing
  <2> SUFFICES ASSUME line' > 4
               PROVE  Pair'.packages # Nothing
    OBVIOUS
  <2>1. Pair' = Pair
    <3>1. line > 3
      BY <1>1
    <3> QED
      BY <1>1, <1>7, <3>1 DEF Pair
  <2>2. CASE line > 4
    BY <1>2, <2>1, <2>2
  <2>3. CASE ~(line > 4)
    <3>1. 4 \in 1..Len(Program[mode]) /\ Program[mode][4].do = "match"
      BY PairReads, OtherPrograms DEF Goes, IsReading
    <3>2. Holds("match")
      BY <2>3, <3>1, Decided DEF Reading
    <3> QED
      BY <2>1, <3>2 DEF Holds
  <2> QED
    BY <2>2, <2>3
<1>9. line' > 7 => PairIsUnchanged'
  <2> SUFFICES ASSUME line' > 7
               PROVE  PairIsUnchanged'
    OBVIOUS
  <2>1. line > 6
    BY <1>1
  <2>2. PairIsUnchanged
    <3>1. CASE ~(line > 7)
      <4>1. 7 \in 1..Len(Program[mode]) /\ Program[mode][7].do = "comparePair"
        BY PairReads, OtherPrograms DEF Goes, IsReading
      <4>2. Holds("comparePair")
        BY <3>1, <4>1, Decided DEF Reading
      <4> QED
        BY <4>2 DEF Holds
    <3> QED
      BY <1>2, <3>1
  <2> QED
    BY <1>1, <1>7, <2>1, <2>2 DEF PairIsUnchanged
<1> QED
  BY <1>4, <1>5, <1>6, <1>8, <1>9 DEF PairInv

\* Every step keeps what is known of an input.
LEMMA InputKeeps ==
    ASSUME Goes, InputInv, mode \in {"bound", "dryRun"}, mode = "bound" => PairInv
    PROVE  InputInv'
<1>1. /\ mode' = mode /\ Len(Program[mode]) \in Nat /\ line \in Nat /\ line' \in {line, line + 1}
  BY GoesOn
<1>2. PICK b : b = Base
  OBVIOUS
<1>3. /\ b \in {7, 9} /\ b + 10 <= Len(Program[mode]) /\ Base' = b
  BY <1>1, <1>2, InputReads DEF Base
<1>4. /\ \A t \in Twice(b) : Sight(t.doc, t.first)
      /\ Anchor("first", "links", b + 4, Twice(b))
      /\ line > b + 5 => DecodedInput("first") /\ Input.state # Nothing
      /\ line > b + 10 => InputIsUnchanged
  BY <1>2 DEF Goes, InputInv
<1>5. /\ Reads("first", "toolchain", b + 1) /\ Reads("first", "manifest", b + 2)
      /\ Reads("first", "override", b + 3) /\ Reads("first", "links", b + 4)
      /\ Reads("again", "toolchain", b + 6) /\ Reads("again", "manifest", b + 7)
      /\ Reads("again", "override", b + 8) /\ Reads("again", "links", b + 9)
      /\ Program[mode][b + 5].do = "classify" /\ Program[mode][b + 10].do = "compare"
  BY <1>2, InputReads
<1>6. PICK twice : twice = Twice(b)
  OBVIOUS
<1>7. \A t \in twice : /\ t.doc \in Documents
                       /\ Reads("first", t.doc, t.first) /\ Reads("again", t.doc, t.again)
                       /\ t.first < b + 4 /\ b + 4 < t.again
  BY <1>3, <1>5, <1>6 DEF Twice, Again, Documents
<1>8. \A t \in twice : Sight(t.doc, t.first)'
  <2> TAKE t \in twice
  <2>1. PICK c, f : c = t.doc /\ f = t.first
    OBVIOUS
  <2>2. Sight(c, f)'
    BY <1>4, <1>6, <1>7, <2>1, SightKeeps
  <2> QED
    BY <2>1, <2>2
<1>9. Anchor("first", "links", b + 4, twice)'
  <2>1. PICK n : n = b + 4
    OBVIOUS
  <2>2. Anchor("first", "links", n, twice)'
    BY <1>4, <1>5, <1>6, <1>7, <2>1, AnchorKeeps
  <2> QED
    BY <1>3, <2>1, <2>2
<1>10. /\ line > b + 1 => At("first", "toolchain")' = At("first", "toolchain")
       /\ line > b + 2 => At("first", "manifest")' = At("first", "manifest")
       /\ line > b + 3 => At("first", "override")' = At("first", "override")
       /\ line > b + 4 => At("first", "links")' = At("first", "links")
       /\ line > b + 6 => At("again", "toolchain")' = At("again", "toolchain")
       /\ line > b + 7 => At("again", "manifest")' = At("again", "manifest")
       /\ line > b + 8 => At("again", "override")' = At("again", "override")
       /\ line > b + 9 => At("again", "links")' = At("again", "links")
  BY <1>5, LooksGoOn DEF Looks
<1>11. line > b + 4 => Input' = Input /\ (DecodedInput("first")' <=> DecodedInput("first"))
  <2> SUFFICES ASSUME line > b + 4
               PROVE  Input' = Input /\ (DecodedInput("first")' <=> DecodedInput("first"))
    OBVIOUS
  <2>1. /\ At("first", "toolchain")' = At("first", "toolchain")
        /\ At("first", "manifest")' = At("first", "manifest")
        /\ At("first", "override")' = At("first", "override")
        /\ At("first", "links")' = At("first", "links")
    BY <1>1, <1>3, <1>10
  <2>2. Provider' = Provider
    <3>1. CASE mode = "bound"
      <4>1. b = 7
        BY <1>2, <3>1 DEF Base
      <4>2. line > 3
        BY <1>1, <4>1
      <4>3. /\ At("first", "registry")' = At("first", "registry")
            /\ At("first", "providerOverride")' = At("first", "providerOverride")
            /\ At("pair", "links")' = At("pair", "links")
        BY <1>1, <3>1, <4>2, PairReads, LooksGoOn DEF Looks
      <4> QED
        BY <1>1, <3>1, <4>3 DEF Provider, Pair
    <3> QED
      BY <1>1, <3>1 DEF Provider
  <2> QED
    BY <2>1, <2>2 DEF Input, DecodedInput
<1>12. line' > b + 5 => DecodedInput("first")' /\ Input'.state # Nothing
  <2> SUFFICES ASSUME line' > b + 5
               PROVE  DecodedInput("first")' /\ Input'.state # Nothing
    OBVIOUS
  <2>1. line > b + 4
    BY <1>1, <1>3
  <2>2. DecodedInput("first") /\ Input.state # Nothing
    <3>1. CASE ~(line > b + 5)
      <4>1. PICK n : n = b + 5
        OBVIOUS
      <4>2. n \in 1..Len(Program[mode])
        BY <1>1, <1>3, <4>1
      <4>3. Program[mode][n].do = "classify"
        BY <1>5, <4>1
      <4>4. Holds("classify")
        BY <3>1, <4>1, <4>2, <4>3, Decided DEF Reading
      <4> QED
        BY <4>4 DEF Holds
    <3> QED
      BY <1>4, <3>1
  <2> QED
    BY <1>11, <2>1, <2>2
<1>13. line' > b + 10 => InputIsUnchanged'
  <2> SUFFICES ASSUME line' > b + 10
               PROVE  InputIsUnchanged'
    OBVIOUS
  <2>1. line > b + 9
    BY <1>1, <1>3
  <2>2. InputIsUnchanged
    <3>1. CASE ~(line > b + 10)
      <4>1. PICK n : n = b + 10
        OBVIOUS
      <4>2. n \in 1..Len(Program[mode])
        BY <1>1, <1>3, <4>1
      <4>3. Program[mode][n].do = "compare"
        BY <1>5, <4>1
      <4>4. Holds("compare")
        BY <3>1, <4>1, <4>2, <4>3, Decided DEF Reading
      <4> QED
        BY <4>4 DEF Holds
    <3> QED
      BY <1>4, <3>1
  <2>3. /\ line > b + 8 /\ line > b + 7 /\ line > b + 6 /\ line > b + 4 /\ line > b + 3
        /\ line > b + 2 /\ line > b + 1
    BY <1>1, <1>3, <2>1
  <2> QED
    BY <1>10, <1>11, <2>1, <2>2, <2>3 DEF InputIsUnchanged
<1> QED
  BY <1>3, <1>6, <1>8, <1>9, <1>12, <1>13 DEF InputInv

\* Every step keeps the invariant.
LEMMA NextRead == ReadInvariant /\ [Next]_vars => ReadInvariant'
<1> SUFFICES ASSUME ReadInvariant, [Next]_vars, IsReading'
             PROVE  ReadInvariant'
  BY DEF ReadInvariant, PlaceInv, PairInv, InputInv
<1>1. mode' = mode /\ (outcome' # "refused" => outcome # "refused")
  BY DEF Next, vars, Edit, Open, Close, Plain, Resolve, Collect, HashEntry, VerifyEntry, Plan,
         Decide, Next1
<1>2. IsReading /\ outcome' # "refused"
  BY <1>1 DEF IsReading
<1>3. ~Plan
  <2> SUFFICES ASSUME Plan
               PROVE  FALSE
    OBVIOUS
  <2>1. Len(Program[mode]) \in Nat
    BY <1>2, OtherPrograms DEF IsReading
  <2>2. outcome = "running" /\ Now.do = "plan"
    BY DEF Plan, Next1
  <2>3. line \in 1..Len(Program[mode])
    BY <1>2, <2>1, <2>2 DEF ReadInvariant, PlaceInv
  <2> QED
    BY <1>2, <2>2, <2>3, OtherPrograms DEF IsReading, Now
<1>4. Goes
  <2>1. PlaceInv
    BY DEF ReadInvariant
  <2>2. CASE (\E d \in Documents : Edit(d)) \/ UNCHANGED vars
    BY <1>2, <2>1, <2>2, EditDrifts DEF Goes
  <2>3. CASE ProgramStep
    BY <1>2, <2>1, <2>3 DEF Goes
  <2> QED
    BY <1>3, <2>2, <2>3 DEF Next, ProgramStep
<1>5. PlaceInv'
  BY <1>4, PlaceKeeps
<1>6. PairInv'
  BY <1>1, <1>4, PairKeeps DEF ReadInvariant, PairInv
<1>7. InputInv'
  BY <1>1, <1>4, InputKeeps DEF ReadInvariant, InputInv
<1> QED
  BY <1>5, <1>6, <1>7 DEF ReadInvariant

\* While a provider pair or an input is read, there is a moment that a first
\* look belongs to, and the looks that find the same again belong to it too.
THEOREM ReadIsTracked == Spec => []ReadInvariant
BY InitRead, NextRead, PTL DEF Spec

\* What is left when a read is accepted.
LEMMA AcceptedLooks ==
    ASSUME ReadInvariant, mode \in {"bound", "closure", "dryRun"}, outcome = "accepted"
    PROVE  /\ IsReading /\ \A slot, d : Got(slot, d) = At(slot, d)
           /\ \A n \in 1..Len(Program[mode]) : line > n /\ Past(n)
<1>1. IsReading /\ ~IsOpen
  BY DEF ReadInvariant, PlaceInv, IsReading
<1>2. Len(Program[mode]) \in Nat /\ line = Len(Program[mode]) + 1
  BY <1>1, OtherPrograms DEF ReadInvariant, PlaceInv
<1> QED
  BY <1>1, <1>2 DEF Got, Past

\* A pair that is accepted was there, unless both documents were put back.
LEMMA AcceptedPair ==
    ASSUME ReadInvariant, mode \in {"bound", "closure"}, outcome = "accepted",
           ~({"registry", "providerOverride"} \subseteq restored)
    PROVE  \E m \in moments : Pair.registry = m.registry /\ Pair.override = m.providerOverride
<1>1. /\ IsReading /\ \A slot, d : Got(slot, d) = At(slot, d)
      /\ Past(2) /\ Past(5) /\ Past(6) /\ line > 7
  <2>1. {2, 5, 6, 7} \subseteq 1..Len(Program[mode])
    BY OtherPrograms
  <2> QED
    BY <2>1, AcceptedLooks
<1>2. At("again", "registry") = At("first", "registry")
      /\ At("again", "providerOverride") = At("first", "providerOverride")
  BY <1>1 DEF ReadInvariant, PairInv, PairIsUnchanged
<1>3. Pair.registry = At("first", "registry") /\ Pair.override = At("first", "providerOverride")
  BY DEF Pair
<1>4. CASE "registry" \notin restored
  <2>1. PICK m \in moments : /\ m["providerOverride"] = Got("first", "providerOverride")
                             /\ \A t \in {Again("registry", 1, 5)} : Ties(m, t.doc, t.again)
    BY <1>1 DEF ReadInvariant, PairInv, Anchor
  <2>2. Ties(m, "registry", 5)
    BY <2>1 DEF Again
  <2>3. m["registry"] = At("first", "registry")
    BY <1>1, <1>2, <1>4, <2>2 DEF Ties
  <2> QED
    BY <1>1, <1>3, <2>1, <2>3
<1>5. CASE "providerOverride" \notin restored
  <2>1. PICK m \in moments : /\ m["registry"] = Got("again", "registry")
                             /\ \A t \in {Again("providerOverride", 2, 6)} : Ties(m, t.doc, t.again)
    BY <1>1 DEF ReadInvariant, PairInv, Anchor
  <2>2. Ties(m, "providerOverride", 6)
    BY <2>1 DEF Again
  <2>3. m["providerOverride"] = At("first", "providerOverride")
    BY <1>1, <1>2, <1>5, <2>2 DEF Ties
  <2> QED
    BY <1>1, <1>2, <1>3, <2>1, <2>3
<1> QED
  BY <1>4, <1>5

\* An input that is accepted was there, unless a document was put back.
LEMMA AcceptedInput ==
    ASSUME ReadInvariant, mode \in {"bound", "dryRun"}, outcome = "accepted",
           Timed \cap restored = {}
    PROVE  \E m \in moments : /\ Input.toolchain = m.toolchain
                              /\ Input.manifest = m.manifest
                              /\ Input.override = m.override
                              /\ Input.paths = PathPackages(m.manifest, m.links)
<1>1. PICK b : b = Base
  OBVIOUS
<1>2. b \in {7, 9} /\ b + 10 <= Len(Program[mode]) /\ Len(Program[mode]) \in Nat
  BY <1>1, InputReads, OtherPrograms
<1>3. /\ IsReading /\ \A slot, d : Got(slot, d) = At(slot, d)
      /\ Past(b + 4) /\ Past(b + 6) /\ Past(b + 7) /\ Past(b + 8) /\ line > b + 10
  <2>1. {b + 4, b + 6, b + 7, b + 8, b + 10} \subseteq 1..Len(Program[mode])
    BY <1>2
  <2> QED
    BY <2>1, AcceptedLooks
<1>4. \A d \in Timed : At("again", d) = At("first", d)
  BY <1>1, <1>3 DEF ReadInvariant, InputInv, InputIsUnchanged, Timed
<1>5. PICK m \in moments : /\ m["links"] = Got("first", "links")
                           /\ \A t \in Twice(b) : Ties(m, t.doc, t.again)
  BY <1>1, <1>3 DEF ReadInvariant, InputInv, Anchor
<1>6. Ties(m, "toolchain", b + 6) /\ Ties(m, "manifest", b + 7) /\ Ties(m, "override", b + 8)
  BY <1>5 DEF Twice, Again
<1>7. \A d \in Timed : d \notin restored
  OBVIOUS
<1>8. \A d \in Timed : m[d] = At("first", d)
  BY <1>3, <1>4, <1>6, <1>7 DEF Ties, Timed
<1>9. m["links"] = At("first", "links")
  BY <1>3, <1>5
<1> QED
  BY <1>8, <1>9 DEF Input, Timed

\* An input that is accepted has an identity.
LEMMA AcceptedIdentity ==
    ASSUME ReadInvariant, mode \in {"bound", "dryRun"}, outcome = "accepted"
    PROVE  HasIdentity(Input, IF Input.state = "ProviderBound" THEN Provider ELSE <<>>)
<1>1. PICK b : b = Base
  OBVIOUS
<1>2. b \in {7, 9} /\ b + 10 <= Len(Program[mode]) /\ Len(Program[mode]) \in Nat
  BY <1>1, InputReads, OtherPrograms
<1>3. b + 5 \in 1..Len(Program[mode])
  BY <1>2
<1>4. IsReading /\ line > b + 5 /\ \A slot, d : Got(slot, d) = At(slot, d)
  BY <1>3, AcceptedLooks
<1>5. DecodedInput("first") /\ Input.state # Nothing
  BY <1>1, <1>4 DEF ReadInvariant, InputInv
<1>6. PICK input, links, provider, pair, dirs :
         input = Input /\ links = At("first", "links") /\ provider = Provider /\ pair = Pair
         /\ dirs = At("pair", "links")
  OBVIOUS
<1>7. /\ ManifestIsValid(input.manifest)
      /\ input.paths = PathPackages(input.manifest, links) /\ input.paths # Nothing
      /\ input.state = Classify(input.manifest, input.override, provider)
  BY <1>5, <1>6 DEF Input, DecodedInput
<1>8. provider = <<>> \/ provider = <<pair>>
  BY <1>6 DEF Provider
<1>9. provider = <<pair>> =>
         /\ pair.registry # Nothing /\ pair.override # Nothing
         /\ pair.packages = ProviderPackages(pair.registry, pair.override, dirs)
         /\ pair.packages # Nothing
  <2> SUFFICES ASSUME provider = <<pair>>
               PROVE  /\ pair.registry # Nothing /\ pair.override # Nothing
                      /\ pair.packages = ProviderPackages(pair.registry, pair.override, dirs)
                      /\ pair.packages # Nothing
    OBVIOUS
  <2>1. mode = "bound"
    BY <1>6 DEF Provider
  <2>2. {1, 2, 4} \subseteq 1..Len(Program[mode])
    BY <1>2
  <2>3. Past(1) /\ Past(2) /\ line > 4
    BY <2>2, AcceptedLooks
  <2>4. Pair.packages # Nothing /\ At("first", "registry") # Nothing /\ At("first", "providerOverride") # Nothing
    BY <1>4, <2>1, <2>3 DEF ReadInvariant, PairInv, Sight
  <2> QED
    BY <1>6, <2>4 DEF Pair
<1>10. input.state # Nothing
  BY <1>5, <1>6
<1>11. HasIdentity(input, IF input.state = "ProviderBound" THEN provider ELSE <<>>)
  BY <1>7, <1>8, <1>9, <1>10, ClassifiedHasIdentity
<1> QED
  BY <1>6, <1>11

\* What read_provider_pair and read_project_input accept was there at one
\* instant, unless the editor put the texts back, and an accepted input has an
\* identity.
THEOREM AcceptedWasASnapshot == Spec => []AcceptedInputIsASnapshot
<1>1. ReadInvariant => AcceptedInputIsASnapshot
  BY AcceptedPair, AcceptedInput, AcceptedIdentity DEF AcceptedInputIsASnapshot, Timed
<1> QED
  BY <1>1, ReadIsTracked, PTL

=============================================================================
