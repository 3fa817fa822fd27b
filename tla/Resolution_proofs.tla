--------------------------- MODULE Resolution_proofs ---------------------------
(***************************************************************************)
(* Theorems about Resolution, for any packages, metadata and locks.        *)
(*                                                                         *)
(* The invariant follows the traversal: what is left to take and what is   *)
(* selected is Needed, and what was taken is met.  When nothing is left    *)
(* the requirements that are met are closed, so that they are all of       *)
(* Needed, a set that knows of no order.  A lock is certified with the     *)
(* root and the metadata it was made from: pinned to it, what is needed,   *)
(* and with it the result, is the same again.  The objects of a fetch are  *)
(* followed to the packages they were made for.                            *)
(*                                                                         *)
(* What is written of an accepted generation is read again line by line:   *)
(* packages are found one where the other ends, and the digest of the      *)
(* graph decides which packages a text can be of at all.                   *)
(***************************************************************************)
EXTENDS Resolution, FiniteSetTheorems, WellFoundedInduction, TLAPS

-----------------------------------------------------------------------------
(* Recursion.  The provers have no induction over data; a set of numbers   *)
(* has a least one, and what holds of 0 and passes from each number to the *)
(* next is a set of numbers.  A function defined from one number to the    *)
(* next exists because the set of the numbers up to which it exists does.  *)

\* A set of numbers has a least one: what stands for induction here.
LEMMA LeastNumber ==
    ASSUME NEW S \in SUBSET Nat, S # {}
    PROVE  \E n \in S : \A m \in S : n <= m
<1>1. \E n \in S : \A m \in S : ~(<<m, n>> \in OpToRel(<, Nat))
  BY WFMin, NatLessThanWellFounded
<1>2. PICK n \in S : \A m \in S : ~(<<m, n>> \in OpToRel(<, Nat))
  BY <1>1
<1>3. \A m \in S : ~(m < n)
  BY <1>2 DEF OpToRel
<1> QED
  BY <1>3

\* Numbers up to n that have what 0 has and what follows from it.
LEMMA Inductive ==
    ASSUME NEW n \in Nat, NEW S, 0 \in S, \A i \in 1..n : i - 1 \in S => i \in S
    PROVE  0..n \subseteq S
<1> SUFFICES ASSUME (0..n) \ S # {} PROVE FALSE
  OBVIOUS
<1> DEFINE R == (0..n) \ S
<1>0. R \in SUBSET Nat /\ R # {}
  OBVIOUS
<1>1. PICK i \in R : \A m \in R : i <= m
  <2> HIDE DEF R
  <2> QED
    BY <1>0, LeastNumber
<1>2. i \in 1..n /\ i - 1 \in 0..n
  BY <1>1
<1> QED
  BY <1>1, <1>2

\* A function that is defined from one number to the next.
Follows(g, n, T, base, F) ==
    /\ g \in [0..n -> T]
    /\ g[0] = base
    /\ \A i \in 1..n : g[i] = F[i][g[i - 1]]

\* There is such a function for every step.
LEMMA Recursion ==
    ASSUME NEW n \in Nat, NEW T, NEW base \in T, NEW F \in [1..n -> [T -> T]]
    PROVE  \E g : Follows(g, n, T, base, F)
<1> DEFINE Upto(i) == \E g \in [0..i -> T] :
                g[0] = base /\ \A j \in 1..i : g[j] = F[j][g[j - 1]]
           S == {i \in 0..n : Upto(i)}
<1>1. 0 \in S
  <2> DEFINE h == [i \in 0..0 |-> base]
  <2>1. h \in [0..0 -> T] /\ h[0] = base /\ 1..0 = {}
    OBVIOUS
  <2>2. \A j \in 1..0 : h[j] = F[j][h[j - 1]]
    BY <2>1
  <2>3. Upto(0)
    <3> HIDE DEF h
    <3> QED
      BY <2>1, <2>2
  <2> QED
    BY <2>3
<1>2. ASSUME NEW i \in 1..n, i - 1 \in S PROVE i \in S
  <2>1. PICK g \in [0..(i - 1) -> T] : g[0] = base /\ \A j \in 1..(i - 1) : g[j] = F[j][g[j - 1]]
    BY <1>2
  <2>2. F[i][g[i - 1]] \in T
    BY <2>1
  <2> DEFINE h == [j \in 0..i |-> IF j = i THEN F[i][g[i - 1]] ELSE g[j]]
  <2>3. h \in [0..i -> T]
    BY <2>1, <2>2
  <2>4. h[0] = base /\ \A j \in 1..i : h[j] = F[j][h[j - 1]]
    BY <2>1
  <2>5. Upto(i)
    <3> HIDE DEF h
    <3> QED
      BY <2>3, <2>4
  <2>6. i \in 0..n
    OBVIOUS
  <2> HIDE DEF Upto
  <2> QED
    BY <2>5, <2>6
<1>3. 0..n \subseteq S
  <2> HIDE DEF S
  <2> QED
    BY <1>1, <1>2, Inductive
<1>4. n \in S
  BY <1>3
<1> QED
  BY <1>4 DEF Follows

\* A finite set of numbers has an order.
LEMMA KeysInOrder ==
    ASSUME NEW S \in SUBSET Nat, IsFiniteSet(S)
    PROVE  /\ InKeyOrder(S) \in [1..Cardinality(S) -> S]
           /\ \A i, j \in 1..Cardinality(S) : i < j => InKeyOrder(S)[i] < InKeyOrder(S)[j]
           /\ \A k \in S : \E i \in 1..Cardinality(S) : InKeyOrder(S)[i] = k
           /\ Cardinality(S) \in Nat
           /\ Len(InKeyOrder(S)) = Cardinality(S) /\ DOMAIN InKeyOrder(S) = 1..Cardinality(S)
<1> DEFINE n == Cardinality(S)
           Below(k) == {j \in S : j <= k}
           rank == [k \in S |-> Cardinality(Below(k))]
<1>1. n \in Nat /\ Cardinality(1..n) = n /\ IsFiniteSet(1..n)
  BY FS_CardinalityType, FS_Interval
<1>2. ASSUME NEW k \in S
      PROVE  IsFiniteSet(Below(k)) /\ Cardinality(Below(k)) \in 1..n
  <2>1. Below(k) \in SUBSET S /\ {k} \in SUBSET Below(k)
    OBVIOUS
  <2>2. IsFiniteSet(Below(k)) /\ Cardinality(Below(k)) <= n /\ Cardinality({k}) <= Cardinality(Below(k))
    BY <2>1, FS_Subset
  <2>3. Cardinality({k}) = 1
    BY FS_Singleton
  <2> QED
    BY <1>1, <2>2, <2>3, FS_CardinalityType
<1>3. ASSUME NEW j \in S, NEW k \in S, j < k
      PROVE  rank[j] < rank[k]
  <2>0. j \in Nat /\ k \in Nat /\ \A i \in S : i \in Nat
    OBVIOUS
  <2>1. Below(j) \in SUBSET Below(k) /\ k \notin Below(j) /\ k \in Below(k)
    <3>1. \A i \in S : i <= j => i <= k
      BY <1>3, <2>0
    <3>2. ~(k <= j) /\ k <= k
      BY <1>3, <2>0
    <3> QED
      BY <3>1, <3>2
  <2>2. Cardinality(Below(j)) <= Cardinality(Below(k)) /\ Cardinality(Below(j)) # Cardinality(Below(k))
    BY <1>2, <2>1, FS_Subset
  <2> QED
    BY <1>2, <2>2
<1>4. rank \in [S -> 1..n]
  BY <1>2
<1>5. \A j, k \in S : rank[j] = rank[k] => j = k
  <2> SUFFICES ASSUME NEW j \in S, NEW k \in S, rank[j] = rank[k], j # k PROVE FALSE
    OBVIOUS
  <2>1. j < k \/ k < j
    OBVIOUS
  <2> QED
    BY <1>3, <1>4, <2>1
<1>6. \A i \in 1..n : \E k \in S : rank[k] = i
  <2>1. rank \in Injection(S, 1..n)
    BY <1>4, <1>5 DEF Injection, IsInjective
  <2>2. rank \in Surjection(S, 1..n)
    BY <1>1, <2>1, FS_Injection
  <2> QED
    BY <2>2 DEF Surjection
<1> DEFINE s == [i \in 1..n |-> CHOOSE k \in S : rank[k] = i]
<1>7. s \in [1..n -> S] /\ \A i \in 1..n : rank[s[i]] = i
  BY <1>6
<1> HIDE DEF s, rank
<1>8. \A i, j \in 1..n : i < j => s[i] < s[j]
  <2> SUFFICES ASSUME NEW i \in 1..n, NEW j \in 1..n, i < j PROVE s[i] < s[j]
    OBVIOUS
  <2>1. s[i] \in Nat /\ s[j] \in Nat
    BY <1>7
  <2>2. s[i] \in S /\ s[j] \in S /\ rank[s[i]] = i /\ rank[s[j]] = j
    BY <1>7
  <2>3. ~(s[j] < s[i])
    <3>1. s[j] < s[i] => rank[s[j]] < rank[s[i]]
      BY <1>3, <2>2
    <3> QED
      BY <2>2, <3>1
  <2>4. s[i] # s[j]
    BY <2>2
  <2> QED
    BY <2>1, <2>3, <2>4
<1> DEFINE t == InKeyOrder(S)
<1>9. t \in [1..n -> S] /\ \A i, j \in DOMAIN t : i < j => t[i] < t[j]
  BY <1>7, <1>8 DEF InKeyOrder
<1> HIDE DEF t
<1>10. \A k \in S : \E i \in 1..n : t[i] = k
  <2>1. \A i, j \in 1..n : t[i] = t[j] => i = j
    <3> SUFFICES ASSUME NEW i \in 1..n, NEW j \in 1..n, t[i] = t[j], i # j PROVE FALSE
      OBVIOUS
    <3>1. i < j \/ j < i
      BY <1>1
    <3>2. t[i] \in Nat /\ t[j] \in Nat
      BY <1>9
    <3> QED
      BY <1>9, <3>1, <3>2
  <2>2. t \in Injection(1..n, S)
    BY <1>9, <2>1 DEF Injection, IsInjective
  <2>3. t \in Surjection(1..n, S)
    BY <1>1, <2>2, FS_Injection
  <2> QED
    BY <2>3 DEF Surjection
<1>11. Len(t) = n /\ DOMAIN t = 1..n
  BY <1>1, <1>9
<1> QED
  BY <1>1, <1>9, <1>10, <1>11 DEF t

-----------------------------------------------------------------------------
(* The walk of validate_cycles_and_depth: what is done is grounded, so that *)
(* without an error the whole graph is.                                    *)

\* The marks after each of the packages that are entered in turn.
Entered(enter, n, keys, after) ==
    /\ after \in [0..n -> Marks]
    /\ \A i \in 1..n : after[i] = IF after[i - 1].error # "none" THEN after[i - 1]
                                  ELSE enter[keys[i]][after[i - 1]]

\* InTurn is the last of these marks: its recursive function exists.
LEMMA TurnsTaken ==
    ASSUME NEW enter \in [Key -> [Marks -> Marks]], NEW n \in Nat, NEW keys \in [1..n -> Key],
           Len(keys) = n, NEW marks \in Marks
    PROVE  \E after : /\ Entered(enter, n, keys, after)
                     /\ after[0] = marks
                     /\ after[n] = InTurn(enter, keys, marks)
<1> DEFINE F == [i \in 1..n |-> [m \in Marks |->
                    IF m.error # "none" THEN m ELSE enter[keys[i]][m]]]
           Defines(g) == g = [i \in 0..n |-> IF i = 0 THEN marks
                                 ELSE IF g[i - 1].error # "none" THEN g[i - 1]
                                 ELSE enter[keys[i]][g[i - 1]]]
<1>1. F \in [1..n -> [Marks -> Marks]]
  OBVIOUS
<1>2. PICK g : Follows(g, n, Marks, marks, F)
  <2>1. n \in Nat /\ marks \in Marks
    OBVIOUS
  <2> HIDE DEF F
  <2> QED
    BY ONLY <1>1, <2>1, Recursion
<1>3. \A i \in 1..n : g[i] = IF g[i - 1].error # "none" THEN g[i - 1]
                             ELSE enter[keys[i]][g[i - 1]]
  <2> SUFFICES ASSUME NEW i \in 1..n
               PROVE  F[i][g[i - 1]] = IF g[i - 1].error # "none" THEN g[i - 1]
                                       ELSE enter[keys[i]][g[i - 1]]
    BY <1>2 DEF Follows
  <2>1. g[i - 1] \in Marks
    BY <1>2 DEF Follows
  <2> QED
    BY <2>1
<1>4. Defines(g)
  BY <1>2, <1>3 DEF Follows
<1> DEFINE a == CHOOSE f : Defines(f)
<1>5. Defines(a)
  <2> HIDE DEF Defines
  <2> QED
    BY <1>4
<1>6. a[0] = marks /\ \A i \in 1..n : a[i] = IF a[i - 1].error # "none" THEN a[i - 1]
                                             ELSE enter[keys[i]][a[i - 1]]
  <2> HIDE DEF a
  <2> QED
    BY <1>5
<1>7. \A i \in 0..n : a[i] = g[i]
  <2> HIDE DEF a
  <2> DEFINE S == {i \in 0..n : a[i] = g[i]}
  <2>1. 0 \in S
    BY <1>2, <1>6 DEF Follows
  <2>2. \A i \in 1..n : i - 1 \in S => i \in S
    BY <1>3, <1>6
  <2>3. 0..n \subseteq S
    <3> HIDE DEF S
    <3> QED
      BY <2>1, <2>2, Inductive
  <2> QED
    BY <2>3
<1>8. a[n] = g[n]
  BY <1>7
<1>9. InTurn(enter, keys, marks) = a[n]
  BY DEF InTurn
<1> QED
  BY <1>2, <1>3, <1>8, <1>9 DEF Follows, Entered

\* A graph: the dependencies of each package are packages of it.
IsGraph(deps) ==
    /\ DOMAIN deps \subseteq Key
    /\ \A k \in DOMAIN deps : deps[k] \subseteq DOMAIN deps

\* The same of all packages of a set.
Turns(enter, S, n, keys, after) ==
    /\ n \in Nat
    /\ keys \in [1..n -> S]
    /\ \A k \in S : \E i \in 1..n : keys[i] = k
    /\ Entered(enter, n, keys, after)

\* All packages of a set are entered when they are taken in key order.
LEMMA TurnsOfKeys ==
    ASSUME NEW enter \in [Key -> [Marks -> Marks]], NEW S \in SUBSET Key, NEW marks \in Marks
    PROVE  /\ InTurn(enter, InKeyOrder(S), marks) \in Marks
           /\ \E n, keys, after : /\ Turns(enter, S, n, keys, after)
                                 /\ after[0] = marks
                                 /\ after[n] = InTurn(enter, InKeyOrder(S), marks)
<1> DEFINE n == Cardinality(S)
           keys == InKeyOrder(S)
<1>1. S \in SUBSET Nat /\ IsFiniteSet(S)
  BY LockAssumption, FS_Subset
<1>2. /\ keys \in [1..n -> S] /\ n \in Nat /\ Len(keys) = n
      /\ \A k \in S : \E i \in 1..n : keys[i] = k
  BY <1>1, KeysInOrder
<1>3. keys \in [1..n -> Key]
  BY <1>2
<1> HIDE DEF n, keys
<1>4. PICK after : /\ Entered(enter, n, keys, after)
                   /\ after[0] = marks
                   /\ after[n] = InTurn(enter, keys, marks)
  BY <1>2, <1>3, TurnsTaken
<1>5. after[n] \in Marks
  BY <1>2, <1>4 DEF Entered
<1>6. Turns(enter, S, n, keys, after)
  BY <1>2, <1>4 DEF Turns
<1> QED
  BY <1>4, <1>5, <1>6 DEF keys

\* A visit ends with marks.
LEMMA VisitMarks ==
    ASSUME NEW deps, IsGraph(deps), NEW enter \in [Key -> [Marks -> Marks]], NEW k \in Key,
           NEW marks \in Marks
    PROVE  Visit(deps, enter, k, marks) \in Marks
<1> DEFINE opened == [marks EXCEPT !.open = @ \cup {k}]
           below == InTurn(enter, InKeyOrder(deps[k]), opened)
<1>1. opened \in Marks
  BY DEF Marks
<1>2. k \in DOMAIN deps => below \in Marks
  <2> HIDE DEF opened
  <2> QED
    BY <1>1, TurnsOfKeys DEF IsGraph
<1>3. below \in Marks => [below EXCEPT !.open = @ \ {k}, !.done = @ \cup {k}] \in Marks
  <2> HIDE DEF below
  <2> QED
    BY DEF Marks
<1>4. \A e \in WalkErrors : [marks EXCEPT !.error = e] \in Marks
  BY DEF Marks
<1> HIDE DEF below
<1> USE DEF WalkErrors
<1>5. CASE k \in marks.open \/ k \in marks.done
  BY <1>4, <1>5 DEF Visit
<1>6. CASE k \notin marks.open /\ k \notin marks.done /\ k \notin DOMAIN deps
  BY <1>4, <1>6 DEF Visit
<1>7. CASE k \notin marks.open /\ k \notin marks.done /\ k \in DOMAIN deps
  <2>1. Visit(deps, enter, k, marks) =
            IF below.error # "none" THEN below
            ELSE [below EXCEPT !.open = @ \ {k}, !.done = @ \cup {k}]
    BY <1>7 DEF Visit, below
  <2> QED
    BY <1>2, <1>3, <1>7, <2>1
<1> QED
  BY <1>5, <1>6, <1>7

\* The visit of a package is what its definition says, with so many levels left.
LEMMA VisitsByLevel ==
    ASSUME NEW deps, IsGraph(deps)
    PROVE  /\ Visits(deps) \in [0..MaxDepth -> [Key -> [Marks -> Marks]]]
           /\ \A left \in 0..MaxDepth, k \in Key, marks \in Marks :
                Visits(deps)[left][k][marks] =
                    IF left = 0 THEN [marks EXCEPT !.error = "GraphTooDeep"]
                    ELSE Visit(deps, Visits(deps)[left - 1], k, marks)
<1> DEFINE T == [Key -> [Marks -> Marks]]
           base == [k \in Key |-> [marks \in Marks |-> [marks EXCEPT !.error = "GraphTooDeep"]]]
           F == [i \in 1..MaxDepth |-> [v \in T |->
                    [k \in Key |-> [marks \in Marks |-> Visit(deps, v, k, marks)]]]]
           Value(g, left, k, marks) ==
                IF left = 0 THEN [marks EXCEPT !.error = "GraphTooDeep"]
                ELSE Visit(deps, g[left - 1], k, marks)
           Defines(g) == g = [left \in 0..MaxDepth |-> [k \in Key |-> [marks \in Marks |->
                                IF left = 0 THEN [marks EXCEPT !.error = "GraphTooDeep"]
                                ELSE Visit(deps, g[left - 1], k, marks)]]]
           v == CHOOSE g : Defines(g)
<1>1. MaxDepth \in Nat
  BY LockAssumption
<1>2. base \in T
  <2>1. \A marks \in Marks : [marks EXCEPT !.error = "GraphTooDeep"] \in Marks
    BY DEF Marks, WalkErrors
  <2> QED
    BY <2>1
<1>3. F \in [1..MaxDepth -> [T -> T]]
  BY VisitMarks
<1>4. PICK g : Follows(g, MaxDepth, T, base, F)
  <2> HIDE DEF F, T, base
  <2> QED
    BY <1>1, <1>2, <1>3, Recursion
<1>5. g \in [0..MaxDepth -> T]
  BY <1>4 DEF Follows
<1>6. \A left \in 0..MaxDepth : g[left] = [k \in Key |-> [marks \in Marks |-> Value(g, left, k, marks)]]
  <2>1. g[0] = [k \in Key |-> [marks \in Marks |-> Value(g, 0, k, marks)]]
    BY <1>4 DEF Follows
  <2>2. ASSUME NEW left \in 1..MaxDepth
        PROVE  g[left] = [k \in Key |-> [marks \in Marks |-> Value(g, left, k, marks)]]
    <3>1. g[left - 1] \in T
      BY <1>5, <1>1
    <3>2. g[left] = [k \in Key |-> [marks \in Marks |-> Visit(deps, g[left - 1], k, marks)]]
      BY <1>4, <3>1 DEF Follows
    <3>3. left # 0
      OBVIOUS
    <3> QED
      BY <3>2, <3>3
  <2> QED
    BY <2>1, <2>2
<1>7. Defines(g)
  BY <1>5, <1>6
<1>8. Defines(v)
  <2> HIDE DEF Defines
  <2> QED
    BY <1>7
<1>9. \A left \in 0..MaxDepth : v[left] = [k \in Key |-> [marks \in Marks |-> Value(v, left, k, marks)]]
  <2> HIDE DEF v
  <2> QED
    BY <1>8
<1>10. \A left \in 0..MaxDepth : v[left] = g[left]
  <2> HIDE DEF v
  <2> DEFINE S == {left \in 0..MaxDepth : v[left] = g[left]}
  <2>1. 0 \in S
    <3>1. /\ g[0] = [k \in Key |-> [marks \in Marks |-> Value(g, 0, k, marks)]]
          /\ v[0] = [k \in Key |-> [marks \in Marks |-> Value(v, 0, k, marks)]]
      BY <1>1, <1>6, <1>9
    <3> QED
      BY <1>1, <3>1
  <2>2. ASSUME NEW i \in 1..MaxDepth, i - 1 \in S PROVE i \in S
    <3>1. /\ g[i] = [k \in Key |-> [marks \in Marks |-> Value(g, i, k, marks)]]
          /\ v[i] = [k \in Key |-> [marks \in Marks |-> Value(v, i, k, marks)]]
      BY <1>1, <1>6, <1>9
    <3>2. v[i - 1] = g[i - 1] /\ i \in 0..MaxDepth
      BY <2>2
    <3> QED
      BY <3>1, <3>2
  <2>3. 0..MaxDepth \subseteq S
    <3> HIDE DEF S
    <3> QED
      BY <1>1, <2>1, <2>2, Inductive
  <2> QED
    BY <2>3
<1>11. v = g
  <2>1. v = [left \in 0..MaxDepth |-> v[left]]
    <3> HIDE DEF v
    <3> QED
      BY <1>8
  <2> HIDE DEF v
  <2> QED
    BY <1>5, <1>10, <2>1
<1>12. Visits(deps) = v
  BY DEF Visits
<1>13. ASSUME NEW left \in 0..MaxDepth, NEW k \in Key, NEW marks \in Marks
       PROVE  g[left][k][marks] = Value(g, left, k, marks)
  <2>1. g[left] = [j \in Key |-> [m \in Marks |-> Value(g, left, j, m)]]
    BY <1>6
  <2>2. g[left][k] = [m \in Marks |-> Value(g, left, k, m)]
    BY <2>1
  <2> QED
    BY <2>2
<1>14. Visits(deps) = g
  <2> HIDE DEF v
  <2> QED
    BY <1>11, <1>12
<1> QED
  BY <1>5, <1>13, <1>14

\* Packages below which there are no others, and no way to go round.
IsGrounded(deps, D) ==
    /\ D \subseteq DOMAIN deps
    /\ \A k \in D : deps[k] \subseteq D
    /\ \A T \in SUBSET D : T # {} => \E k \in T : deps[k] \cap T = {}

\* What is done is grounded, and apart from what is open.
Walked(deps, marks) ==
    /\ IsGrounded(deps, marks.done)
    /\ marks.open \cap marks.done = {}

\* What becomes of marks when all packages of S are entered.
Enters(deps, S, marks, result) ==
    /\ result.error # "MissingTransitiveDeclaration"
    /\ result.error = "none" =>
        /\ Walked(deps, result)
        /\ marks.done \cup S \subseteq result.done
        /\ result.open = marks.open

Sound(deps, enter) ==
    \A k \in DOMAIN deps, marks \in Marks :
        marks.error = "none" /\ Walked(deps, marks) => Enters(deps, {k}, marks, enter[k][marks])

\* A package that is left grounds the packages below it.
LEMMA GroundedGrows ==
    ASSUME NEW deps, NEW D, IsGrounded(deps, D), NEW k \in DOMAIN deps, k \notin D,
           deps[k] \subseteq D
    PROVE  IsGrounded(deps, D \cup {k})
<1>1. ASSUME NEW T \in SUBSET (D \cup {k}), T # {}
      PROVE  \E j \in T : deps[j] \cap T = {}
  <2>1. CASE T \subseteq {k}
    BY <1>1, <2>1
  <2>2. CASE ~(T \subseteq {k})
    <3>1. T \ {k} \in SUBSET D /\ T \ {k} # {}
      BY <2>2
    <3>2. PICK j \in T \ {k} : deps[j] \cap (T \ {k}) = {}
      BY <3>1 DEF IsGrounded
    <3>3. deps[j] \subseteq D
      BY <3>1, <3>2 DEF IsGrounded
    <3> QED
      BY <3>2, <3>3
  <2> QED
    BY <2>1, <2>2
<1> QED
  BY <1>1 DEF IsGrounded

\* If each visit keeps what is done grounded, so do visits one after the other.
LEMMA TurnsAreSound ==
    ASSUME NEW deps, IsGraph(deps), NEW enter \in [Key -> [Marks -> Marks]],
           Sound(deps, enter), NEW S \in SUBSET DOMAIN deps,
           NEW marks \in Marks, marks.error = "none", Walked(deps, marks)
    PROVE  Enters(deps, S, marks, InTurn(enter, InKeyOrder(S), marks))
<1>1. S \in SUBSET Key
  BY DEF IsGraph
<1>2. PICK n, keys, after : /\ Turns(enter, S, n, keys, after)
                            /\ after[0] = marks
                            /\ after[n] = InTurn(enter, InKeyOrder(S), marks)
  BY <1>1, TurnsOfKeys
<1>3. /\ n \in Nat /\ keys \in [1..n -> S] /\ after \in [0..n -> Marks]
      /\ \A k \in S : \E i \in 1..n : keys[i] = k
  BY <1>2 DEF Turns, Entered
<1> DEFINE I == {i \in 0..n : Enters(deps, {keys[j] : j \in 1..i}, marks, after[i])}
<1>4. 0 \in I
  <2>1. {keys[j] : j \in 1..0} = {}
    OBVIOUS
  <2>2. Enters(deps, {}, marks, marks)
    BY DEF Enters
  <2>3. Enters(deps, {keys[j] : j \in 1..0}, marks, after[0])
    BY <1>2, <2>1, <2>2
  <2>4. 0 \in 0..n
    BY <1>3
  <2> QED
    BY <2>3, <2>4
<1>5. ASSUME NEW i \in 1..n, i - 1 \in I PROVE i \in I
  <2> DEFINE K == {keys[j] : j \in 1..(i - 1)}
             L == {keys[j] : j \in 1..i}
  <2>1. Enters(deps, K, marks, after[i - 1]) /\ after[i - 1] \in Marks
    BY <1>3, <1>5
  <2>2. L = K \cup {keys[i]} /\ keys[i] \in DOMAIN deps
    <3>1. 1..i = 1..(i - 1) \cup {i}
      OBVIOUS
    <3> QED
      BY <1>3, <3>1
  <2>3. after[i] = IF after[i - 1].error # "none" THEN after[i - 1]
                   ELSE enter[keys[i]][after[i - 1]]
    BY <1>2 DEF Turns, Entered
  <2>4. Enters(deps, L, marks, after[i])
    <3> HIDE DEF K, L
    <3>1. CASE after[i - 1].error # "none"
      BY <2>1, <2>3, <3>1 DEF Enters
    <3>2. CASE after[i - 1].error = "none"
      <4>1. Walked(deps, after[i - 1])
        BY <2>1, <3>2 DEF Enters
      <4>2. Enters(deps, {keys[i]}, after[i - 1], after[i])
        BY <2>1, <2>2, <2>3, <3>2, <4>1 DEF Sound
      <4> QED
        BY <2>1, <2>2, <3>2, <4>2 DEF Enters
    <3> QED
      BY <3>1, <3>2
  <2> QED
    BY <2>4
<1>6. n \in I
  <2>1. 0..n \subseteq I
    <3> HIDE DEF I
    <3> QED
      BY ONLY <1>3, <1>4, <1>5, Inductive
  <2> QED
    BY <1>3, <2>1
<1>7. S \subseteq {keys[j] : j \in 1..n}
  BY <1>3
<1> QED
  BY <1>2, <1>6, <1>7 DEF Enters

\* A visit keeps it if the visits below do: the package is done when they are.
LEMMA VisitIsSound ==
    ASSUME NEW deps, IsGraph(deps), NEW enter \in [Key -> [Marks -> Marks]],
           Sound(deps, enter), NEW k \in DOMAIN deps,
           NEW marks \in Marks, marks.error = "none", Walked(deps, marks)
    PROVE  Enters(deps, {k}, marks, Visit(deps, enter, k, marks))
<1> DEFINE opened == [marks EXCEPT !.open = @ \cup {k}]
           below == InTurn(enter, InKeyOrder(deps[k]), opened)
           left == [below EXCEPT !.open = @ \ {k}, !.done = @ \cup {k}]
<1>1. CASE k \in marks.open
  BY <1>1 DEF Visit, Enters, Marks
<1>2. CASE k \notin marks.open /\ k \in marks.done
  BY <1>2 DEF Visit, Enters
<1>3. CASE k \notin marks.open /\ k \notin marks.done
  <2>1. k \in Key /\ deps[k] \in SUBSET Key /\ deps[k] \in SUBSET DOMAIN deps
    BY DEF IsGraph
  <2>2. /\ opened \in Marks /\ opened.error = "none"
        /\ opened.open = marks.open \cup {k} /\ opened.done = marks.done
    BY <2>1 DEF Marks
  <2>3. Walked(deps, opened)
    BY <1>3, <2>2 DEF Walked
  <2> HIDE DEF opened
  <2>4. Enters(deps, deps[k], opened, below) /\ below \in Marks
    BY <2>1, <2>2, <2>3, TurnsAreSound, TurnsOfKeys
  <2>5. Visit(deps, enter, k, marks) = IF below.error # "none" THEN below ELSE left
    BY <1>3 DEF Visit, opened
  <2> HIDE DEF below
  <2>6. CASE below.error # "none"
    BY <2>4, <2>5, <2>6 DEF Enters
  <2>7. CASE below.error = "none"
    <3>1. /\ Walked(deps, below) /\ marks.done \cup deps[k] \subseteq below.done
          /\ below.open = marks.open \cup {k}
      BY <2>2, <2>4, <2>7 DEF Enters
    <3>2. left.error = "none" /\ left.done = below.done \cup {k} /\ left.open = below.open \ {k}
      BY <2>4, <2>7 DEF Marks
    <3>3. IsGrounded(deps, below.done \cup {k})
      BY <3>1, GroundedGrows DEF Walked
    <3>4. left.open = marks.open /\ left.open \cap left.done = {}
      BY <1>3, <3>1, <3>2 DEF Walked
    <3> HIDE DEF left
    <3> QED
      BY <2>5, <2>7, <3>1, <3>2, <3>3, <3>4 DEF Enters, Walked
  <2> QED
    BY <2>6, <2>7
<1> QED
  BY <1>1, <1>2, <1>3

\* The walk ends without an error, or with one that validate_cycles_and_depth
\* has for graphs; without one there is no way to go round in the graph.
LEMMA WalkIsSound ==
    ASSUME NEW deps, IsGraph(deps)
    PROVE  /\ Walk(deps).error \in {"none", "GraphTooDeep", "DependencyCycle"}
           /\ Walk(deps).error = "none" => IsGrounded(deps, DOMAIN deps)
<1>1. MaxDepth \in Nat
  BY LockAssumption
<1>2. /\ Visits(deps) \in [0..MaxDepth -> [Key -> [Marks -> Marks]]]
      /\ \A left \in 0..MaxDepth, k \in Key, marks \in Marks :
            Visits(deps)[left][k][marks] =
                IF left = 0 THEN [marks EXCEPT !.error = "GraphTooDeep"]
                ELSE Visit(deps, Visits(deps)[left - 1], k, marks)
  BY VisitsByLevel
<1>3. DOMAIN deps \subseteq Key
  BY DEF IsGraph
<1> DEFINE I == {left \in 0..MaxDepth : Sound(deps, Visits(deps)[left])}
<1>4. 0 \in I
  <2>1. ASSUME NEW k \in DOMAIN deps, NEW marks \in Marks
        PROVE  Enters(deps, {k}, marks, Visits(deps)[0][k][marks])
    <3>1. Visits(deps)[0][k][marks] = [marks EXCEPT !.error = "GraphTooDeep"]
      BY <1>1, <1>2, <1>3
    <3>2. [marks EXCEPT !.error = "GraphTooDeep"].error = "GraphTooDeep"
      BY DEF Marks
    <3> QED
      BY <3>1, <3>2 DEF Enters
  <2>2. Sound(deps, Visits(deps)[0])
    BY <2>1 DEF Sound
  <2>3. 0 \in 0..MaxDepth
    BY <1>1
  <2> QED
    BY <2>2, <2>3
<1>5. ASSUME NEW left \in 1..MaxDepth, left - 1 \in I PROVE left \in I
  <2>1. Visits(deps)[left - 1] \in [Key -> [Marks -> Marks]] /\ Sound(deps, Visits(deps)[left - 1])
    BY <1>2, <1>5
  <2>2. ASSUME NEW k \in DOMAIN deps, NEW marks \in Marks, marks.error = "none",
               Walked(deps, marks)
        PROVE  Enters(deps, {k}, marks, Visits(deps)[left][k][marks])
    <3>1. Visits(deps)[left][k][marks] = Visit(deps, Visits(deps)[left - 1], k, marks)
      <4>1. left \in 0..MaxDepth /\ left # 0 /\ k \in Key
        BY <1>1, <1>3
      <4> QED
        BY <1>2, <4>1
    <3> QED
      BY <2>1, <2>2, <3>1, VisitIsSound
  <2> QED
    BY <2>2 DEF Sound
<1>6. Sound(deps, Visits(deps)[MaxDepth])
  <2>1. MaxDepth \in I
    <3> HIDE DEF I
    <3> QED
      BY <1>1, <1>4, <1>5, Inductive
  <2> QED
    BY <2>1
<1>7. Unmarked \in Marks /\ Unmarked.error = "none" /\ Unmarked.done = {} /\ Unmarked.open = {}
  BY DEF Unmarked, Marks, WalkErrors
<1>8. Walked(deps, Unmarked)
  BY <1>7 DEF Walked, IsGrounded
<1>9. Visits(deps)[MaxDepth] \in [Key -> [Marks -> Marks]]
  BY <1>1, <1>2
<1>10. Enters(deps, DOMAIN deps, Unmarked, Walk(deps))
  BY <1>6, <1>7, <1>8, <1>9, TurnsAreSound DEF Walk
<1>11. Walk(deps) \in Marks
  BY <1>3, <1>7, <1>9, TurnsOfKeys DEF Walk
<1>12. Walk(deps).error \in WalkErrors
  BY <1>11 DEF Marks
<1>13. Walk(deps).error = "none" => Walk(deps).done = DOMAIN deps /\ IsGrounded(deps, Walk(deps).done)
  BY <1>10 DEF Enters, Walked, IsGrounded
<1> QED
  BY <1>10, <1>12, <1>13 DEF Enters, WalkErrors

-----------------------------------------------------------------------------
(* Declarations.                                                           *)

Entry(parent, s, i) ==
    [key |-> s[i].key, source |-> s[i].source, origin |-> <<parent, i>>]
Entries(parent, s) == {Entry(parent, s, i) : i \in DOMAIN s}
Req(r) == [key |-> r.key, source |-> r.source]

\* What a sequence has does not change when it is reversed.
LEMMA ReverseKeeps ==
    ASSUME NEW S, NEW s \in Seq(S)
    PROVE  /\ Reverse(s) \in Seq(S) /\ Range(Reverse(s)) = Range(s)
           /\ \A i \in DOMAIN Reverse(s) :
                 Len(s) - i + 1 \in DOMAIN s /\ Reverse(s)[i] = s[Len(s) - i + 1]
<1> DEFINE n == Len(s)
<1>1. n \in Nat /\ DOMAIN s = 1..n
  OBVIOUS
<1>2. \A i \in 1..n : n - i + 1 \in 1..n
  BY <1>1
<1>3. Reverse(s) = [i \in 1..n |-> s[n - i + 1]]
  BY DEF Reverse
<1>4. Reverse(s) \in Seq(S) /\ DOMAIN Reverse(s) = 1..n
  BY <1>1, <1>2, <1>3
<1>5. \A i \in 1..n : Reverse(s)[n - i + 1] = s[i]
  BY <1>1, <1>2, <1>3
<1> HIDE DEF n
<1>6. Range(Reverse(s)) = Range(s)
  <2> DEFINE r == Reverse(s)
  <2>1. \A i \in 1..n : r[i] = s[n - i + 1] /\ r[n - i + 1] = s[i]
    BY <1>2, <1>3, <1>5
  <2>2. DOMAIN r = 1..n
    BY <1>4
  <2> HIDE DEF r
  <2>3. ASSUME NEW i \in 1..n PROVE r[i] \in Range(s) /\ s[i] \in Range(r)
    BY <1>1, <1>2, <2>1, <2>2 DEF Range
  <2>4. \A x \in Range(r) : \E i \in 1..n : x = r[i]
    BY <2>2 DEF Range
  <2>5. \A x \in Range(s) : \E i \in 1..n : x = s[i]
    BY <1>1 DEF Range
  <2>6. Range(r) \subseteq Range(s) /\ Range(s) \subseteq Range(r)
    BY <2>3, <2>4, <2>5
  <2>7. Range(r) = Range(s)
    BY <2>6
  <2> QED
    BY <2>7 DEF r
<1> QED
  BY <1>1, <1>2, <1>3, <1>4, <1>6 DEF n

\* The requirements of a declaration, each with its own origin.
LEMMA DeclaredEntries ==
    ASSUME NEW parent, NEW s, IsDeclaration(s)
    PROVE  /\ Declared(parent, s) \in Seq(Entries(parent, s))
           /\ Range(Declared(parent, s)) = Entries(parent, s)
           /\ \A i, j \in DOMAIN Declared(parent, s) :
                 i # j => Declared(parent, s)[i].origin # Declared(parent, s)[j].origin
<1> DEFINE t == [i \in DOMAIN s |-> Entry(parent, s, i)]
<1>1. Len(s) \in Nat /\ DOMAIN s = 1..Len(s)
  BY DEF IsDeclaration
<1>2. t \in Seq(Entries(parent, s)) /\ Range(t) = Entries(parent, s) /\ Len(t) = Len(s)
  BY <1>1 DEF Entries, Range
<1>3. Declared(parent, s) = Reverse(t)
  BY DEF Declared, Entry
<1>4. \A i \in DOMAIN t : t[i].origin = <<parent, i>>
  BY DEF Entry
<1> HIDE DEF t
<1>5. ASSUME NEW i \in DOMAIN Reverse(t), NEW j \in DOMAIN Reverse(t), i # j
      PROVE  Reverse(t)[i].origin # Reverse(t)[j].origin
  <2>1. DOMAIN Reverse(t) = 1..Len(t) /\ Len(t) \in Nat
    BY <1>2 DEF Reverse
  <2>2. Len(t) - i + 1 # Len(t) - j + 1
    BY <1>5, <2>1
  <2> QED
    BY <1>2, <1>4, <1>5, <2>2, ReverseKeeps
<1> QED
  BY <1>2, <1>3, <1>5, ReverseKeeps

\* A declared requirement is the pair of its key and its source.
LEMMA DeclarationPairs ==
    ASSUME NEW s, IsDeclaration(s), NEW i \in DOMAIN s
    PROVE  s[i].key \in Key /\ s[i] = [key |-> s[i].key, source |-> s[i].source]
<1> DEFINE T == {s[j].source : j \in DOMAIN s}
           S == [key : Key, source : T]
<1>1. s \in Seq(S)
  BY DEF IsDeclaration
<1> HIDE DEF S
<1>2. s[i] \in S
  BY <1>1
<1> HIDE DEF T
<1> QED
  BY <1>2 DEF S

\* A requirement is a key and a source, and a canonical URL does not change that.
LEMMA RootIsDeclaration ==
    ASSUME NEW root \in Roots
    PROVE  IsDeclaration(RootRequirements(root))
<1> DEFINE R == RootRequirements(root)
<1>1. root \in Seq([key : Key, source : {root[i].source : i \in DOMAIN root}])
  BY RootAssumption DEF IsDeclaration
<1>2. Len(root) \in Nat /\ DOMAIN root = 1..Len(root)
  BY <1>1
<1>3. DOMAIN R = DOMAIN root
  BY DEF RootRequirements
<1>4. ASSUME NEW i \in DOMAIN root
      PROVE  R[i] \in [key : Key, source : {R[j].source : j \in DOMAIN R}]
  <2>1. root[i].key \in Key /\ root[i] = [key |-> root[i].key, source |-> root[i].source]
    BY RootAssumption, DeclarationPairs
  <2>2. R[i] = (IF root[i].source.kind = "git"
                THEN [root[i] EXCEPT !.source.at = CanonicalUrl(@)] ELSE root[i])
    BY DEF RootRequirements
  <2> HIDE DEF R
  <2>3. R[i] = [key |-> R[i].key, source |-> R[i].source] /\ R[i].key \in Key
    BY <2>1, <2>2
  <2> QED
    BY <1>3, <2>3
<1>5. R = [i \in 1..Len(root) |-> R[i]]
  BY <1>2 DEF RootRequirements
<1> HIDE DEF R
<1>6. R \in Seq([key : Key, source : {R[j].source : j \in DOMAIN R}])
  BY <1>2, <1>4, <1>5
<1> QED
  BY <1>6 DEF IsDeclaration, R

-----------------------------------------------------------------------------
(* The question: what matches and what is needed while it is asked.        *)

RootEntries == Entries(RootOrigin, RootRequirements(request.root))
RootRequired == Range(RootRequirements(request.root))
AnyRequired == RootRequired \cup UNION {RequirementsOf(c) : c \in request.registry}
IsClosed(S) == \A q \in S : \A c \in Matching(q) : RequirementsOf(c) \subseteq S

\* What was asked is one of the requests there are.
QuestionIsTyped ==
    /\ request.root \in Roots
    /\ request.registry \in Registries
    /\ request.frozen \in BOOLEAN
    /\ request.locked \in BOOLEAN
    /\ request.locked => lock # NoLock
    /\ request.frozen => request.targets = {}

Solvable ==
    /\ \A r \in Needed : SelectionError(r) = "none"
    /\ \A r, q \in Needed : r.key = q.key => r = q

SelectionErrors ==
    {"MissingTransitiveDeclaration", "SourceValueConflict", "SourceKindConflict",
     "AmbiguousCandidate", "ToolchainCandidateConflict"}

\* What matches depends on the key and the source alone, and is of that key.
LEMMA MatchingOfPair ==
    ASSUME NEW r, NEW q, r.key = q.key, r.source = q.source
    PROVE  Matching(r) = Matching(q) /\ SelectionError(r) = SelectionError(q)
<1>1. Matching(r) = Matching(q)
  BY DEF Matching
<1> QED
  BY <1>1 DEF SelectionError

LEMMA MatchingFacts ==
    ASSUME NEW r
    PROVE  \A c \in Matching(r) :
              c \in request.registry /\ c.key = r.key /\ RequestMatches(r.source, c)
BY DEF Matching, Available

\* A requirement without an error has one candidate.
LEMMA SelectedIsUnique ==
    ASSUME QuestionIsTyped, NEW r
    PROVE  /\ SelectionError(r) \in SelectionErrors \cup {"none"}
           /\ SelectionError(r) = "none" =>
                /\ \A c \in Matching(r) : Matching(r) = {c}
                /\ Matching(r) # {}
<1>1. Matching(r) \subseteq request.registry /\ IsFiniteSet(request.registry)
  BY MatchingFacts, RegistryAssumption DEF QuestionIsTyped
<1>2. IsFiniteSet(Matching(r)) /\ Cardinality(Matching(r)) \in Nat
  BY <1>1, FS_Subset, FS_CardinalityType
<1>3. SelectionError(r) \in SelectionErrors \cup {"none"}
  BY DEF SelectionError, SelectionErrors
<1>4. ASSUME SelectionError(r) = "none"
      PROVE  Matching(r) # {} /\ ~(Cardinality(Matching(r)) > 1)
  <2>1. Matching(r) # {}
    BY <1>4 DEF SelectionError, Matching
  <2> QED
    BY <1>4, <2>1 DEF SelectionError
<1>5. ASSUME SelectionError(r) = "none", NEW c \in Matching(r)
      PROVE  Matching(r) = {c}
  <2>1. Cardinality(Matching(r)) = 1
    BY <1>2, <1>4, <1>5, FS_EmptySet
  <2> QED
    BY <1>2, <1>5, <2>1, FS_Singleton
<1> QED
  BY <1>3, <1>4, <1>5

\* The same question of any registry with any pins.
PinnedBy(pins, c) == \A p \in pins : p.key = c.key => CandidateMatchesLock(c, p)
MatchingBy(registry, pins, r) ==
    {c \in registry : c.key = r.key /\ RequestMatches(r.source, c) /\ PinnedBy(pins, c)}
AnyRequiredBy(root, registry) ==
    Range(RootRequirements(root)) \cup UNION {RequirementsOf(c) : c \in registry}
IsClosedBy(registry, pins, S) ==
    \A q \in S : \A c \in MatchingBy(registry, pins, q) : RequirementsOf(c) \subseteq S
NeededBy(root, registry, pins) ==
    {r \in AnyRequiredBy(root, registry) : \A S \in SUBSET AnyRequiredBy(root, registry) :
        Range(RootRequirements(root)) \subseteq S /\ IsClosedBy(registry, pins, S) => r \in S}

Pins == {p \in ActivePackages : p.key \notin request.targets}

\* What is needed is the least closed set with what the root requires.
LEMMA NeededByIsLeast ==
    ASSUME NEW root, NEW registry, NEW pins
    PROVE  LET N == NeededBy(root, registry, pins)
           IN  /\ Range(RootRequirements(root)) \subseteq N
               /\ N \subseteq AnyRequiredBy(root, registry)
               /\ IsClosedBy(registry, pins, N)
               /\ \A S \in SUBSET AnyRequiredBy(root, registry) :
                     Range(RootRequirements(root)) \subseteq S /\ IsClosedBy(registry, pins, S)
                        => N \subseteq S
<1> DEFINE N == NeededBy(root, registry, pins)
           All == AnyRequiredBy(root, registry)
           R == Range(RootRequirements(root))
<1>1. N = {r \in All : \A S \in SUBSET All :
                   R \subseteq S /\ IsClosedBy(registry, pins, S) => r \in S}
  BY DEF NeededBy
<1>2. ASSUME NEW q \in N, NEW c \in MatchingBy(registry, pins, q), NEW d \in RequirementsOf(c)
      PROVE  d \in N
  <2>1. d \in All
    BY <1>2 DEF AnyRequiredBy, MatchingBy
  <2>2. ASSUME NEW S \in SUBSET All, R \subseteq S, IsClosedBy(registry, pins, S)
        PROVE  d \in S
    <3>1. q \in S
      BY <1>1, <1>2, <2>2
    <3> QED
      BY <1>2, <2>2, <3>1 DEF IsClosedBy
  <2> QED
    BY <1>1, <2>1, <2>2
<1>3. R \subseteq All
  BY DEF AnyRequiredBy
<1> QED
  BY <1>1, <1>2, <1>3 DEF IsClosedBy

LEMMA QuestionIsOfPins ==
    /\ \A r : Matching(r) = MatchingBy(request.registry, Pins, r)
    /\ Needed = NeededBy(request.root, request.registry, Pins)
    /\ AnyRequired = AnyRequiredBy(request.root, request.registry)
    /\ \A S : IsClosed(S) = IsClosedBy(request.registry, Pins, S)
<1>1. \A c : Pinned(c) <=> PinnedBy(Pins, c)
  BY DEF Pinned, PinnedBy, Pins
<1>2. \A r : Matching(r) = MatchingBy(request.registry, Pins, r)
  BY <1>1 DEF Matching, MatchingBy, Available
<1>3. AnyRequired = AnyRequiredBy(request.root, request.registry)
  BY DEF AnyRequired, AnyRequiredBy, RootRequired
<1>4. \A S : IsClosed(S) = IsClosedBy(request.registry, Pins, S)
  BY <1>2 DEF IsClosed, IsClosedBy
<1>5. Needed = {r \in AnyRequired : \A S \in SUBSET AnyRequired :
                   RootRequired \subseteq S /\ IsClosed(S) => r \in S}
  BY DEF Needed, AnyRequired, RootRequired, IsClosed
<1>6. Needed = NeededBy(request.root, request.registry, Pins)
  BY <1>3, <1>4, <1>5 DEF NeededBy, RootRequired
<1> QED
  BY <1>2, <1>3, <1>4, <1>6

LEMMA NeededIsLeast ==
    /\ RootRequired \subseteq Needed
    /\ Needed \subseteq AnyRequired
    /\ IsClosed(Needed)
    /\ \A S \in SUBSET AnyRequired : RootRequired \subseteq S /\ IsClosed(S) => Needed \subseteq S
BY QuestionIsOfPins, NeededByIsLeast DEF RootRequired

\* A step that leaves the lock and the request alone asks the same question.
LEMMA SameQuestion ==
    ASSUME lock' = lock, request' = request
    PROVE  /\ Needed' = Needed
           /\ Solvable' = Solvable
           /\ QuestionIsTyped' = QuestionIsTyped
           /\ RootEntries' = RootEntries
           /\ \A r : Matching(r)' = Matching(r) /\ SelectionError(r)' = SelectionError(r)
<1>1. ActivePackages' = ActivePackages
  BY DEF ActivePackages
<1>2. \A r : Matching(r)' = Matching(r)
  BY <1>1 DEF Matching, Available, Pinned
<1>3. \A r : SelectionError(r)' = SelectionError(r)
  BY <1>2 DEF SelectionError, Available
<1>4. Needed' = Needed
  BY <1>2 DEF Needed
<1>5. Solvable' = Solvable
  BY <1>3, <1>4 DEF Solvable
<1> QED
  BY <1>2, <1>3, <1>4, <1>5 DEF QuestionIsTyped, RootEntries

-----------------------------------------------------------------------------
(* The traversal.                                                          *)

DeclaredBy(k) ==
    IF k = RootOrigin THEN RootEntries ELSE Entries(k, selected[k].candidate.deps)

\* Whose requirements have been put into a batch, and these requirements.
Expanded == {RootOrigin} \cup (SelectedKeys \ Range(queue))
Taken == UNION {DeclaredBy(k) : k \in Expanded}
Winners == {selected[k].winner : k \in SelectedKeys}
OriginsMet == Winners \cup shadows

IsMet(r) ==
    /\ r.key \in SelectedKeys
    /\ RequestMatches(r.source, selected[r.key].candidate)
    /\ r.origin \in OriginsMet

BatchIsNew ==
    /\ batch \in Seq(Taken)
    /\ \A i \in DOMAIN batch : batch[i].origin \notin OriginsMet
    /\ \A i, j \in DOMAIN batch : i # j => batch[i].origin # batch[j].origin

QueueIsSelected ==
    /\ queue \in Seq(SelectedKeys)
    /\ \A i, j \in DOMAIN queue : i # j => queue[i] # queue[j]

TakenIsNeeded == \A r \in Taken : Req(r) \in Needed

\* Every package was selected for a requirement that only it can meet.
SelectedIsForced ==
    \A k \in SelectedKeys : \E r \in Taken :
        /\ r.key = k /\ r.origin = selected[k].winner
        /\ SelectionError(r) = "none" /\ Matching(r) = {selected[k].candidate}

TakenIsMet == \A r \in Taken : r \in Range(batch) \/ IsMet(r)
ShadowsAreTaken == shadows \subseteq {r.origin : r \in Taken}
WinnersAreNotShadows == Winners \cap shadows = {}

Traversal ==
    /\ QuestionIsTyped
    /\ BatchIsNew
    /\ QueueIsSelected
    /\ TakenIsNeeded
    /\ SelectedIsForced
    /\ TakenIsMet
    /\ ShadowsAreTaken
    /\ WinnersAreNotShadows

\* The outcome is what was found of the question or of the whole graph.
OutcomeIsEarned ==
    \/ outcome \in SelectionErrors /\ ~Solvable
    \/ outcome = "ActiveLockRequired" /\ request.frozen /\ ~request.locked
    \/ outcome = "ActiveLockMismatch" /\ request.locked /\ lock.root # request.root
    \/ /\ batch = <<>> /\ queue = <<>>
       /\ \/ CycleOrDepthError \in {"DependencyCycle", "GraphTooDeep"}
             /\ outcome = CycleOrDepthError
          \/ /\ CycleOrDepthError = "none"
             /\ outcome = IF ModeError # "none" THEN ModeError ELSE "resolved"

ResolutionInv ==
    /\ phase \in {"idle", "select", "done", "fetched"}
    /\ phase = "idle" => selected = <<>> /\ queue = <<>> /\ shadows = {}
    /\ phase # "idle" => Traversal
    /\ phase = "select" /\ request.locked => lock.root = request.root
    /\ phase = "select" => ~(request.frozen /\ ~request.locked)
    /\ phase \in {"done", "fetched"} => OutcomeIsEarned
    /\ phase = "fetched" => outcome = "resolved"

\* No selected package is the root, and what is taken names packages.
LEMMA KeysOfTraversal ==
    ASSUME Traversal
    PROVE  /\ \A r \in Taken : r.key \in Key /\ r = [key |-> r.key, source |-> r.source, origin |-> r.origin]
           /\ SelectedKeys \subseteq Key
           /\ RootOrigin \notin SelectedKeys
           /\ \A k \in SelectedKeys :
                 /\ selected[k].candidate \in request.registry
                 /\ selected[k].candidate.key = k
                 /\ IsDeclaration(selected[k].candidate.deps)
           /\ \A k \in {RootOrigin} \cup SelectedKeys : \A r \in DeclaredBy(k) : \E i : r.origin = <<k, i>>
<1>1. ASSUME NEW k \in SelectedKeys
      PROVE  /\ selected[k].candidate \in request.registry
             /\ selected[k].candidate.key = k
             /\ IsDeclaration(selected[k].candidate.deps)
  <2>1. PICK r \in Taken : r.key = k /\ Matching(r) = {selected[k].candidate}
    BY DEF Traversal, SelectedIsForced
  <2>2. selected[k].candidate \in request.registry /\ selected[k].candidate.key = k
    BY <2>1, MatchingFacts
  <2> QED
    BY <2>2, RegistryAssumption DEF Traversal, QuestionIsTyped
<1>2. IsDeclaration(RootRequirements(request.root))
  BY RootIsDeclaration DEF Traversal, QuestionIsTyped
<1>3. ASSUME NEW r \in Taken
      PROVE  r.key \in Key /\ r = [key |-> r.key, source |-> r.source, origin |-> r.origin]
  <2>1. PICK k \in Expanded : r \in DeclaredBy(k)
    BY DEF Taken
  <2>2. PICK s : IsDeclaration(s) /\ r \in Entries(k, s)
    BY <1>1, <1>2, <2>1 DEF DeclaredBy, RootEntries, Expanded
  <2>3. PICK i \in DOMAIN s : r = Entry(k, s, i)
    BY <2>2 DEF Entries
  <2> QED
    BY <2>2, <2>3, DeclarationPairs DEF Entry
<1>4. SelectedKeys \subseteq Key
  BY <1>3 DEF Traversal, SelectedIsForced
<1>5. ASSUME NEW k \in {RootOrigin} \cup SelectedKeys, NEW r \in DeclaredBy(k)
      PROVE  \E i : r.origin = <<k, i>>
  <2>1. PICK s : r \in Entries(k, s)
    BY <1>5 DEF DeclaredBy, RootEntries
  <2>2. PICK i \in DOMAIN s : r = Entry(k, s, i)
    BY <2>1 DEF Entries
  <2> QED
    BY <2>2 DEF Entry
<1> QED
  BY <1>1, <1>3, <1>4, <1>5, RootAssumption

\* The requirements of the entries of a declaration.
LEMMA RequirementsOfEntries ==
    ASSUME NEW parent, NEW s, IsDeclaration(s)
    PROVE  {Req(r) : r \in Entries(parent, s)} = Range(s)
<1>1. \A i \in DOMAIN s : Req(Entry(parent, s, i)) = s[i]
  BY DeclarationPairs DEF Req, Entry
<1>2. \A r \in Entries(parent, s) : Req(r) \in Range(s)
  BY <1>1 DEF Entries, Range
<1>3. \A d \in Range(s) : \E r \in Entries(parent, s) : d = Req(r)
  BY <1>1 DEF Entries, Range
<1> QED
  BY <1>2, <1>3

\* Two requirements of a key are met by one candidate only if they are the same.
LEMMA MetAlike ==
    ASSUME Traversal, NEW r \in Taken, r.key \in SelectedKeys,
           RequestMatches(r.source, selected[r.key].candidate)
    PROVE  Matching(r) = {selected[r.key].candidate} /\ SelectionError(r) = "none"
<1>1. PICK w \in Taken :
        /\ w.key = r.key
        /\ SelectionError(w) = "none" /\ Matching(w) = {selected[r.key].candidate}
  BY DEF Traversal, SelectedIsForced
<1>2. RequestMatches(w.source, selected[r.key].candidate)
  BY <1>1, MatchingFacts
<1>3. w.source = r.source
  BY <1>2 DEF RequestMatches
<1> QED
  BY <1>1, <1>3, MatchingOfPair

\* When nothing is left to take, what was taken is what is needed.
LEMMA TakenIsAll ==
    ASSUME Traversal, batch = <<>>, queue = <<>>
    PROVE  /\ Needed = {Req(r) : r \in Taken}
           /\ \A r \in Taken : IsMet(r) /\ Matching(r) = {selected[r.key].candidate}
           /\ Solvable
           /\ Graph = UNION {Matching(r) : r \in Needed}
           /\ OriginsMet = {r.origin : r \in Taken}
<1> DEFINE S == {Req(r) : r \in Taken}
<1>1. Expanded = {RootOrigin} \cup SelectedKeys
  BY DEF Expanded, Range
<1>2. \A r \in Taken : IsMet(r)
  BY DEF Traversal, TakenIsMet, Range
<1>3. \A r \in Taken : Matching(r) = {selected[r.key].candidate} /\ SelectionError(r) = "none"
  BY <1>2, MetAlike DEF IsMet
<1>4. \A r \in Taken : /\ Req(r).key = r.key /\ Req(r).source = r.source
                        /\ Matching(Req(r)) = Matching(r)
                        /\ SelectionError(Req(r)) = SelectionError(r)
  BY MatchingOfPair DEF Req
<1>5. S \subseteq Needed
  BY DEF Traversal, TakenIsNeeded
<1>6. RootRequired \subseteq S
  <2>1. IsDeclaration(RootRequirements(request.root))
    BY RootIsDeclaration DEF Traversal, QuestionIsTyped
  <2>2. RootEntries \subseteq Taken
    BY DEF Taken, Expanded, DeclaredBy
  <2>3. {Req(r) : r \in RootEntries} = RootRequired
    BY <2>1, RequirementsOfEntries DEF RootEntries, RootRequired
  <2> QED
    BY <2>2, <2>3
<1>7. IsClosed(S)
  <2> SUFFICES ASSUME NEW q \in S, NEW c \in Matching(q)
               PROVE  RequirementsOf(c) \subseteq S
    BY DEF IsClosed
  <2>1. PICK r \in Taken : q = Req(r)
    OBVIOUS
  <2>2. r.key \in SelectedKeys /\ c = selected[r.key].candidate
    BY <1>2, <1>3, <1>4, <2>1 DEF IsMet
  <2>3. DeclaredBy(r.key) \subseteq Taken
    BY <1>1, <2>2 DEF Taken
  <2>4. DeclaredBy(r.key) = Entries(r.key, c.deps) /\ IsDeclaration(c.deps)
    BY <2>2, KeysOfTraversal DEF DeclaredBy
  <2>5. {Req(e) : e \in Entries(r.key, c.deps)} = RequirementsOf(c)
    BY <2>4, RequirementsOfEntries DEF RequirementsOf
  <2> QED
    BY <2>3, <2>4, <2>5
<1>8. Needed = S
  BY <1>5, <1>6, <1>7, NeededIsLeast
<1>9. Solvable
  <2>1. \A q \in Needed : SelectionError(q) = "none"
    BY <1>3, <1>4, <1>8
  <2>2. ASSUME NEW r \in Taken, NEW q \in Taken, r.key = q.key
        PROVE  Req(r) = Req(q)
    BY <1>2, <2>2 DEF IsMet, RequestMatches, Req
  <2> QED
    BY <1>4, <1>8, <2>1, <2>2 DEF Solvable
<1>10. Graph = UNION {Matching(r) : r \in Needed}
  <2>1. ASSUME NEW k \in SelectedKeys
        PROVE  \E q \in Needed : Matching(q) = {selected[k].candidate}
    <3>1. PICK r \in Taken : Matching(r) = {selected[k].candidate}
      BY DEF Traversal, SelectedIsForced
    <3> QED
      BY <1>4, <1>8, <3>1
  <2>2. \A q \in Needed : \E k \in SelectedKeys : Matching(q) = {selected[k].candidate}
    BY <1>2, <1>3, <1>4, <1>8 DEF IsMet
  <2>3. Graph \subseteq UNION {Matching(r) : r \in Needed}
    BY <2>1 DEF Graph
  <2>4. UNION {Matching(r) : r \in Needed} \subseteq Graph
    BY <2>2 DEF Graph
  <2> QED
    BY <2>3, <2>4
<1>11. OriginsMet = {r.origin : r \in Taken}
  <2>1. Winners \subseteq {r.origin : r \in Taken}
    BY DEF Traversal, SelectedIsForced, Winners
  <2>2. {r.origin : r \in Taken} \subseteq OriginsMet
    BY <1>2 DEF IsMet
  <2> QED
    BY <2>1, <2>2 DEF Traversal, ShadowsAreTaken, OriginsMet
<1> QED
  BY <1>2, <1>3, <1>8, <1>9, <1>10, <1>11

\* When nothing is left to take, the packages below a selected one are selected.
LEMMA SelectedIsGraph ==
    ASSUME Traversal, batch = <<>>, queue = <<>>
    PROVE  IsGraph(SelectedDeps)
<1>1. SelectedKeys \subseteq Key
  BY KeysOfTraversal
<1>2. DOMAIN SelectedDeps = SelectedKeys
  BY DEF SelectedDeps
<1>3. ASSUME NEW k \in SelectedKeys PROVE SelectedDeps[k] \subseteq SelectedKeys
  <2> DEFINE deps == selected[k].candidate.deps
  <2>1. SelectedDeps[k] = DependencyKeys(selected[k].candidate)
    BY DEF SelectedDeps
  <2>2. k # RootOrigin /\ DeclaredBy(k) = Entries(k, deps)
    BY KeysOfTraversal DEF DeclaredBy
  <2>3. Expanded = {RootOrigin} \cup SelectedKeys
    BY DEF Expanded, Range
  <2>4. \A r \in Entries(k, deps) : r.key \in SelectedKeys
    BY <2>2, <2>3, TakenIsAll DEF Taken, IsMet
  <2> HIDE DEF deps
  <2>5. \A i \in DOMAIN deps : Entry(k, deps, i).key = deps[i].key
    BY DEF Entry
  <2>6. \A i \in DOMAIN deps : deps[i].key \in SelectedKeys
    BY <2>4, <2>5 DEF Entries
  <2> QED
    BY <2>1, <2>6 DEF DependencyKeys, Range, deps
<1> QED
  BY <1>1, <1>2, <1>3 DEF IsGraph

-----------------------------------------------------------------------------
(* The steps of a traversal.                                               *)

\* A request begins with what the root declares.
LEMMA RequestTraverses ==
    ASSUME NEW root \in Roots, NEW registry \in Registries,
           NEW frozen \in BOOLEAN, NEW targets, NEW locked \in BOOLEAN,
           Request(root, registry, frozen, targets, locked),
           selected = <<>>, queue = <<>>, shadows = {}
    PROVE  Traversal'
<1>1. /\ request' = [root |-> root, registry |-> registry, frozen |-> frozen,
                     targets |-> targets, locked |-> locked]
      /\ batch' = Declared(RootOrigin, RootRequirements(root))
      /\ lock' = lock /\ queue' = <<>> /\ selected' = <<>> /\ shadows' = {}
      /\ locked => lock # NoLock
      /\ frozen => targets = {}
  BY DEF Request
<1>2. SelectedKeys' = {} /\ OriginsMet' = {} /\ Winners' = {} /\ Range(queue)' = {}
  BY <1>1 DEF SelectedKeys, OriginsMet, Winners, Range
<1>3. RootEntries' = Entries(RootOrigin, RootRequirements(root))
  BY <1>1 DEF RootEntries
<1>4. Taken' = RootEntries'
  BY <1>2 DEF Taken, Expanded, DeclaredBy
<1>5. IsDeclaration(RootRequirements(root))
  BY RootIsDeclaration
<1>6. QuestionIsTyped'
  BY <1>1 DEF QuestionIsTyped
<1>7. BatchIsNew'
  BY <1>1, <1>2, <1>3, <1>4, <1>5, DeclaredEntries DEF BatchIsNew
<1>8. QueueIsSelected'
  BY <1>1 DEF QueueIsSelected
<1>9. TakenIsNeeded'
  <2>1. (RootRequired \subseteq Needed)'
    BY NeededIsLeast, PTL
  <2>2. RootRequired' = Range(RootRequirements(root))
    BY <1>1 DEF RootRequired
  <2>3. {Req(r) : r \in Taken'} = RootRequired'
    BY <1>3, <1>4, <1>5, <2>2, RequirementsOfEntries
  <2> QED
    BY <2>1, <2>3 DEF TakenIsNeeded
<1>10. SelectedIsForced' /\ ShadowsAreTaken' /\ WinnersAreNotShadows'
  BY <1>1, <1>2 DEF SelectedIsForced, ShadowsAreTaken, WinnersAreNotShadows
<1>11. TakenIsMet'
  BY <1>1, <1>3, <1>4, <1>5, DeclaredEntries DEF TakenIsMet
<1> QED
  BY <1>6, <1>7, <1>8, <1>9, <1>10, <1>11 DEF Traversal

\* The rest of the batch, without its head.
LEMMA BatchTail ==
    ASSUME BatchIsNew, batch # <<>>
    PROVE  /\ Head(batch) \in Taken
           /\ Head(batch).origin \notin OriginsMet
           /\ Tail(batch) \in Seq(Taken)
           /\ \A r \in Range(batch) : r = Head(batch) \/ r \in Range(Tail(batch))
           /\ \A i \in DOMAIN Tail(batch) :
                 /\ Tail(batch)[i].origin \notin OriginsMet
                 /\ Tail(batch)[i].origin # Head(batch).origin
           /\ \A i, j \in DOMAIN Tail(batch) :
                 i # j => Tail(batch)[i].origin # Tail(batch)[j].origin
<1>1. batch \in Seq(Taken) /\ Len(batch) \in Nat \ {0} /\ DOMAIN batch = 1..Len(batch)
  BY DEF BatchIsNew
<1>2. Head(batch) = batch[1] /\ Head(batch) \in Taken
  BY <1>1
<1>3. /\ Tail(batch) \in Seq(Taken) /\ DOMAIN Tail(batch) = 1..(Len(batch) - 1)
      /\ \A i \in 1..(Len(batch) - 1) : Tail(batch)[i] = batch[i + 1]
  BY <1>1
<1>4. ASSUME NEW r \in Range(batch) PROVE r = Head(batch) \/ r \in Range(Tail(batch))
  <2>1. PICK i \in 1..Len(batch) : r = batch[i]
    BY <1>1, <1>4 DEF Range
  <2>2. CASE i = 1
    BY <1>2, <2>1, <2>2
  <2>3. CASE i # 1
    <3>1. i - 1 \in 1..(Len(batch) - 1) /\ Tail(batch)[i - 1] = r
      BY <1>1, <1>3, <2>1, <2>3
    <3> QED
      BY <1>3, <3>1 DEF Range
  <2> QED
    BY <2>2, <2>3
<1>5. \A i \in DOMAIN Tail(batch) : i + 1 \in DOMAIN batch /\ i + 1 # 1 /\ 1 \in DOMAIN batch
  BY <1>1, <1>3
<1> QED
  BY <1>2, <1>3, <1>4, <1>5 DEF BatchIsNew

\* A requirement that is met already is shadowed.
LEMMA ShadowTraverses ==
    ASSUME Traversal, batch # <<>>,
           Head(batch).key \in SelectedKeys,
           RequestMatches(Head(batch).source, selected[Head(batch).key].candidate),
           batch' = Tail(batch), shadows' = shadows \cup {Head(batch).origin},
           UNCHANGED <<lock, request, queue, selected>>
    PROVE  Traversal'
<1>0. PICK r : r = Head(batch)
  OBVIOUS
<1>1. /\ r \in Taken /\ r.origin \notin OriginsMet
      /\ Tail(batch) \in Seq(Taken)
      /\ \A q \in Range(batch) : q = r \/ q \in Range(Tail(batch))
      /\ \A i \in DOMAIN Tail(batch) :
            Tail(batch)[i].origin \notin OriginsMet /\ Tail(batch)[i].origin # r.origin
      /\ \A i, j \in DOMAIN Tail(batch) : i # j => Tail(batch)[i].origin # Tail(batch)[j].origin
  BY <1>0, BatchTail DEF Traversal
<1>2. /\ Needed' = Needed /\ QuestionIsTyped' = QuestionIsTyped /\ RootEntries' = RootEntries
      /\ \A q : Matching(q)' = Matching(q) /\ SelectionError(q)' = SelectionError(q)
  BY SameQuestion
<1>3. Taken' = Taken /\ SelectedKeys' = SelectedKeys /\ Winners' = Winners
  BY <1>2 DEF Taken, Expanded, DeclaredBy, SelectedKeys, Winners
<1>4. OriginsMet' = OriginsMet \cup {r.origin}
  BY <1>0, <1>3 DEF OriginsMet
<1>5. QuestionIsTyped' /\ QueueIsSelected' /\ TakenIsNeeded'
  BY <1>2, <1>3 DEF Traversal, QueueIsSelected, TakenIsNeeded
<1>6. BatchIsNew'
  BY <1>1, <1>3, <1>4 DEF BatchIsNew
<1>7. SelectedIsForced'
  BY <1>2, <1>3 DEF Traversal, SelectedIsForced
<1>8. TakenIsMet'
  <2>1. ASSUME NEW q \in Taken, IsMet(q) PROVE IsMet(q)'
    BY <1>3, <1>4, <2>1 DEF IsMet
  <2>2. IsMet(r)'
    BY <1>0, <1>3, <1>4 DEF IsMet
  <2>3. ASSUME NEW q \in Taken PROVE q \in Range(Tail(batch)) \/ IsMet(q)'
    BY <1>1, <2>1, <2>2 DEF Traversal, TakenIsMet
  <2> QED
    BY <1>3, <2>3 DEF TakenIsMet
<1>9. ShadowsAreTaken'
  BY <1>1, <1>3 DEF Traversal, ShadowsAreTaken
<1>10. WinnersAreNotShadows'
  BY <1>0, <1>1, <1>3 DEF Traversal, WinnersAreNotShadows, OriginsMet
<1> QED
  BY <1>5, <1>6, <1>7, <1>8, <1>9, <1>10 DEF Traversal

\* A package that is selected comes from the one candidate there is.
LEMMA SelectTraverses ==
    ASSUME Traversal, batch # <<>>,
           Head(batch).key \notin SelectedKeys,
           SelectionError(Head(batch)) = "none",
           NEW c \in Matching(Head(batch)),
           selected' = [k \in SelectedKeys \cup {Head(batch).key} |->
                          IF k = Head(batch).key
                          THEN [candidate |-> c, winner |-> Head(batch).origin]
                          ELSE selected[k]],
           batch' = Tail(batch), queue' = Append(queue, Head(batch).key),
           UNCHANGED <<lock, request, shadows>>
    PROVE  Traversal'
<1>0. PICK r : r = Head(batch)
  OBVIOUS
<1>1. /\ r \in Taken /\ r.origin \notin OriginsMet
      /\ Tail(batch) \in Seq(Taken)
      /\ \A q \in Range(batch) : q = r \/ q \in Range(Tail(batch))
      /\ \A i \in DOMAIN Tail(batch) :
            Tail(batch)[i].origin \notin OriginsMet /\ Tail(batch)[i].origin # r.origin
      /\ \A i, j \in DOMAIN Tail(batch) : i # j => Tail(batch)[i].origin # Tail(batch)[j].origin
  BY <1>0, BatchTail DEF Traversal
<1>2. /\ Needed' = Needed /\ QuestionIsTyped' = QuestionIsTyped /\ RootEntries' = RootEntries
      /\ \A q : Matching(q)' = Matching(q) /\ SelectionError(q)' = SelectionError(q)
  BY SameQuestion
<1>3. Matching(r) = {c} /\ RequestMatches(r.source, c)
  BY <1>0, SelectedIsUnique, MatchingFacts DEF Traversal
<1>4. /\ SelectedKeys' = SelectedKeys \cup {r.key}
      /\ \A k \in SelectedKeys : selected'[k] = selected[k]
      /\ selected'[r.key] = [candidate |-> c, winner |-> r.origin]
  BY <1>0 DEF SelectedKeys
<1>5. queue \in Seq(SelectedKeys) /\ Len(queue) \in Nat
  BY DEF Traversal, QueueIsSelected
<1>6. /\ queue' \in Seq(SelectedKeys')
      /\ DOMAIN queue' = 1..(Len(queue) + 1)
      /\ \A i \in 1..Len(queue) : queue'[i] = queue[i] /\ queue[i] \in SelectedKeys
      /\ queue'[Len(queue) + 1] = r.key
  <2>1. queue \in Seq(SelectedKeys')
    BY <1>4, <1>5
  <2> QED
    BY <1>0, <1>4, <1>5, <2>1
<1>7. Range(queue') = Range(queue) \cup {r.key}
  <2>1. \A i \in DOMAIN queue' : queue'[i] \in Range(queue) \cup {r.key}
    BY <1>5, <1>6 DEF Range
  <2>2. \A i \in DOMAIN queue : queue[i] \in Range(queue')
    BY <1>5, <1>6 DEF Range
  <2>3. r.key \in Range(queue')
    BY <1>5, <1>6 DEF Range
  <2> QED
    BY <2>1, <2>2, <2>3 DEF Range
<1>8. Expanded' = Expanded
  BY <1>0, <1>4, <1>7 DEF Expanded
<1>9. Taken' = Taken
  <2>1. \A k \in Expanded : DeclaredBy(k)' = DeclaredBy(k)
    BY <1>2, <1>4 DEF DeclaredBy, Expanded
  <2> QED
    BY <1>8, <2>1 DEF Taken
<1>10. Winners' = Winners \cup {r.origin} /\ OriginsMet' = OriginsMet \cup {r.origin}
  <2>1. Winners' = Winners \cup {r.origin}
    BY <1>0, <1>4 DEF Winners
  <2> QED
    BY <2>1 DEF OriginsMet
<1>11. QuestionIsTyped' /\ TakenIsNeeded' /\ ShadowsAreTaken'
  BY <1>2, <1>9 DEF Traversal, TakenIsNeeded, ShadowsAreTaken
<1>12. BatchIsNew'
  BY <1>1, <1>9, <1>10 DEF BatchIsNew
<1>13. QueueIsSelected'
  BY <1>5, <1>6 DEF Traversal, QueueIsSelected
<1>14. SelectedIsForced'
  <2>1. ASSUME NEW k \in SelectedKeys
        PROVE  \E q \in Taken :
                  /\ q.key = k /\ q.origin = selected'[k].winner
                  /\ SelectionError(q) = "none" /\ Matching(q) = {selected'[k].candidate}
    BY <1>4 DEF Traversal, SelectedIsForced
  <2>2. /\ r.origin = selected'[r.key].winner /\ SelectionError(r) = "none"
        /\ Matching(r) = {selected'[r.key].candidate}
    BY <1>0, <1>3, <1>4
  <2>3. ASSUME NEW k \in SelectedKeys'
        PROVE  \E q \in Taken :
                  /\ q.key = k /\ q.origin = selected'[k].winner
                  /\ SelectionError(q) = "none" /\ Matching(q) = {selected'[k].candidate}
    <3>1. k \in SelectedKeys \/ k = r.key
      BY <1>4
    <3> QED
      BY <1>1, <2>1, <2>2, <3>1
  <2> QED
    BY <1>2, <1>9, <2>3 DEF SelectedIsForced
<1>15. TakenIsMet'
  <2>1. ASSUME NEW q \in Taken, IsMet(q) PROVE IsMet(q)'
    BY <1>4, <1>10, <2>1 DEF IsMet
  <2>2. IsMet(r)'
    BY <1>3, <1>4, <1>10 DEF IsMet
  <2>3. ASSUME NEW q \in Taken PROVE q \in Range(Tail(batch)) \/ IsMet(q)'
    BY <1>1, <2>1, <2>2 DEF Traversal, TakenIsMet
  <2> QED
    BY <1>9, <2>3 DEF TakenIsMet
<1>16. WinnersAreNotShadows'
  BY <1>1, <1>10 DEF Traversal, WinnersAreNotShadows, OriginsMet
<1> QED
  BY <1>11, <1>12, <1>13, <1>14, <1>15, <1>16 DEF Traversal

\* The rest of the queue, without its head.
LEMMA QueueTail ==
    ASSUME QueueIsSelected, queue # <<>>
    PROVE  /\ Head(queue) \in SelectedKeys
           /\ Tail(queue) \in Seq(SelectedKeys)
           /\ Range(queue) = Range(Tail(queue)) \cup {Head(queue)}
           /\ Head(queue) \notin Range(Tail(queue))
           /\ \A i, j \in DOMAIN Tail(queue) : i # j => Tail(queue)[i] # Tail(queue)[j]
<1>1. /\ queue \in Seq(SelectedKeys) /\ Len(queue) \in Nat \ {0}
      /\ DOMAIN queue = 1..Len(queue)
  BY DEF QueueIsSelected
<1>2. Head(queue) = queue[1] /\ Head(queue) \in SelectedKeys
  BY <1>1
<1>3. /\ Tail(queue) \in Seq(SelectedKeys) /\ DOMAIN Tail(queue) = 1..(Len(queue) - 1)
      /\ \A i \in 1..(Len(queue) - 1) : Tail(queue)[i] = queue[i + 1]
  BY <1>1
<1>4. \A i \in 1..(Len(queue) - 1) :
        i + 1 \in DOMAIN queue /\ i + 1 # 1 /\ 1 \in DOMAIN queue
  BY <1>1
<1>5. Head(queue) \notin Range(Tail(queue))
  BY <1>2, <1>3, <1>4 DEF Range, QueueIsSelected
<1>6. Range(queue) \subseteq Range(Tail(queue)) \cup {Head(queue)}
  <2> SUFFICES ASSUME NEW i \in DOMAIN queue, i # 1
               PROVE  queue[i] \in Range(Tail(queue))
    BY <1>2 DEF Range
  <2>1. i - 1 \in 1..(Len(queue) - 1) /\ Tail(queue)[i - 1] = queue[i]
    BY <1>1, <1>3
  <2> QED
    BY <1>3, <2>1 DEF Range
<1>7. Range(Tail(queue)) \cup {Head(queue)} \subseteq Range(queue)
  BY <1>1, <1>2, <1>3, <1>4 DEF Range
<1>8. \A i, j \in DOMAIN Tail(queue) : i # j => Tail(queue)[i] # Tail(queue)[j]
  BY <1>3, <1>4 DEF QueueIsSelected
<1> QED
  BY <1>2, <1>3, <1>5, <1>6, <1>7, <1>8

\* What a selected package requires is taken once.
LEMMA NextParentTraverses ==
    ASSUME Traversal, batch = <<>>, queue # <<>>,
           batch' = Declared(Head(queue), selected[Head(queue)].candidate.deps),
           queue' = Tail(queue),
           UNCHANGED <<lock, request, selected, shadows>>
    PROVE  Traversal'
<1>0. PICK k : k = Head(queue)
  OBVIOUS
<1>1. /\ k \in SelectedKeys /\ Tail(queue) \in Seq(SelectedKeys)
      /\ Range(queue) = Range(Tail(queue)) \cup {k}
      /\ k \notin Range(Tail(queue))
      /\ \A i, j \in DOMAIN Tail(queue) : i # j => Tail(queue)[i] # Tail(queue)[j]
  BY <1>0, QueueTail DEF Traversal
<1>2. PICK deps : deps = selected[k].candidate.deps
  OBVIOUS
<1>3. /\ k # RootOrigin /\ IsDeclaration(deps)
      /\ \A l \in {RootOrigin} \cup SelectedKeys : \A r \in DeclaredBy(l) : \E i : r.origin = <<l, i>>
  BY <1>1, <1>2, KeysOfTraversal
<1>4. /\ Needed' = Needed /\ QuestionIsTyped' = QuestionIsTyped /\ RootEntries' = RootEntries
      /\ \A q : Matching(q)' = Matching(q) /\ SelectionError(q)' = SelectionError(q)
  BY SameQuestion
<1>5. SelectedKeys' = SelectedKeys /\ Winners' = Winners /\ OriginsMet' = OriginsMet
  BY DEF SelectedKeys, Winners, OriginsMet
<1>6. Expanded' = Expanded \cup {k} /\ k \notin Expanded
  BY <1>0, <1>1, <1>3, <1>5 DEF Expanded
<1>7. DeclaredBy(k) = Entries(k, deps) /\ batch' = Declared(k, deps)
  BY <1>0, <1>2, <1>3 DEF DeclaredBy
<1>8. Taken' = Taken \cup Entries(k, deps)
  <2>1. \A l : DeclaredBy(l)' = DeclaredBy(l)
    BY <1>4 DEF DeclaredBy
  <2> QED
    BY <1>6, <1>7, <2>1 DEF Taken
<1>9. /\ batch' \in Seq(Entries(k, deps)) /\ Range(batch') = Entries(k, deps)
      /\ \A i, j \in DOMAIN batch' : i # j => batch'[i].origin # batch'[j].origin
  BY <1>3, <1>7, DeclaredEntries
<1>10. BatchIsNew'
  <2>1. batch' \in Seq(Taken')
    BY <1>8, <1>9
  <2>2. ASSUME NEW i \in DOMAIN batch', batch'[i].origin \in OriginsMet
        PROVE  FALSE
    <3>1. batch'[i] \in DeclaredBy(k)
      BY <1>7, <1>9
    <3>2. PICK a : batch'[i].origin = <<k, a>>
      BY <1>1, <1>3, <3>1
    <3>3. PICK r \in Taken : r.origin = batch'[i].origin
      BY <2>2 DEF Traversal, SelectedIsForced, ShadowsAreTaken, OriginsMet, Winners
    <3>4. PICK l \in Expanded : r \in DeclaredBy(l)
      BY DEF Taken
    <3>5. PICK b : r.origin = <<l, b>>
      BY <1>3, <3>4 DEF Expanded
    <3> QED
      BY <1>6, <3>2, <3>3, <3>5
  <2> QED
    BY <1>5, <1>9, <2>1, <2>2 DEF BatchIsNew
<1>11. QuestionIsTyped' /\ QueueIsSelected'
  BY <1>0, <1>1, <1>4, <1>5 DEF Traversal, QueueIsSelected
<1>12. TakenIsNeeded'
  <2>1. PICK w \in Taken : w.key = k /\ Matching(w) = {selected[k].candidate}
    BY <1>1 DEF Traversal, SelectedIsForced
  <2>2. Req(w) \in Needed /\ Matching(Req(w)) = Matching(w)
    BY MatchingOfPair DEF Traversal, TakenIsNeeded, Req
  <2>3. RequirementsOf(selected[k].candidate) \subseteq Needed
    BY <2>1, <2>2, NeededIsLeast DEF IsClosed
  <2>4. {Req(r) : r \in Entries(k, deps)} \subseteq Needed
    BY <1>2, <1>3, <2>3, RequirementsOfEntries DEF RequirementsOf
  <2> QED
    BY <1>4, <1>8, <2>4 DEF Traversal, TakenIsNeeded
<1>13. SelectedIsForced'
  BY <1>4, <1>5, <1>8 DEF Traversal, SelectedIsForced
<1>14. TakenIsMet'
  <2>1. ASSUME NEW q \in Taken PROVE IsMet(q)
    BY DEF Traversal, TakenIsMet, Range
  <2>2. ASSUME NEW q \in Taken PROVE IsMet(q)'
    BY <1>5, <2>1 DEF IsMet
  <2> QED
    BY <1>8, <1>9, <2>2 DEF TakenIsMet
<1>15. ShadowsAreTaken' /\ WinnersAreNotShadows'
  BY <1>5, <1>8 DEF Traversal, ShadowsAreTaken, WinnersAreNotShadows
<1> QED
  BY <1>10, <1>11, <1>12, <1>13, <1>14, <1>15 DEF Traversal

\* What is left alone with the question.
LEMMA SameTraversal ==
    ASSUME UNCHANGED <<lock, request, batch, queue, selected, shadows>>
    PROVE  /\ Traversal' = Traversal
           /\ Solvable' = Solvable
           /\ CycleOrDepthError' = CycleOrDepthError
           /\ ModeError' = ModeError
<1>1. /\ Needed' = Needed /\ QuestionIsTyped' = QuestionIsTyped /\ RootEntries' = RootEntries
      /\ Solvable' = Solvable
      /\ \A q : Matching(q)' = Matching(q) /\ SelectionError(q)' = SelectionError(q)
  BY SameQuestion
<1>2. SelectedKeys' = SelectedKeys /\ Winners' = Winners /\ OriginsMet' = OriginsMet
  BY DEF SelectedKeys, Winners, OriginsMet
<1>3. Taken' = Taken
  BY <1>1, <1>2 DEF Taken, Expanded, DeclaredBy
<1>4. BatchIsNew' = BatchIsNew /\ QueueIsSelected' = QueueIsSelected
  BY <1>2, <1>3 DEF BatchIsNew, QueueIsSelected
<1>5. TakenIsNeeded' = TakenIsNeeded /\ ShadowsAreTaken' = ShadowsAreTaken
  BY <1>1, <1>3 DEF TakenIsNeeded, ShadowsAreTaken
<1>6. SelectedIsForced' = SelectedIsForced
  BY <1>1, <1>2, <1>3 DEF SelectedIsForced
<1>7. TakenIsMet' = TakenIsMet
  BY <1>2, <1>3 DEF TakenIsMet, IsMet
<1>8. WinnersAreNotShadows' = WinnersAreNotShadows
  BY <1>2 DEF WinnersAreNotShadows
<1>9. SelectedDeps' = SelectedDeps /\ CycleOrDepthError' = CycleOrDepthError
  BY <1>2 DEF SelectedDeps, CycleOrDepthError
<1>10. ActivePackages' = ActivePackages /\ ActiveDeps' = ActiveDeps
  BY DEF ActivePackages, ActiveDeps
<1>11. Impact' = Impact /\ \A k : MatchesItsPin(k)' = MatchesItsPin(k)
  BY <1>9, <1>10 DEF Impact, MatchesItsPin
<1>12. ModeError' = ModeError
  BY <1>2, <1>10, <1>11 DEF ModeError
<1> QED
  BY <1>1, <1>4, <1>5, <1>6, <1>7, <1>8, <1>9, <1>12 DEF Traversal

\* An error of a requirement says that there is no solution.
LEMMA ShadowErrs ==
    ASSUME Traversal, batch # <<>>, Head(batch).key \in SelectedKeys,
           ~RequestMatches(Head(batch).source, selected[Head(batch).key].candidate)
    PROVE  ~Solvable
<1>1. Head(batch) \in Taken
  BY BatchTail DEF Traversal
<1>2. PICK w \in Taken :
        w.key = Head(batch).key /\ Matching(w) = {selected[Head(batch).key].candidate}
  BY DEF Traversal, SelectedIsForced
<1>3. w.source # Head(batch).source
  BY <1>2, MatchingFacts
<1>4. Req(w) \in Needed /\ Req(Head(batch)) \in Needed
  BY <1>1 DEF Traversal, TakenIsNeeded
<1>5. /\ Req(w).key = Req(Head(batch)).key
      /\ Req(w).source # Req(Head(batch)).source
  BY <1>2, <1>3 DEF Req
<1> QED
  BY <1>4, <1>5 DEF Solvable

LEMMA SelectErrs ==
    ASSUME Traversal, batch # <<>>, SelectionError(Head(batch)) # "none"
    PROVE  SelectionError(Head(batch)) \in SelectionErrors /\ ~Solvable
<1>1. Head(batch) \in Taken
  BY BatchTail DEF Traversal
<1>2. Req(Head(batch)) \in Needed
  BY <1>1 DEF Traversal, TakenIsNeeded
<1>3. SelectionError(Req(Head(batch))) = SelectionError(Head(batch))
  BY MatchingOfPair DEF Req
<1> QED
  BY <1>2, <1>3, SelectedIsUnique DEF Traversal, Solvable

-----------------------------------------------------------------------------
(* The invariant.                                                          *)

LEMMA ResolutionInit == Init => ResolutionInv
BY DEF Init, ResolutionInv

LEMMA StopKeeps ==
    ASSUME ResolutionInv, phase = "select", NEW error, Stop(error),
           \/ error \in SelectionErrors /\ ~Solvable
           \/ /\ batch = <<>> /\ queue = <<>>
              /\ \/ CycleOrDepthError \in {"DependencyCycle", "GraphTooDeep"}
                    /\ error = CycleOrDepthError
                 \/ /\ CycleOrDepthError = "none"
                    /\ error = IF ModeError # "none" THEN ModeError ELSE "resolved"
    PROVE  ResolutionInv'
<1>1. /\ outcome' = error /\ phase' = "done"
      /\ UNCHANGED <<lock, request, batch, queue, selected, shadows>>
  BY DEF Stop
<1>2. Traversal'
  BY <1>1, SameTraversal DEF ResolutionInv
<1>3. OutcomeIsEarned'
  <2>1. /\ Solvable' = Solvable /\ CycleOrDepthError' = CycleOrDepthError
        /\ ModeError' = ModeError
    BY <1>1, SameTraversal
  <2> QED
    BY <1>1, <2>1 DEF OutcomeIsEarned
<1> QED
  BY <1>1, <1>2, <1>3 DEF ResolutionInv

LEMMA TraversalKeeps ==
    ASSUME ResolutionInv, phase = "select", Traversal',
           UNCHANGED <<lock, request, phase>>
    PROVE  ResolutionInv'
BY DEF ResolutionInv

LEMMA ResolutionStep == ResolutionInv /\ [Next]_vars => ResolutionInv'
<1> SUFFICES ASSUME ResolutionInv, [Next]_vars
             PROVE  ResolutionInv'
  OBVIOUS
<1>1. ASSUME NEW root \in Roots, NEW registry \in Registries, NEW frozen \in BOOLEAN,
             NEW locked \in BOOLEAN, NEW targets \in UpdateSets,
             Request(root, registry, frozen, targets, locked)
      PROVE  ResolutionInv'
  <2>1. Traversal'
    BY <1>1, RequestTraverses DEF Request, ResolutionInv
  <2>2. /\ request'.frozen = frozen /\ request'.locked = locked /\ request'.root = root
        /\ lock' = lock
    BY <1>1 DEF Request
  <2>3. CASE frozen /\ ~locked
    BY <1>1, <2>1, <2>2, <2>3 DEF Request, ResolutionInv, OutcomeIsEarned
  <2>4. CASE ~(frozen /\ ~locked) /\ locked /\ lock.root # root
    BY <1>1, <2>1, <2>2, <2>4 DEF Request, ResolutionInv, OutcomeIsEarned
  <2>5. CASE ~(frozen /\ ~locked) /\ ~(locked /\ lock.root # root)
    BY <1>1, <2>1, <2>2, <2>5 DEF Request, ResolutionInv
  <2> QED
    BY <2>3, <2>4, <2>5
<1>2. CASE Shadow
  <2>1. phase = "select" /\ batch # <<>> /\ Head(batch).key \in SelectedKeys
    BY <1>2 DEF Shadow, Selecting
  <2>2. CASE ~RequestMatches(Head(batch).source, selected[Head(batch).key].candidate)
    BY <1>2, <2>1, <2>2, ShadowErrs, StopKeeps DEF Shadow, ResolutionInv, SelectionErrors
  <2>3. CASE RequestMatches(Head(batch).source, selected[Head(batch).key].candidate)
    BY <1>2, <2>1, <2>3, ShadowTraverses, TraversalKeeps DEF Shadow, ResolutionInv
  <2> QED
    BY <2>2, <2>3
<1>3. CASE Select
  <2>1. phase = "select" /\ batch # <<>> /\ Head(batch).key \notin SelectedKeys
    BY <1>3 DEF Select, Selecting
  <2>2. CASE SelectionError(Head(batch)) # "none"
    BY <1>3, <2>1, <2>2, SelectErrs, StopKeeps DEF Select, ResolutionInv
  <2>3. CASE SelectionError(Head(batch)) = "none"
    <3>1. PICK c \in Matching(Head(batch)) :
            /\ selected' = [k \in SelectedKeys \cup {Head(batch).key} |->
                              IF k = Head(batch).key
                              THEN [candidate |-> c, winner |-> Head(batch).origin]
                              ELSE selected[k]]
            /\ batch' = Tail(batch) /\ queue' = Append(queue, Head(batch).key)
            /\ UNCHANGED <<lock, request, shadows, phase>>
      BY <1>3, <2>3 DEF Select
    <3> QED
      BY <2>1, <2>3, <3>1, SelectTraverses, TraversalKeeps DEF ResolutionInv
  <2> QED
    BY <2>2, <2>3
<1>4. CASE NextParent
  BY <1>4, NextParentTraverses, TraversalKeeps DEF NextParent, ResolutionInv
<1>5. CASE Finish
  <2>1. phase = "select" /\ batch = <<>> /\ queue = <<>> /\ Traversal
    BY <1>5 DEF Finish, ResolutionInv
  <2>2. CycleOrDepthError \in {"none", "GraphTooDeep", "DependencyCycle"}
    BY <2>1, SelectedIsGraph, WalkIsSound DEF CycleOrDepthError
  <2>3. CASE CycleOrDepthError # "none" /\ Stop(CycleOrDepthError)
    BY <2>1, <2>2, <2>3, StopKeeps
  <2>4. CASE /\ CycleOrDepthError = "none"
             /\ Stop(IF ModeError # "none" THEN ModeError ELSE "resolved")
    BY <2>1, <2>4, StopKeeps
  <2> QED
    BY <1>5, <2>3, <2>4 DEF Finish
<1>6. CASE Fetch
  <2>1. /\ phase = "done" /\ outcome = "resolved" /\ phase' = "fetched"
        /\ UNCHANGED <<lock, request, batch, queue, selected, shadows, outcome>>
    BY <1>6 DEF Fetch
  <2> QED
    BY <2>1, SameTraversal DEF ResolutionInv, OutcomeIsEarned
<1>7. CASE GiveUp
  BY <1>7 DEF GiveUp, Reset, ResolutionInv
<1>8. ASSUME NEW authorization, Assemble(authorization)
      PROVE  ResolutionInv'
  BY <1>8 DEF Assemble, Reset, ResolutionInv
<1>9. CASE UNCHANGED vars
  BY <1>9, SameTraversal DEF ResolutionInv, OutcomeIsEarned, vars
<1> QED
  BY <1>1, <1>2, <1>3, <1>4, <1>5, <1>6, <1>7, <1>8, <1>9 DEF Next

LEMMA ResolutionInvariant == Spec => []ResolutionInv
  BY ResolutionInit, ResolutionStep, PTL DEF Spec

\* select_requirement takes requirements one by one and never goes back; still
\* it ends with the candidates of all that is needed exactly if that can be
\* had, whatever the order of declarations and of the queue.
THEOREM ResolutionIsOrderless == Spec => []OrderDoesNotDecide
<1>1. ASSUME ResolutionInv PROVE OrderDoesNotDecide
  <2>1. ASSUME phase = "select", batch = <<>>, queue = <<>>
        PROVE  Solvable /\ Graph = UNION {Matching(r) : r \in Needed}
    BY <1>1, <2>1, TakenIsAll DEF ResolutionInv
  <2>2. ASSUME phase = "done", outcome \in SelectionErrors
        PROVE  ~Solvable
    <3>1. OutcomeIsEarned /\ request.locked \in BOOLEAN
      BY <1>1, <2>2 DEF ResolutionInv, Traversal, QuestionIsTyped
    <3>2. ModeError \in {"none", "UnknownUpdateTarget", "FrozenGraphDrift",
                         "UpdateEscapesImpactClosure"}
      BY <3>1 DEF ModeError
    <3> QED
      BY <2>2, <3>1, <3>2 DEF OutcomeIsEarned, SelectionErrors
  <2> QED
    BY <2>1, <2>2 DEF OrderDoesNotDecide, Solvable, SelectionErrors
<1> QED
  BY <1>1, ResolutionInvariant, PTL

\* A graph that resolve accepts meets every requirement of the root and of the
\* packages in it, and says of each whether it won or was shadowed.
THEOREM ResolvedGraphIsCoherent == Spec => []GraphIsCoherent
<1>1. ASSUME ResolutionInv PROVE GraphIsCoherent
  <2> SUFFICES ASSUME Resolved
               PROVE  /\ \A r \in AllRequirements :
                            /\ r.key \in SelectedKeys
                            /\ RequestMatches(r.source, selected[r.key].candidate)
                      /\ Winners \cap shadows = {}
                      /\ OriginsMet = {r.origin : r \in AllRequirements}
    BY DEF GraphIsCoherent, Winners, OriginsMet
  <2>1. Traversal /\ batch = <<>> /\ queue = <<>>
    BY <1>1 DEF Resolved, ResolutionInv, OutcomeIsEarned, SelectionErrors
  <2>2. AllRequirements = Taken
    <3>1. Expanded = {RootOrigin} \cup SelectedKeys
      BY <2>1 DEF Expanded, Range
    <3>2. IsDeclaration(RootRequirements(request.root))
      BY <2>1, RootIsDeclaration DEF Traversal, QuestionIsTyped
    <3>3. Range(Declared(RootOrigin, RootRequirements(request.root))) = DeclaredBy(RootOrigin)
      BY <3>2, DeclaredEntries DEF DeclaredBy, RootEntries
    <3>4. ASSUME NEW k \in SelectedKeys
          PROVE  Range(Declared(k, selected[k].candidate.deps)) = DeclaredBy(k)
      BY <2>1, KeysOfTraversal, DeclaredEntries DEF DeclaredBy
    <3>5. AllRequirements = DeclaredBy(RootOrigin) \cup UNION {DeclaredBy(k) : k \in SelectedKeys}
      BY <3>3, <3>4 DEF AllRequirements
    <3> QED
      BY <3>1, <3>5 DEF Taken
  <2>3. (\A r \in Taken : IsMet(r)) /\ OriginsMet = {r.origin : r \in Taken}
    BY <2>1, TakenIsAll
  <2> QED
    BY <2>1, <2>2, <2>3 DEF Traversal, WinnersAreNotShadows, IsMet
<1> QED
  BY <1>1, ResolutionInvariant, PTL

-----------------------------------------------------------------------------
(* Replay.                                                                 *)

LockDeps(packages) ==
    [k \in {p.key : p \in packages} |-> (CHOOSE p \in packages : p.key = k).deps]

\* Pinned to packages, a root and metadata have these packages as the only
\* solution, and it has no cycle.
Replays(root, registry, packages) ==
    LET N == NeededBy(root, registry, packages)
    IN  /\ \A r \in N : \E c \in Candidate :
              MatchingBy(registry, packages, r) = {c} /\ c.tool \in {NoTool, Toolchain}
        /\ \A r, q \in N : r.key = q.key => r = q
        /\ packages = {Locked(c) : c \in UNION {MatchingBy(registry, packages, r) : r \in N}}
        /\ Walk(LockDeps(packages)).error = "none"

Certified ==
    basis # NoLock =>
        /\ lock.root = basis.root
        /\ Replays(basis.root, basis.registry, lock.packages)

ReplayInv == ResolutionInv /\ Certified

\* What a requirement without an error has matched.
LEMMA SelectionFits ==
    ASSUME QuestionIsTyped, NEW r, SelectionError(r) = "none"
    PROVE  \E c \in Candidate : Matching(r) = {c} /\ c.tool \in {NoTool, Toolchain}
<1>1. PICK c : Matching(r) = {c}
  BY SelectedIsUnique
<1>2. c \in Candidate
  BY <1>1, MatchingFacts, RegistryAssumption DEF QuestionIsTyped
<1>3. Available(r.key) # {} /\ ~(Cardinality(Matching(r)) > 1)
  BY <1>1, FS_Singleton, MatchingFacts DEF Available
<1>4. c.tool \in {NoTool, Toolchain}
  BY <1>1, <1>3 DEF SelectionError
<1> QED
  BY <1>1, <1>2, <1>4

LEMMA FittingIsSelected ==
    ASSUME NEW r, NEW c, Matching(r) = {c}, c.tool \in {NoTool, Toolchain}
    PROVE  SelectionError(r) = "none"
<1>1. Available(r.key) # {} /\ Matching(r) # {}
  BY MatchingFacts DEF Available
<1>2. Cardinality(Matching(r)) = 1
  BY FS_Singleton
<1>3. ~(Cardinality(Matching(r)) > 1)
  BY <1>2
<1>4. ~\E d \in Matching(r) : d.tool \notin {NoTool, Toolchain} /\ Matching(r) = {d}
  OBVIOUS
<1> QED
  BY <1>1, <1>3, <1>4 DEF SelectionError

\* Selected packages have one candidate each.
LEMMA GraphHasKeys ==
    ASSUME Traversal
    PROVE  /\ \A k \in SelectedKeys : selected[k].candidate \in Graph /\ selected[k].candidate.key = k
           /\ \A c \in Graph : c.key \in SelectedKeys /\ c = selected[c.key].candidate
           /\ {p.key : p \in NewLock} = SelectedKeys
           /\ \A p \in NewLock : p.key \in SelectedKeys /\ p = Locked(selected[p.key].candidate)
           /\ LockDeps(NewLock) = SelectedDeps
<1>1. \A k \in SelectedKeys : selected[k].candidate \in Graph /\ selected[k].candidate.key = k
  BY KeysOfTraversal DEF Graph
<1>2. \A c \in Graph : c.key \in SelectedKeys /\ c = selected[c.key].candidate
  BY <1>1 DEF Graph
<1>3. \A c : Locked(c).key = c.key /\ Locked(c).deps = DependencyKeys(c)
  BY DEF Locked
<1>4. \A p \in NewLock : p.key \in SelectedKeys /\ p = Locked(selected[p.key].candidate)
  BY <1>2, <1>3 DEF NewLock
<1>5. \A k \in SelectedKeys : Locked(selected[k].candidate) \in NewLock
                            /\ Locked(selected[k].candidate).key = k
  BY <1>1, <1>3 DEF NewLock
<1>6. {p.key : p \in NewLock} = SelectedKeys
  BY <1>4, <1>5
<1>7. \A k \in SelectedKeys :
        (CHOOSE p \in NewLock : p.key = k).deps = DependencyKeys(selected[k].candidate)
  BY <1>3, <1>4, <1>5
<1>8. LockDeps(NewLock) = SelectedDeps
  BY <1>6, <1>7 DEF LockDeps, SelectedDeps
<1> QED
  BY <1>1, <1>2, <1>4, <1>6, <1>8

\* Pinned to the lock made of it, a resolution has the same solution again.
LEMMA NewLockReplays ==
    ASSUME Traversal, batch = <<>>, queue = <<>>, CycleOrDepthError = "none"
    PROVE  Replays(request.root, request.registry, NewLock)
<1> DEFINE M(r) == MatchingBy(request.registry, NewLock, r)
           N == NeededBy(request.root, request.registry, NewLock)
<1>1. /\ Solvable
      /\ Graph = UNION {Matching(r) : r \in Needed}
      /\ QuestionIsTyped
  BY TakenIsAll DEF Traversal
<1>2. ASSUME NEW r \in Needed
      PROVE  M(r) = Matching(r)
  <2>1. SelectionError(r) = "none"
    BY <1>1 DEF Solvable
  <2>2. PICK c : Matching(r) = {c}
    BY <1>1, <2>1, SelectionFits
  <2>3. c \in Graph /\ Locked(c) \in NewLock
    BY <1>1, <2>2 DEF NewLock
  <2>4. c \in request.registry /\ c.key = r.key /\ RequestMatches(r.source, c) /\ Pinned(c)
    BY <2>2 DEF Matching, Available
  <2>5. \A p \in NewLock : p.key = c.key => p = Locked(c)
    BY <2>3, GraphHasKeys
  <2>6. CandidateMatchesLock(c, Locked(c))
    BY DEF CandidateMatchesLock, Locked
  <2>7. c \in M(r)
    BY <2>4, <2>5, <2>6 DEF MatchingBy, PinnedBy
  <2>8. ASSUME NEW d \in M(r)
        PROVE  d = c
    <3>1. d \in request.registry /\ d.key = r.key /\ RequestMatches(r.source, d)
      BY <2>8 DEF MatchingBy
    <3>2. CandidateMatchesLock(d, Locked(c))
      BY <2>3, <2>4, <2>8, <3>1 DEF MatchingBy, PinnedBy, Locked
    <3>3. d.exact = c.exact /\ DependencyKeys(d) = DependencyKeys(c) /\ d.key = c.key
      BY <3>2 DEF CandidateMatchesLock, Locked
    <3>4. d.req = c.req
      BY <2>4, <3>1 DEF RequestMatches
    <3>5. \A p : CandidateMatchesLock(c, p) => CandidateMatchesLock(d, p)
      BY <3>3, <3>4 DEF CandidateMatchesLock
    <3>6. Pinned(d)
      BY <2>4, <3>3, <3>5 DEF Pinned
    <3> QED
      BY <2>2, <3>1, <3>6 DEF Matching, Available
  <2> QED
    BY <2>2, <2>7, <2>8
<1>3. N \subseteq Needed
  BY <1>2, NeededIsLeast, NeededByIsLeast, QuestionIsOfPins DEF IsClosed, IsClosedBy, RootRequired
<1>4. Needed \subseteq N
  <2>1. IsClosed(N)
    BY <1>2, <1>3, NeededByIsLeast DEF IsClosed, IsClosedBy
  <2> QED
    BY <2>1, NeededIsLeast, NeededByIsLeast, QuestionIsOfPins DEF RootRequired
<1>5. N = Needed
  BY <1>3, <1>4
<1>6. ASSUME NEW r \in N
      PROVE  \E c \in Candidate : M(r) = {c} /\ c.tool \in {NoTool, Toolchain}
  BY <1>1, <1>2, <1>5, SelectionFits DEF Solvable
<1>7. NewLock = {Locked(c) : c \in UNION {M(r) : r \in N}}
  <2>1. UNION {M(r) : r \in N} = Graph
    BY <1>1, <1>2, <1>5
  <2> QED
    BY <2>1 DEF NewLock
<1>8. Walk(LockDeps(NewLock)).error = "none"
  BY GraphHasKeys DEF CycleOrDepthError
<1>9. \A r, q \in N : r.key = q.key => r = q
  BY <1>1, <1>5 DEF Solvable
<1> QED
  BY <1>6, <1>7, <1>8, <1>9 DEF Replays

LEMMA CertifiedStep == ReplayInv /\ [Next]_vars => Certified'
<1> SUFFICES ASSUME ResolutionInv, Certified, [Next]_vars
             PROVE  Certified'
  BY DEF ReplayInv
<1>1. ASSUME NEW authorization, Assemble(authorization)
      PROVE  Certified'
  <2>1. /\ phase = "fetched" /\ lock' = NextLock
        /\ basis' = [root |-> request.root, registry |-> request.registry]
    BY <1>1 DEF Assemble
  <2>2. Traversal /\ batch = <<>> /\ queue = <<>> /\ CycleOrDepthError = "none"
    BY <2>1 DEF ResolutionInv, OutcomeIsEarned, SelectionErrors
  <2>3. Replays(request.root, request.registry, NewLock)
    BY <2>2, NewLockReplays
  <2> QED
    BY <2>1, <2>3 DEF Certified, NextLock
<1>2. ASSUME UNCHANGED <<lock, basis>> PROVE Certified'
  BY <1>2 DEF Certified
<1>3. (\E authorization \in {NoAuthorization} \cup Authorizations : Assemble(authorization))
      \/ UNCHANGED <<lock, basis>>
  BY DEF Next, vars, Request, Shadow, Select, NextParent, Finish, Stop, Fetch, GiveUp
<1> QED
  BY <1>1, <1>2, <1>3

LEMMA ReplayInvariant == Spec => []ReplayInv
<1>1. Init => ReplayInv
  BY ResolutionInit DEF ReplayInv, Init, Certified
<1>2. ReplayInv /\ [Next]_vars => ReplayInv'
  BY ResolutionStep, CertifiedStep DEF ReplayInv
<1> QED
  BY <1>1, <1>2, PTL DEF Spec

\* A frozen request of what an active lock was made from ends with that lock,
\* whatever else the metadata has by now: the pins of the lock let nothing else
\* match, and what the pins let match is what was selected.
THEOREM FrozenRequestsReplay == Spec => []FrozenReplays
<1>1. ASSUME ReplayInv PROVE FrozenReplays
  <2> SUFFICES ASSUME phase = "done", request.frozen, request.locked,
                      [root |-> request.root, registry |-> request.registry] = basis
               PROVE  outcome = "resolved" /\ NewLock = lock.packages
    BY DEF FrozenReplays
  <2>1. ResolutionInv /\ Certified /\ Traversal /\ QuestionIsTyped /\ OutcomeIsEarned
    BY <1>1 DEF ReplayInv, ResolutionInv, Traversal
  <2>2. basis # NoLock
    BY <2>1, NoLockAssumption DEF QuestionIsTyped
  <2>3. lock.root = request.root /\ Replays(request.root, request.registry, lock.packages)
    BY <2>1, <2>2 DEF Certified
  <2>4. Pins = lock.packages
    BY <2>1 DEF Pins, QuestionIsTyped, ActivePackages
  <2>5. /\ \A r : Matching(r) = MatchingBy(request.registry, lock.packages, r)
        /\ Needed = NeededBy(request.root, request.registry, lock.packages)
    BY <2>4, QuestionIsOfPins
  <2>6. Solvable
    <3>1. \A r \in Needed : \E c : Matching(r) = {c} /\ c.tool \in {NoTool, Toolchain}
      BY <2>3, <2>5 DEF Replays
    <3>2. \A r \in Needed : SelectionError(r) = "none"
      BY <3>1, FittingIsSelected
    <3> QED
      BY <2>3, <2>5, <3>2 DEF Solvable, Replays
  <2>7. /\ batch = <<>> /\ queue = <<>>
        /\ \/ CycleOrDepthError \in {"DependencyCycle", "GraphTooDeep"}
           \/ outcome = IF ModeError # "none" THEN ModeError ELSE "resolved"
    BY <2>1, <2>3, <2>6 DEF OutcomeIsEarned
  <2>8. NewLock = lock.packages
    <3>1. Graph = UNION {Matching(r) : r \in Needed}
      BY <2>1, <2>7, TakenIsAll
    <3>2. lock.packages = {Locked(c) : c \in UNION {Matching(r) : r \in Needed}}
      BY <2>3, <2>5 DEF Replays
    <3> QED
      BY <3>1, <3>2 DEF NewLock
  <2>9. CycleOrDepthError = "none"
    BY <2>1, <2>3, <2>8, GraphHasKeys DEF Replays, CycleOrDepthError
  <2>10. ModeError = "none"
    <3>1. ActivePackages = NewLock
      BY <2>8 DEF ActivePackages
    <3>2. DOMAIN ActiveDeps = SelectedKeys
      BY <2>1, <3>1, GraphHasKeys DEF ActiveDeps
    <3>3. \A k \in SelectedKeys : MatchesItsPin(k)
      BY <2>1, <3>1, GraphHasKeys DEF MatchesItsPin, CandidateMatchesLock, Locked
    <3> QED
      BY <3>2, <3>3 DEF ModeError
  <2> QED
    BY <2>7, <2>8, <2>9, <2>10
<1> QED
  BY <1>1, ReplayInvariant, PTL

-----------------------------------------------------------------------------
(* Replacement of the active lock.                                         *)

\* A document binds a package once.
DocumentInv ==
    /\ Bindings(document) \subseteq {Binding(c) : c \in Candidate}
    /\ \A a, b \in Bindings(document) : a.package = b.package => a = b

LEMMA DocumentStep == ReplayInv /\ DocumentInv /\ [Next]_vars => DocumentInv'
<1> SUFFICES ASSUME ReplayInv, DocumentInv, [Next]_vars
             PROVE  DocumentInv'
  OBVIOUS
<1>1. ASSUME NEW authorization, Assemble(authorization)
      PROVE  DocumentInv'
  <2>1. document' = NextDocument /\ Traversal
    BY <1>1 DEF Assemble, ReplayInv, ResolutionInv
  <2>2. CASE NextDocument \in {NoDocument, document}
    BY <2>1, <2>2 DEF DocumentInv, Bindings
  <2>3. CASE NextDocument = Document(NextLock, {Binding(c) : c \in ReservoirGraph})
    <3>1. Bindings(document') \subseteq {Binding(c) : c \in ReservoirGraph}
      BY <2>1, <2>3 DEF Bindings, Document
    <3>2. \A c \in ReservoirGraph : c \in Graph /\ c \in Candidate
      BY <2>1, KeysOfTraversal, RegistryAssumption
         DEF ReservoirGraph, Graph, Traversal, QuestionIsTyped
    <3>3. \A c, d \in Graph : c.key = d.key => c = d
      BY <2>1, GraphHasKeys
    <3>4. \A c : Binding(c).package = c.key
      BY DEF Binding
    <3> QED
      BY <3>1, <3>2, <3>3, <3>4 DEF DocumentInv
  <2> QED
    BY <2>2, <2>3 DEF NextDocument
<1>2. ASSUME UNCHANGED document PROVE DocumentInv'
  BY <1>2 DEF DocumentInv, Bindings
<1>3. (\E authorization \in {NoAuthorization} \cup Authorizations : Assemble(authorization))
      \/ UNCHANGED document
  BY DEF Next, vars, companion, Request, Shadow, Select, NextParent, Finish, Stop, Fetch, GiveUp
<1> QED
  BY <1>1, <1>2, <1>3

LEMMA DocumentInvariant == Spec => [](ReplayInv /\ DocumentInv)
<1>1. Init => DocumentInv
  BY DEF DocumentInv, Bindings, Init
<1>2. DocumentInv /\ ReplayInv /\ [Next]_vars => DocumentInv'
  BY DocumentStep
<1> QED
  BY <1>1, <1>2, ReplayInvariant, PTL DEF Spec

\* What an assembly takes over was selected with the pins and passed the mode.
LEMMA AssemblyKeepsPins ==
    ASSUME ReplayInv, phase = "fetched", request.locked
    PROVE  /\ \A p \in ActivePackages, q \in NewLock :
                (p.key = q.key /\ p.key \notin request.targets) =>
                    p.exact = q.exact /\ p.deps = q.deps
           /\ {p.key : p \in ActivePackages} \ {q.key : q \in NewLock}
                \subseteq ImpactClosure(ActiveDeps, request.targets)
<1>1. Traversal /\ batch = <<>> /\ queue = <<>> /\ ModeError = "none" /\ request.frozen \in BOOLEAN
  <2>1. outcome = "resolved" /\ OutcomeIsEarned /\ Traversal /\ request.frozen \in BOOLEAN
    BY DEF ReplayInv, ResolutionInv, Traversal, QuestionIsTyped
  <2> QED
    BY <2>1 DEF OutcomeIsEarned, SelectionErrors, ModeError
<1>2. ASSUME NEW p \in ActivePackages, NEW q \in NewLock,
             p.key = q.key, p.key \notin request.targets
      PROVE  p.exact = q.exact /\ p.deps = q.deps
  <2>1. PICK c \in Graph : q = Locked(c) /\ c = selected[q.key].candidate /\ q.key \in SelectedKeys
    BY <1>1, GraphHasKeys DEF Graph
  <2>2. PICK r : c \in Matching(r)
    BY <1>1, <2>1 DEF Traversal, SelectedIsForced
  <2>3. Pinned(c) /\ c.key = q.key
    BY <2>1, <2>2 DEF Matching, Locked
  <2>4. CandidateMatchesLock(c, p)
    BY <1>2, <2>3 DEF Pinned
  <2> QED
    BY <2>1, <2>4 DEF CandidateMatchesLock, Locked
<1>3. DOMAIN ActiveDeps = {p.key : p \in ActivePackages} /\ {q.key : q \in NewLock} = SelectedKeys
  BY <1>1, GraphHasKeys DEF ActiveDeps
<1>4. CASE request.frozen
  BY <1>1, <1>2, <1>3, <1>4 DEF ModeError
<1>5. CASE ~request.frozen
  <2>1. \A k \in DOMAIN ActiveDeps \ SelectedKeys : k \in Impact
    BY <1>1, <1>5 DEF ModeError
  <2>2. Impact = ImpactClosure(ActiveDeps, request.targets)
                 \cup ImpactClosure(SelectedDeps, request.targets)
    BY <1>5 DEF Impact
  <2>3. ImpactClosure(SelectedDeps, request.targets) \subseteq SelectedKeys
    BY DEF ImpactClosure, SelectedDeps
  <2> QED
    BY <1>2, <1>3, <2>1, <2>2, <2>3
<1> QED
  BY <1>2, <1>4, <1>5

\* The policy lets a binding move only with an authorization of that move.
LEMMA BindingMovesAsAuthorized ==
    ASSUME ReplayInv, DocumentInv,
           NEW authorization \in {NoAuthorization} \cup Authorizations,
           Assemble(authorization),
           NEW old \in Bindings(document), NEW new \in Bindings(document'),
           SameScope(old, new), old # new
    PROVE  old.commit # new.commit /\ consent' = Authorization(old, new)
<1>1. /\ document' = NextDocument /\ consent' = authorization /\ Traversal
      /\ PolicyAllows(authorization)
  BY DEF Assemble, ReplayInv, ResolutionInv
<1>2. old.package = new.package
  BY DEF SameScope
<1>3. ReservoirGraph # {} /\ ~request.frozen
  BY <1>1, <1>2 DEF NextDocument, Bindings, DocumentInv
<1>4. PICK c \in ReservoirGraph : new = Binding(c)
  BY <1>1, <1>3 DEF NextDocument, Bindings, Document
<1>5. c \in request.registry /\ c \in Candidate
  BY <1>1, <1>4, KeysOfTraversal, RegistryAssumption
     DEF ReservoirGraph, Graph, Traversal, QuestionIsTyped
<1>6. new.package = c.key /\ new.version = c.req.rev
  BY <1>4 DEF Binding
<1>7. ActiveBinding(c) = old
  <2> DEFINE F == {b \in IF document = NoDocument THEN {} ELSE document.bindings :
                      b.package = c.key /\ b.version = c.req.rev}
  <2>1. old \in F
    BY <1>6 DEF Bindings, SameScope
  <2>2. \A b \in F : b = old
    BY <1>2, <1>6 DEF Bindings, DocumentInv
  <2>3. F # {} /\ (CHOOSE b \in F : TRUE) = old
    BY <2>1, <2>2
  <2> QED
    BY <2>3 DEF ActiveBinding
<1>8. old # NoBinding
  BY BindingAssumption DEF DocumentInv
<1>9. new \in Observations(c) /\ IsFiniteSet(Observations(c))
  <2>1. c \in {d \in Available(c.key) : d.req = c.req}
    BY <1>5 DEF Available
  <2>2. IsFiniteSet({d \in Available(c.key) : d.req = c.req})
    BY <1>1, RegistryAssumption, FS_Subset DEF Available, Traversal, QuestionIsTyped
  <2>3. Observations(c) = {Binding(d) : d \in {d \in Available(c.key) : d.req = c.req}}
    BY DEF Observations
  <2> DEFINE D == {d \in Available(c.key) : d.req = c.req}
  <2> HIDE DEF D
  <2>4. IsFiniteSet({Binding(d) : d \in D})
    <3> DEFINE T == {Binding(d) : d \in D}
               f == [d \in D |-> Binding(d)]
    <3>1. f \in Surjection(D, T)
      BY DEF Surjection
    <3> HIDE DEF T, f
    <3>2. IsFiniteSet(T)
      BY <2>2, <3>1, FS_Surjection DEF D
    <3> QED
      BY <3>2 DEF T
  <2> QED
    BY <1>4, <2>1, <2>3, <2>4 DEF D
<1> DEFINE presented == IF authorization # NoAuthorization /\ authorization.package = c.key
                        THEN authorization ELSE NoAuthorization
<1>10. Evaluate(old, Observations(c), presented) \in
         {"FirstResolutionPending", "StableBinding", "ExplicitRebindAccepted"}
  BY <1>1, <1>3, <1>4, <1>7 DEF PolicyAllows, Verdict
<1> HIDE DEF presented
<1>11. Cardinality(Observations(c)) = 1
  BY <1>8, <1>10 DEF Evaluate
<1>12. (CHOOSE o \in Observations(c) : TRUE) = new
  <2>1. Observations(c) = {new}
    BY <1>9, <1>11, FS_Singleton
  <2> QED
    BY <2>1
<1>13. presented # NoAuthorization /\ AuthorizationMatches(presented, old, new)
  BY <1>8, <1>10, <1>11, <1>12 DEF Evaluate
<1>14. presented = authorization /\ authorization \in Authorizations
  BY <1>13 DEF presented
<1>15. PICK m : authorization = Authorization(m[1], m[2]) /\ m[1].commit # m[2].commit
  BY <1>14 DEF Authorizations
<1>16. m[1] = old /\ m[2] = new
  BY <1>13, <1>14, <1>15 DEF AuthorizationMatches, Authorization
<1> QED
  BY <1>1, <1>15, <1>16

\* What replaces the active lock is validate_mode_result's: untargeted packages
\* keep content and edges, what disappears was reachable from a target, and a
\* bound Reservoir version moves only as evaluate_reservoir_binding_v1 was
\* authorized to move it.
THEOREM UpdatesAreTargeted == Spec => UpdateIsTargeted
<1>1. (ReplayInv /\ DocumentInv) /\ [Next]_vars => [ReplacesAsAsked]_vars
  <2> SUFFICES ASSUME ReplayInv, DocumentInv, Next
               PROVE  ReplacesAsAsked
    OBVIOUS
  <2>1. ASSUME NEW authorization \in {NoAuthorization} \cup Authorizations,
               Assemble(authorization), request.locked
        PROVE  /\ \A p \in LockedPackages, q \in lock'.packages :
                    (p.key = q.key /\ p.key \notin request.targets) =>
                        p.exact = q.exact /\ p.deps = q.deps
               /\ {p.key : p \in LockedPackages} \ {q.key : q \in lock'.packages}
                    \subseteq ImpactClosure(ActiveDeps, request.targets)
    <3>1. phase = "fetched" /\ lock'.packages = NewLock
      BY <2>1 DEF Assemble, NextLock
    <3>2. LockedPackages = ActivePackages
      BY <2>1, <3>1 DEF LockedPackages, ActivePackages, ReplayInv, ResolutionInv,
                        Traversal, QuestionIsTyped
    <3> QED
      BY <2>1, <3>1, <3>2, AssemblyKeepsPins
  <2>2. ASSUME NEW authorization \in {NoAuthorization} \cup Authorizations,
               Assemble(authorization),
               NEW old \in Bindings(document), NEW new \in Bindings(document'),
               SameScope(old, new), old # new
        PROVE  old.commit # new.commit /\ consent' = Authorization(old, new)
    BY <2>2, BindingMovesAsAuthorized
  <2>3. ASSUME UNCHANGED document,
               NEW old \in Bindings(document), NEW new \in Bindings(document'),
               SameScope(old, new)
        PROVE  old = new
    BY <2>3 DEF DocumentInv, Bindings, SameScope
  <2>4. (\E authorization \in {NoAuthorization} \cup Authorizations : Assemble(authorization))
        \/ UNCHANGED <<lock, document>>
    BY DEF Next, vars, companion, Request, Shadow, Select, NextParent, Finish, Stop, Fetch, GiveUp
  <2>5. CASE UNCHANGED <<lock, document>>
    BY <2>3, <2>5 DEF ReplacesAsAsked
  <2>6. CASE \E authorization \in {NoAuthorization} \cup Authorizations : Assemble(authorization)
    BY <2>1, <2>2, <2>6 DEF ReplacesAsAsked
  <2> QED
    BY <2>4, <2>5, <2>6
<1> QED
  BY <1>1, DocumentInvariant, PTL DEF Spec, UpdateIsTargeted

-----------------------------------------------------------------------------
(* What was fetched.                                                       *)

\* The objects are those of one run for all packages that share a task.
FetchedBy(runner) ==
    /\ runner \in [SelectedKeys -> Graph]
    /\ \A k, l \in SelectedKeys :
          /\ SharesTask(selected[k].candidate, runner[k])
          /\ SharesTask(selected[k].candidate, selected[l].candidate) => runner[k] = runner[l]
    /\ objects = [k \in SelectedKeys |-> Object(runner[k])]

FetchInv == phase = "fetched" => \E runner : FetchedBy(runner)

LEMMA FetchStep == FetchInv /\ [Next]_vars => FetchInv'
<1> SUFFICES ASSUME FetchInv, [Next]_vars
             PROVE  FetchInv'
  OBVIOUS
<1>1. CASE Fetch
  <2>1. PICK runner \in [SelectedKeys -> Graph] :
            /\ \A k, l \in SelectedKeys :
                  /\ SharesTask(selected[k].candidate, runner[k])
                  /\ SharesTask(selected[k].candidate, selected[l].candidate) =>
                        runner[k] = runner[l]
            /\ objects' = [k \in SelectedKeys |-> Object(runner[k])]
    BY <1>1 DEF Fetch
  <2>2. selected' = selected
    BY <1>1 DEF Fetch
  <2>3. FetchedBy(runner)'
    BY <2>1, <2>2 DEF FetchedBy, SelectedKeys, Graph
  <2> QED
    BY <2>3 DEF FetchInv
<1>2. CASE phase' # "fetched"
  BY <1>2 DEF FetchInv
<1>3. CASE UNCHANGED <<phase, selected, objects>>
  BY <1>3 DEF FetchInv, FetchedBy, SelectedKeys, Graph
<1>4. Fetch \/ phase' # "fetched" \/ UNCHANGED <<phase, selected, objects>>
  <2>1. ASSUME NEW root \in Roots, NEW registry \in Registries, NEW frozen \in BOOLEAN,
               NEW locked \in BOOLEAN, NEW targets \in UpdateSets,
               Request(root, registry, frozen, targets, locked)
        PROVE  phase' # "fetched"
    BY <2>1 DEF Request
  <2>2. Shadow \/ Select \/ NextParent => phase' # "fetched"
    BY DEF Shadow, Select, NextParent, Selecting, Stop
  <2>3. Finish => phase' # "fetched"
    BY DEF Finish, Stop
  <2>4. GiveUp \/ (\E authorization \in {NoAuthorization} \cup Authorizations :
                        Assemble(authorization)) => phase' # "fetched"
    BY DEF GiveUp, Assemble, Reset
  <2> QED
    BY <2>1, <2>2, <2>3, <2>4 DEF Next, vars
<1> QED
  BY <1>1, <1>2, <1>3, <1>4

\* A task may run for another package of the same source, and its object then
\* describes that package.  The package it was run for has the same object, so
\* that no object is left that has the key of the one that joined, and the
\* comparison of keys in LeanBunGenerationV1::new refuses them all.
THEOREM ObjectsAreOfTheirPackages == Spec => []NoObjectOfAnother
<1>1. ASSUME ResolutionInv, FetchInv PROVE NoObjectOfAnother
  <2> SUFFICES ASSUME phase = "fetched", GenerationIsAccepted, NEW k \in SelectedKeys
               PROVE  objects[k] = Object(selected[k].candidate)
    BY DEF NoObjectOfAnother
  <2>1. PICK runner : FetchedBy(runner)
    BY <1>1 DEF FetchInv
  <2>2. Traversal
    BY <1>1 DEF ResolutionInv
  <2>3. /\ \A l \in SelectedKeys : selected[l].candidate.key = l
        /\ \A c \in Graph : c.key \in SelectedKeys /\ c = selected[c.key].candidate
        /\ Keys(NewLock) = SelectedKeys
    BY <2>2, GraphHasKeys DEF Keys
  <2>4. PICK j \in SelectedKeys : runner[k] = selected[j].candidate
    BY <2>1, <2>3 DEF FetchedBy
  <2>5. runner[j] = runner[k]
    BY <2>1, <2>4 DEF FetchedBy
  <2>6. k \in Keys(Range(objects))
    BY <2>3 DEF GenerationIsAccepted, GenerationMatches, NextLock
  <2>7. PICK m \in SelectedKeys : runner[m].key = k
    <3>1. PICK m \in SelectedKeys : Object(runner[m]).key = k
      BY <2>1, <2>6 DEF Keys, Range, FetchedBy
    <3> QED
      BY <3>1 DEF Object
  <2>8. runner[m] = selected[k].candidate
    BY <2>1, <2>3, <2>7 DEF FetchedBy
  <2>9. runner[m] = runner[k]
    <3>1. SharesTask(selected[m].candidate, selected[k].candidate)
      BY <2>1, <2>8 DEF FetchedBy
    <3> QED
      BY <2>1, <3>1 DEF FetchedBy
  <2> QED
    BY <2>1, <2>8, <2>9 DEF FetchedBy
<1>2. Init => FetchInv
  BY DEF Init, FetchInv
<1> QED
  BY <1>1, <1>2, FetchStep, ResolutionInvariant, PTL DEF Spec

-----------------------------------------------------------------------------
(* Cycles.                                                                 *)

\* A path of more packages than there are comes back to one of them.
LEMMA LongPathReturns ==
    ASSUME NEW K, IsFiniteSet(K), NEW n, n = Cardinality(K) + 1, NEW key \in [1..n -> K]
    PROVE  \E i, j \in 1..n : i < j /\ key[i] = key[j]
<1>1. Cardinality(K) \in Nat /\ n \in Nat
  BY FS_CardinalityType
<1>2. IsFiniteSet(1..n) /\ Cardinality(K) < Cardinality(1..n)
  BY <1>1, FS_Interval
<1>3. PICK i, j \in 1..n : i # j /\ key[i] = key[j]
  BY <1>2, FS_PigeonHole
<1>4. i < j \/ j < i
  BY <1>1, <1>3
<1> QED
  BY <1>3, <1>4

\* Where there is always a package that has none below it, no path comes back.
LEMMA GroundedHasNoCycle ==
    ASSUME NEW deps, NEW D, IsGrounded(deps, D),
           NEW n \in Nat, NEW i \in 1..n, NEW j \in 1..n, i < j,
           NEW key \in [1..n -> D],
           \A l \in 1..(n - 1) : key[l + 1] \in deps[key[l]],
           key[i] = key[j]
    PROVE  FALSE
<1> DEFINE T == {key[l] : l \in i..(j - 1)}
<1>1. T \in SUBSET D
  OBVIOUS
<1>2. key[i] \in T
  OBVIOUS
<1>3. ASSUME NEW l \in i..(j - 1) PROVE deps[key[l]] \cap T # {}
  <2>1. l \in 1..(n - 1) /\ key[l + 1] \in deps[key[l]]
    OBVIOUS
  <2>2. CASE l = j - 1
    <3>1. l + 1 = j
      BY <2>2
    <3> QED
      BY <1>2, <2>1, <3>1
  <2>3. CASE l # j - 1
    <3>1. l + 1 \in i..(j - 1)
      BY <2>3
    <3>2. key[l + 1] \in T
      BY <3>1
    <3> QED
      BY <2>1, <3>2
  <2> QED
    BY <2>2, <2>3
<1>4. \A k \in T : deps[k] \cap T # {}
  BY <1>3
<1> QED
  <2> HIDE DEF T
  <2> QED
    BY <1>1, <1>2, <1>4 DEF IsGrounded

\* validate_cycles_and_depth does not enter a package again that it has left,
\* nor does it compare paths; still no path of an accepted graph visits more
\* packages than there are: with every package that is left, the packages that
\* were left stay grounded.
THEOREM AcceptedGraphHasNoCycle == Spec => []GraphIsAcyclic
<1>1. ASSUME ResolutionInv PROVE GraphIsAcyclic
  <2> SUFFICES ASSUME Resolved, HasPath(NewLock, Cardinality(SelectedKeys) + 1) PROVE FALSE
    BY DEF GraphIsAcyclic
  <2>1. Traversal /\ batch = <<>> /\ queue = <<>> /\ CycleOrDepthError = "none"
    <3>1. Traversal /\ OutcomeIsEarned /\ outcome = "resolved"
      BY <1>1 DEF ResolutionInv, Resolved
    <3> QED
      BY <3>1 DEF OutcomeIsEarned, SelectionErrors
  <2>2. IsGrounded(SelectedDeps, SelectedKeys)
    <3>1. DOMAIN SelectedDeps = SelectedKeys
      BY DEF SelectedDeps
    <3> QED
      BY <2>1, <3>1, SelectedIsGraph, WalkIsSound DEF CycleOrDepthError
  <2>3. IsFiniteSet(SelectedKeys)
    BY <2>1, KeysOfTraversal, LockAssumption, FS_Subset
  <2> DEFINE n == Cardinality(SelectedKeys) + 1
  <2>4. n \in Nat
    BY <2>3, FS_CardinalityType
  <2>5. PICK path \in [1..n -> NewLock] : \A i \in 1..(n - 1) : path[i + 1].key \in path[i].deps
    BY DEF HasPath
  <2>6. \A p \in NewLock : p.key \in SelectedKeys /\ p.deps = SelectedDeps[p.key]
    BY <2>1, GraphHasKeys DEF Locked, SelectedDeps
  <2> DEFINE key == [l \in 1..n |-> path[l].key]
  <2>7. key \in [1..n -> SelectedKeys]
    BY <2>5, <2>6
  <2>8. \A l \in 1..(n - 1) : key[l + 1] \in SelectedDeps[key[l]]
    <3> HIDE DEF n
    <3> SUFFICES ASSUME NEW l \in 1..(n - 1) PROVE key[l + 1] \in SelectedDeps[key[l]]
      OBVIOUS
    <3>1. l \in 1..n /\ l + 1 \in 1..n
      BY <2>4
    <3> QED
      BY <2>5, <2>6, <3>1
  <2>9. n = Cardinality(SelectedKeys) + 1
    OBVIOUS
  <2> HIDE DEF n, key
  <2>10. PICK i, j \in 1..n : i < j /\ key[i] = key[j]
    BY <2>3, <2>7, <2>9, LongPathReturns
  <2> QED
    BY <2>2, <2>4, <2>7, <2>8, <2>10, GroundedHasNoCycle
<1> QED
  BY <1>1, ResolutionInvariant, PTL

-----------------------------------------------------------------------------
(* Texts.                                                                  *)

\* One sequence after the other.
LEMMA Joined ==
    ASSUME NEW S, NEW s \in Seq(S), NEW t \in Seq(S)
    PROVE  /\ s \o t \in Seq(S) /\ Len(s \o t) = Len(s) + Len(t)
           /\ \A i \in 1..Len(s) : (s \o t)[i] = s[i]
           /\ \A i \in 1..Len(t) : (s \o t)[Len(s) + i] = t[i]
OBVIOUS

\* What h, f and e make together.
AllThree(S, h, f, e, t) ==
    /\ t \in Seq(S) /\ Len(t) = Len(h) + Len(f) + Len(e)
    /\ \A i \in 1..Len(h) : t[i] = h[i]
    /\ \A i \in 1..Len(f) : t[Len(h) + i] = f[i]
    /\ \A i \in 1..Len(e) : t[Len(h) + Len(f) + i] = e[i]

\* Three sequences one after the other.
LEMMA JoinedThree ==
    ASSUME NEW S, NEW h \in Seq(S), NEW f \in Seq(S), NEW e \in Seq(S)
    PROVE  AllThree(S, h, f, e, (h \o f) \o e)
<1> DEFINE u == h \o f
           t == u \o e
<1>1. /\ u \in Seq(S) /\ Len(u) = Len(h) + Len(f)
      /\ \A i \in 1..Len(h) : u[i] = h[i]
      /\ \A i \in 1..Len(f) : u[Len(h) + i] = f[i]
  BY Joined
<1> HIDE DEF u
<1>2. /\ t \in Seq(S) /\ Len(t) = Len(u) + Len(e)
      /\ \A i \in 1..Len(u) : t[i] = u[i]
      /\ \A i \in 1..Len(e) : t[Len(u) + i] = e[i]
  <2>1. u \in Seq(S) /\ e \in Seq(S)
    BY <1>1
  <2> QED
    BY ONLY <2>1, Joined
<1>3. Len(h) \in Nat /\ Len(f) \in Nat /\ Len(e) \in Nat
  OBVIOUS
<1> HIDE DEF t
<1>4. ASSUME NEW i \in 1..Len(h) PROVE t[i] = h[i]
  BY <1>1, <1>2, <1>3
<1>5. ASSUME NEW i \in 1..Len(f) PROVE t[Len(h) + i] = f[i]
  <2>1. Len(h) + i \in 1..Len(u)
    BY <1>1, <1>3
  <2> QED
    BY <1>1, <1>2, <2>1
<1>6. t \in Seq(S) /\ Len(t) = Len(h) + Len(f) + Len(e)
  BY <1>1, <1>2
<1>7. \A i \in 1..Len(e) : t[Len(h) + Len(f) + i] = e[i]
  BY <1>1, <1>2
<1> QED
  BY <1>2, <1>4, <1>5, <1>6, <1>7 DEF t, u, AllThree

\* Where the n sequences of s begin when they are put together: the i-th after
\* place off[i - 1].
Flattened(s, n, off, text) ==
    /\ off \in [0..n -> Nat] /\ off[0] = 0
    /\ Len(text) = off[n]
    /\ \A i \in 1..n : off[i] = off[i - 1] + Len(s[i]) /\ off[i] <= off[n]
    /\ \A i \in 1..n : \A j \in 1..Len(s[i]) : text[off[i - 1] + j] = s[i][j]
    /\ \A m \in 1..off[n] : \E i \in 1..n : \E j \in 1..Len(s[i]) : m = off[i - 1] + j

\* FlattenSeq puts them together so.
LEMMA FlattenedTogether ==
    ASSUME NEW S, NEW n \in Nat, NEW s \in [1..n -> Seq(S)], Len(s) = n
    PROVE  /\ FlattenSeq(s) \in Seq(S)
           /\ \E off : Flattened(s, n, off, FlattenSeq(s))
<1> DEFINE T == Seq(S)
           F == [i \in 1..n |-> [x \in T |-> x \o s[i]]]
<1>1. F \in [1..n -> [T -> T]] /\ <<>> \in T
  OBVIOUS
<1>2. PICK g : Follows(g, n, T, <<>>, F)
  <2> HIDE DEF F, T
  <2> QED
    BY <1>1, Recursion
<1>3. /\ g \in [0..n -> T] /\ g[0] = <<>>
      /\ \A i \in 1..n : g[i] = g[i - 1] \o s[i] /\ g[i - 1] \in T
  <2>1. g \in [0..n -> T] /\ g[0] = <<>> /\ \A i \in 1..n : g[i] = F[i][g[i - 1]]
    BY <1>2 DEF Follows
  <2>2. ASSUME NEW i \in 1..n PROVE g[i] = g[i - 1] \o s[i] /\ g[i - 1] \in T
    <3>1. g[i - 1] \in T
      BY <2>1
    <3>2. F[i] = [x \in T |-> x \o s[i]]
      OBVIOUS
    <3> QED
      BY <2>1, <3>1, <3>2
  <2> QED
    BY <2>1, <2>2
<1>4. \A i \in 1..n : Len(g[i]) = Len(g[i - 1]) + Len(s[i])
  BY <1>3, Joined
<1> DEFINE off == [i \in 0..n |-> Len(g[i])]
<1>5. off \in [0..n -> Nat] /\ off[0] = 0
  BY <1>3
<1>6. \A i \in 1..n : off[i] = off[i - 1] + Len(s[i])
  BY <1>4
<1>7. FlattenSeq(s) = g[n]
  <2>1. CASE n = 0
    <3>1. s = <<>>
      BY <2>1
    <3>2. FlattenSeq(s) = s
      BY <2>1 DEF FlattenSeq
    <3> QED
      BY <1>3, <2>1, <3>1, <3>2
  <2>2. CASE n # 0
    <3> DEFINE Defines(f) == f = [i \in 1..n |-> IF i = 1 THEN s[i] ELSE f[i - 1] \o s[i]]
               h == [i \in 1..n |-> g[i]]
               f == CHOOSE x : Defines(x)
    <3>1. Defines(h)
      <4>1. ASSUME NEW i \in 1..n
            PROVE  h[i] = IF i = 1 THEN s[i] ELSE h[i - 1] \o s[i]
        <5>1. CASE i = 1
          <6>1. i - 1 = 0 /\ g[0] = <<>> /\ s[i] \in Seq(S)
            BY <1>3, <5>1
          <6>2. g[i] = g[i - 1] \o s[i]
            BY <1>3
          <6>3. <<>> \o s[i] = s[i]
            BY <6>1
          <6>4. g[i] = s[i]
            BY <6>1, <6>2, <6>3
          <6> QED
            BY <5>1, <6>4
        <5>2. CASE i # 1
          <6>1. i - 1 \in 1..n
            BY <5>2
          <6> QED
            BY <1>3, <5>2, <6>1
        <5> QED
          BY <5>1, <5>2
      <4> QED
        BY <4>1
    <3>2. Defines(f)
      <4> HIDE DEF Defines
      <4> QED
        BY <3>1
    <3>3. \A i \in 1..n : f[i] = IF i = 1 THEN s[i] ELSE f[i - 1] \o s[i]
      <4> HIDE DEF f
      <4> QED
        BY <3>2
    <3> DEFINE I == {0} \cup {i \in 1..n : f[i] = h[i]}
    <3>4. ASSUME NEW i \in 1..n, i - 1 \in I PROVE i \in I
      <4> HIDE DEF f
      <4>1. CASE i = 1
        BY <3>1, <3>3, <4>1
      <4>2. CASE i # 1
        <5>1. i - 1 \in 1..n /\ f[i - 1] = h[i - 1]
          BY <3>4, <4>2
        <5>2. f[i] = f[i - 1] \o s[i]
          BY <3>3, <4>2
        <5>3. h[i] = h[i - 1] \o s[i]
          BY <3>1, <4>2
        <5> QED
          BY <5>1, <5>2, <5>3
      <4> QED
        BY <4>1, <4>2
    <3>5. 0..n \subseteq I
      <4>1. 0 \in I
        OBVIOUS
      <4> HIDE DEF I
      <4> QED
        BY <3>4, <4>1, Inductive
    <3>6. f[n] = h[n]
      <4> HIDE DEF f, h
      <4>1. n \in I
        BY <3>5
      <4> QED
        BY <2>2, <4>1
    <3>7. FlattenSeq(s) = f[n]
      BY <2>2 DEF FlattenSeq
    <3> HIDE DEF f
    <3> QED
      BY <2>2, <3>6, <3>7
  <2> QED
    BY <2>1, <2>2
\* What the first i of them make together.
<1> DEFINE Together(i) ==
                /\ \A k \in 1..i : off[k] <= off[i]
                /\ \A k \in 1..i : \A j \in 1..Len(s[k]) : g[i][off[k - 1] + j] = s[k][j]
                /\ \A m \in 1..off[i] : \E k \in 1..i : \E j \in 1..Len(s[k]) : m = off[k - 1] + j
           J == {i \in 0..n : Together(i)}
<1> HIDE DEF off
<1>8. 0 \in J
  BY <1>5
<1>9. ASSUME NEW i \in 1..n, i - 1 \in J PROVE i \in J
  <2>1. /\ g[i] = g[i - 1] \o s[i] /\ off[i] = off[i - 1] + Len(s[i])
        /\ g[i - 1] \in Seq(S) /\ s[i] \in Seq(S) /\ Len(g[i - 1]) = off[i - 1]
        /\ off[i] \in Nat /\ off[i - 1] \in Nat /\ Len(s[i]) \in Nat
    <3>1. i \in 0..n /\ i - 1 \in 0..n
      OBVIOUS
    <3>2. g[i] = g[i - 1] \o s[i] /\ g[i - 1] \in Seq(S) /\ s[i] \in Seq(S)
      BY <1>3
    <3>3. Len(g[i - 1]) = off[i - 1]
      BY <3>1 DEF off
    <3>4. off[i] \in Nat /\ off[i - 1] \in Nat /\ off[i] = off[i - 1] + Len(s[i])
      BY <1>5, <1>6, <3>1
    <3>5. Len(s[i]) \in Nat
      BY <3>2
    <3> QED
      BY <3>2, <3>3, <3>4, <3>5
  <2>2. /\ \A j \in 1..off[i - 1] : g[i][j] = g[i - 1][j]
        /\ \A j \in 1..Len(s[i]) : g[i][off[i - 1] + j] = s[i][j]
    <3>1. /\ \A j \in 1..Len(g[i - 1]) : (g[i - 1] \o s[i])[j] = g[i - 1][j]
          /\ \A j \in 1..Len(s[i]) : (g[i - 1] \o s[i])[Len(g[i - 1]) + j] = s[i][j]
      <4>1. g[i - 1] \in Seq(S) /\ s[i] \in Seq(S)
        BY <2>1
      <4> QED
        BY ONLY <4>1, Joined
    <3> QED
      BY <2>1, <3>1
  <2>3. Together(i - 1)
    BY <1>9
  <2>4. \A k \in 1..i : k = i \/ k \in 1..(i - 1)
    OBVIOUS
  <2>5. \A k \in 1..i : off[k] <= off[i]
    BY <1>5, <2>1, <2>3, <2>4
  <2>6. ASSUME NEW k \in 1..i, NEW j \in 1..Len(s[k]) PROVE g[i][off[k - 1] + j] = s[k][j]
    <3>1. CASE k = i
      BY <2>2, <3>1
    <3>2. CASE k \in 1..(i - 1)
      <4>1. g[i - 1][off[k - 1] + j] = s[k][j] /\ off[k] <= off[i - 1]
        BY <2>3, <3>2
      <4>2. off[k] = off[k - 1] + Len(s[k]) /\ off[k - 1] \in Nat /\ off[k] \in Nat
        BY <1>5, <1>6, <3>2
      <4>3. off[k - 1] + j \in 1..off[i - 1]
        <5>1. Len(s[k]) \in Nat
          BY <3>2
        <5> QED
          <6>1. j \in Nat /\ 1 <= j /\ j <= Len(s[k])
            BY <5>1
          <6>2. \A a, b, c, l \in Nat :
                    1 <= j /\ j <= l /\ b = a + l /\ b <= c => a + j \in 1..c
            BY ONLY <6>1
          <6>3. off[k - 1] \in Nat /\ off[k] \in Nat /\ off[i - 1] \in Nat
            BY <2>1, <4>2
          <6> QED
            BY <6>3, <5>1, <4>1, <4>2, <6>1, <6>2
      <4> QED
        BY <2>2, <4>1, <4>3
    <3> QED
      BY <2>4, <3>1, <3>2
  <2>7. ASSUME NEW m \in 1..off[i]
        PROVE  \E k \in 1..i : \E j \in 1..Len(s[k]) : m = off[k - 1] + j
    <3>1. CASE m \in 1..off[i - 1]
      <4>1. PICK k \in 1..(i - 1) : \E j \in 1..Len(s[k]) : m = off[k - 1] + j
        BY <2>3, <3>1
      <4>2. k \in 1..i
        OBVIOUS
      <4> QED
        BY <4>1, <4>2
    <3>2. CASE m \notin 1..off[i - 1]
      <4> DEFINE j == m - off[i - 1]
      <4>1. j \in 1..Len(s[i]) /\ m = off[i - 1] + j
        BY <2>1, <3>2
      <4> QED
        BY <4>1
    <3> QED
      BY <3>1, <3>2
  <2> QED
    BY <2>5, <2>6, <2>7
<1>10. n \in J
  <2>1. 0..n \subseteq J
    <3> HIDE DEF J
    <3> QED
      BY <1>8, <1>9, Inductive
  <2> QED
    BY <2>1
<1>11. Len(g[n]) = off[n] /\ g[n] \in Seq(S)
  BY <1>3 DEF off
<1>12. Flattened(s, n, off, g[n])
  <2> HIDE DEF J
  <2>1. Together(n)
    BY <1>10 DEF J
  <2> QED
    BY <1>5, <1>6, <1>11, <2>1 DEF Flattened
<1> QED
  BY <1>7, <1>11, <1>12

\* A sequence without one element.
LEMMA RemovedAt ==
    ASSUME NEW S, NEW t \in Seq(S), NEW i \in 1..Len(t)
    PROVE  /\ RemoveAt(t, i) \in Seq(S) /\ Len(RemoveAt(t, i)) = Len(t) - 1
           /\ \A j \in 1..(i - 1) : RemoveAt(t, i)[j] = t[j]
           /\ \A j \in i..(Len(t) - 1) : RemoveAt(t, i)[j] = t[j + 1]
<1> DEFINE a == SubSeq(t, 1, i - 1)
           b == SubSeq(t, i + 1, Len(t))
<1>1. /\ a \in Seq(S) /\ Len(a) = i - 1 /\ \A j \in 1..(i - 1) : a[j] = t[j]
      /\ b \in Seq(S) /\ Len(b) = Len(t) - i /\ \A j \in 1..(Len(t) - i) : b[j] = t[j + i]
  OBVIOUS
<1>2. RemoveAt(t, i) = a \o b
  BY DEF RemoveAt
<1> HIDE DEF a, b
<1>3. /\ a \o b \in Seq(S) /\ Len(a \o b) = Len(a) + Len(b)
      /\ \A j \in 1..Len(a) : (a \o b)[j] = a[j]
      /\ \A j \in 1..Len(b) : (a \o b)[Len(a) + j] = b[j]
  <2>1. a \in Seq(S) /\ b \in Seq(S)
    BY <1>1
  <2> QED
    BY ONLY <2>1, Joined
<1>4. Len(t) \in Nat /\ Len(a \o b) = Len(t) - 1
  BY <1>1, <1>3
<1>5. ASSUME NEW j \in 1..(i - 1) PROVE (a \o b)[j] = t[j]
  BY <1>1, <1>3
<1>6. ASSUME NEW j \in i..(Len(t) - 1) PROVE (a \o b)[j] = t[j + 1]
  <2> DEFINE m == j - i + 1
  <2>1. m \in 1..(Len(t) - i) /\ (i - 1) + m = j /\ m + i = j + 1
    BY <1>4
  <2> HIDE DEF m
  <2>2. (a \o b)[Len(a) + m] = b[m] /\ b[m] = t[m + i]
    BY <1>1, <1>3, <2>1
  <2>3. Len(a) + m = j
    BY <1>1, <2>1
  <2> QED
    BY <2>1, <2>2, <2>3
<1> QED
  BY <1>2, <1>3, <1>4, <1>5, <1>6

\* A sequence with two neighbours swapped.
LEMMA SwappedAt ==
    ASSUME NEW S, NEW t \in Seq(S), NEW i \in 1..(Len(t) - 1)
    PROVE  /\ Swapped(t, i) \in Seq(S) /\ Len(Swapped(t, i)) = Len(t)
           /\ Swapped(t, i)[i] = t[i + 1] /\ Swapped(t, i)[i + 1] = t[i]
           /\ \A j \in 1..Len(t) : j \notin {i, i + 1} => Swapped(t, i)[j] = t[j]
<1>1. Len(t) \in Nat /\ i \in 1..Len(t) /\ i + 1 \in 1..Len(t) /\ i # i + 1
  OBVIOUS
<1> QED
  BY <1>1 DEF Swapped

-----------------------------------------------------------------------------
(* What is written of packages.                                            *)

\* Things of a key each, and each with its own.
IsKeyed(S) == (\A x \in S : x.key \in Key) /\ OnePerKey(S)

\* What has keys, in the order of its keys.
KeyedOrder(S, n, s) ==
    /\ n \in Nat /\ s \in [1..n -> S] /\ Len(s) = n /\ DOMAIN s = 1..n
    /\ \A i, j \in 1..n : i < j => s[i].key < s[j].key
    /\ \A x \in S : \E i \in 1..n : s[i] = x
    /\ \A i \in 1..n : Of(S, s[i].key) = s[i]
    /\ Cardinality(S) = n /\ IsFiniteSet(S)

\* What is looked up by a key that it alone has is found.
LEMMA OfKeyed ==
    ASSUME NEW S, IsKeyed(S), NEW x \in S
    PROVE  Of(S, x.key) = x
BY DEF IsKeyed, OnePerKey, Of

\* InKeyOrderOf lists all of them so.
LEMMA KeyedInOrder ==
    ASSUME NEW S, IsKeyed(S)
    PROVE  KeyedOrder(S, Cardinality(S), InKeyOrderOf(S))
<1> DEFINE K == Keys(S)
           n == Cardinality(K)
           keys == InKeyOrder(K)
           s == [i \in 1..n |-> Of(S, keys[i])]
<1>1. K \in SUBSET Nat /\ IsFiniteSet(K)
  <2>1. K \in SUBSET Key
    BY DEF IsKeyed, Keys
  <2> QED
    BY <2>1, LockAssumption, FS_Subset
<1>2. /\ keys \in [1..n -> K] /\ n \in Nat /\ DOMAIN keys = 1..n
      /\ \A i, j \in 1..n : i < j => keys[i] < keys[j]
      /\ \A k \in K : \E i \in 1..n : keys[i] = k
  <2> HIDE DEF K
  <2> QED
    BY <1>1, KeysInOrder
<1>3. InKeyOrderOf(S) = s
  BY <1>2 DEF InKeyOrderOf
<1> HIDE DEF keys, n
<1>4. ASSUME NEW i \in 1..n PROVE Of(S, keys[i]) \in S /\ Of(S, keys[i]).key = keys[i]
  <2>1. PICK x \in S : x.key = keys[i]
    BY <1>2 DEF Keys
  <2> QED
    BY <2>1 DEF Of
<1>5. s \in [1..n -> S] /\ \A i \in 1..n : s[i].key = keys[i] /\ s[i] = Of(S, keys[i])
  BY <1>4
<1> HIDE DEF s
<1>6. \A i, j \in 1..n : i < j => s[i].key < s[j].key
  BY <1>2, <1>5
<1>7. \A x \in S : \E i \in 1..n : s[i] = x
  <2> SUFFICES ASSUME NEW x \in S PROVE \E i \in 1..n : s[i] = x
    OBVIOUS
  <2>1. x.key \in K
    BY DEF Keys
  <2>2. PICK i \in 1..n : keys[i] = x.key
    BY <1>2, <2>1
  <2> QED
    BY <1>5, <2>2, OfKeyed
<1>8. Cardinality(S) = n /\ IsFiniteSet(S)
  <2>1. \A i, j \in 1..n : s[i] = s[j] => i = j
    <3> SUFFICES ASSUME NEW i \in 1..n, NEW j \in 1..n, s[i] = s[j], i # j PROVE FALSE
      OBVIOUS
    <3>1. i < j \/ j < i
      BY <1>2
    <3>2. keys[i] = keys[j] /\ keys[i] \in Nat
      BY <1>1, <1>2, <1>5
    <3> QED
      BY <1>2, <3>1, <3>2
  <2>2. s \in Bijection(1..n, S)
    BY <1>5, <1>7, <2>1 DEF Bijection, Injection, IsInjective, Surjection
  <2>3. IsFiniteSet(1..n) /\ Cardinality(1..n) = n
    BY <1>2, FS_Interval
  <2> QED
    BY <2>2, <2>3, FS_Bijection DEF ExistsBijection
<1>9. Len(s) = n /\ DOMAIN s = 1..n
  BY <1>2, <1>5
<1>10. \A i \in 1..n : Of(S, s[i].key) = s[i]
  BY <1>5
<1> QED
  BY <1>2, <1>3, <1>5, <1>6, <1>7, <1>8, <1>9, <1>10 DEF KeyedOrder

LinesOf(p) ==
    {<<"package", p.key>>,
     <<"requested", p.req.kind, p.req.at, OptionText(p.req.rev)>>,
     <<"resolved", p.exact.kind, p.exact.at, p.exact.id>>,
     <<"dependency-count", Cardinality(p.deps)>>, <<"end-package">>}
    \cup {<<"dependency", k>> : k \in p.deps}

\* The lines of one package, of which there are m dependencies.
PackageText(p, m, L) ==
    /\ m \in Nat /\ L \in Seq(LinesOf(p)) /\ Len(L) = m + 5
    /\ L[1] = <<"package", p.key>>
    /\ L[2] = <<"requested", p.req.kind, p.req.at, OptionText(p.req.rev)>>
    /\ L[3] = <<"resolved", p.exact.kind, p.exact.at, p.exact.id>>
    /\ L[4] = <<"dependency-count", m>>
    /\ \A j \in 1..m : L[4 + j] = <<"dependency", InKeyOrder(p.deps)[j]>>
    /\ L[m + 5] = <<"end-package">>

\* PackageLines writes so.
LEMMA PackageLinesAre ==
    ASSUME NEW p, p.deps \in SUBSET Key
    PROVE  PackageText(p, Cardinality(p.deps), PackageLines(p))
<1> DEFINE m == Cardinality(p.deps)
           T == LinesOf(p)
           a == <<"package", p.key>>
           b == <<"requested", p.req.kind, p.req.at, OptionText(p.req.rev)>>
           c == <<"resolved", p.exact.kind, p.exact.at, p.exact.id>>
           d == <<"dependency-count", Cardinality(p.deps)>>
           e == <<"end-package">>
           D == DependencyLines(p)
           keys == InKeyOrder(p.deps)
<1>1. m \in Nat /\ keys \in [1..m -> p.deps] /\ DOMAIN keys = 1..m
  <2>1. p.deps \in SUBSET Nat /\ IsFiniteSet(p.deps)
    BY LockAssumption, FS_Subset
  <2> QED
    BY <2>1, KeysInOrder
<1>2. /\ D = [j \in 1..m |-> <<"dependency", keys[j]>>]
      /\ \A j \in 1..m : <<"dependency", keys[j]>> \in T
  BY <1>1 DEF DependencyLines, LinesOf
<1>3. D \in Seq(T) /\ Len(D) = m /\ \A j \in 1..m : D[j] = <<"dependency", keys[j]>>
  <2> HIDE DEF T, m
  <2> QED
    BY <1>1, <1>2
<1>4. {a, b, c, d, e} \subseteq T
  BY DEF LinesOf
<1>5. PackageLines(p) = (<<a, b, c, d>> \o D) \o <<e>>
  BY DEF PackageLines
<1> HIDE DEF T, m, a, b, c, d, e, D
<1>6. <<a, b, c, d>> \in Seq(T) /\ <<e>> \in Seq(T) /\ Len(<<a, b, c, d>>) = 4 /\ Len(<<e>>) = 1
  BY <1>4
<1> DEFINE s == <<a, b, c, d>> \o D
           L == s \o <<e>>
<1>7. /\ s \in Seq(T) /\ Len(s) = 4 + m
      /\ s[1] = a /\ s[2] = b /\ s[3] = c /\ s[4] = d
      /\ \A j \in 1..m : s[4 + j] = D[j]
  <2>1. D \in Seq(T)
    BY <1>3
  <2>2. /\ s \in Seq(T) /\ Len(s) = Len(<<a, b, c, d>>) + Len(D)
        /\ \A i \in 1..Len(<<a, b, c, d>>) : s[i] = <<a, b, c, d>>[i]
        /\ \A j \in 1..Len(D) : s[Len(<<a, b, c, d>>) + j] = D[j]
    BY ONLY <1>6, <2>1, Joined
  <2>3. s[1] = a /\ s[2] = b /\ s[3] = c /\ s[4] = d
    <3> HIDE DEF s
    <3> QED
      BY <1>6, <2>2
  <2> QED
    BY <1>3, <1>6, <2>2, <2>3
<1> HIDE DEF s
<1>8. /\ L \in Seq(T) /\ Len(L) = m + 5 /\ L[m + 5] = e
      /\ \A i \in 1..(4 + m) : L[i] = s[i]
  <2>1. /\ L \in Seq(T) /\ Len(L) = Len(s) + Len(<<e>>)
        /\ \A i \in 1..Len(s) : L[i] = s[i]
        /\ \A i \in 1..Len(<<e>>) : L[Len(s) + i] = <<e>>[i]
    <3>1. s \in Seq(T) /\ <<e>> \in Seq(T)
      BY <1>6, <1>7
    <3> QED
      BY ONLY <3>1, Joined
  <2>2. 1 \in 1..Len(<<e>>) /\ <<e>>[1] = e /\ Len(s) + 1 = m + 5
    BY <1>1, <1>6, <1>7
  <2> HIDE DEF L
  <2> QED
    BY <1>1, <1>6, <1>7, <2>1, <2>2
<1>9. PackageLines(p) = L
  BY <1>5 DEF s
<1> HIDE DEF L
<1>10. /\ L[1] = a /\ L[2] = b /\ L[3] = c /\ L[4] = d
       /\ \A j \in 1..m : L[4 + j] = D[j]
  BY <1>1, <1>7, <1>8
<1>11. PackageText(p, m, L)
  <2>1. d = <<"dependency-count", m>>
    BY DEF d, m
  <2>2. \A j \in 1..m : L[4 + j] = <<"dependency", InKeyOrder(p.deps)[j]>>
    BY <1>3, <1>10
  <2> QED
    BY <1>1, <1>8, <1>10, <2>1, <2>2 DEF PackageText, T, a, b, c, e
<1> QED
  BY <1>9, <1>11 DEF m

\* What can be locked: packages with a key each, as they are written.
IsLocked(P) == IsKeyed(P) /\ \A p \in P : IsPackage(p) /\ p.deps \subseteq Key

\* The lines of a package after place o.
PackageAt(t, o, p) ==
    LET m == Cardinality(p.deps)
    IN  /\ m \in Nat
        /\ t[o + 1] = <<"package", p.key>>
        /\ t[o + 2] = <<"requested", p.req.kind, p.req.at, OptionText(p.req.rev)>>
        /\ t[o + 3] = <<"resolved", p.exact.kind, p.exact.at, p.exact.id>>
        /\ t[o + 4] = <<"dependency-count", m>>
        /\ \A j \in 1..m : t[o + 4 + j] = <<"dependency", InKeyOrder(p.deps)[j]>>
        /\ t[o + m + 5] = <<"end-package">>

\* Where packages begin in a text: the i-th after place off[i - 1], the first
\* after the third line.
Places(s, n, off) ==
    /\ off \in [0..n -> Nat] /\ off[0] = 3
    /\ \A i \in 1..n : off[i] = off[i - 1] + Cardinality(s[i].deps) + 5 /\ off[i] <= off[n]
    /\ \A k \in 4..off[n] : \E i \in 1..n : k \in (off[i - 1] + 1)..off[i]

Header(r, n) == <<<<"leanbun-lock-v1", 1>>, <<"root-declaration-sha256", r>>, <<"package-count", n>>>>
Footer(P) == <<<<"graph-sha256", GraphDigest(P)>>, <<"end-lock">>>>
LinesOfLock(r, P) ==
    Range(Header(r, Cardinality(P))) \cup Range(Footer(P)) \cup UNION {LinesOf(p) : p \in P}

\* The lines of the lock of root r and packages P, which are s in order.
LockLines(t, r, P, n, s, off) ==
    /\ KeyedOrder(P, n, s)
    /\ Places(s, n, off)
    /\ t \in Seq(LinesOfLock(r, P)) /\ Len(t) = off[n] + 2
    /\ t[1] = <<"leanbun-lock-v1", 1>>
    /\ t[2] = <<"root-declaration-sha256", r>>
    /\ t[3] = <<"package-count", n>>
    /\ \A i \in 1..n : PackageAt(t, off[i - 1], s[i])
    /\ t[off[n] + 1] = <<"graph-sha256", GraphDigest(P)>>
    /\ t[off[n] + 2] = <<"end-lock">>

\* LockText writes so.
LEMMA LockTextIs ==
    ASSUME NEW r, NEW P, IsLocked(P)
    PROVE  \E n, off :
                LockLines(LockText([root |-> r, packages |-> P]), r, P, n, InKeyOrderOf(P), off)
<1> DEFINE n == Cardinality(P)
           s == InKeyOrderOf(P)
           T == LinesOfLock(r, P)
           lines == [i \in 1..n |-> PackageLines(s[i])]
           f == FlattenSeq(lines)
           h == Header(r, n)
           e == Footer(P)
           t == (h \o f) \o e
<1>1. KeyedOrder(P, n, s)
  BY KeyedInOrder DEF IsLocked
<1>2. /\ n \in Nat /\ s \in [1..n -> P] /\ DOMAIN s = 1..n /\ Len(s) = n
      /\ Cardinality(P) = n
  BY <1>1 DEF KeyedOrder
<1>3. LockText([root |-> r, packages |-> P]) = t
  BY <1>2 DEF LockText, Header, Footer
<1>4. \A i \in 1..n : PackageText(s[i], Cardinality(s[i].deps), PackageLines(s[i]))
  <2>1. \A i \in 1..n : s[i].deps \in SUBSET Key
    BY <1>2 DEF IsLocked
  <2> QED
    BY <2>1, PackageLinesAre
<1> HIDE DEF n, s
<1>5. lines \in [1..n -> Seq(T)] /\ Len(lines) = n
  <2>1. ASSUME NEW i \in 1..n PROVE PackageLines(s[i]) \in Seq(T)
    <3>1. PackageLines(s[i]) \in Seq(LinesOf(s[i]))
      BY <1>4 DEF PackageText
    <3>2. LinesOf(s[i]) \subseteq T
      BY <1>2 DEF LinesOfLock
    <3> HIDE DEF T
    <3> QED
      BY <3>1, <3>2
  <2> HIDE DEF T
  <2> QED
    BY <1>2, <2>1
<1> HIDE DEF lines
<1>6. /\ f \in Seq(T)
      /\ \E off : Flattened(lines, n, off, f)
  <2> HIDE DEF T
  <2> QED
    BY ONLY <1>2, <1>5, FlattenedTogether
<1>7. PICK o : Flattened(lines, n, o, f)
  BY <1>6
<1> HIDE DEF f
<1>8. h \in Seq(T) /\ e \in Seq(T) /\ Len(h) = 3 /\ Len(e) = 2
  <2>1. Range(h) \subseteq T /\ Range(e) \subseteq T
    BY DEF LinesOfLock, n
  <2> HIDE DEF T
  <2>2. h[1] \in T /\ h[2] \in T /\ h[3] \in T /\ e[1] \in T /\ e[2] \in T
    BY <2>1 DEF Range, Header, Footer
  <2> QED
    BY <2>2 DEF Header, Footer
<1>9. /\ t \in Seq(T) /\ Len(t) = Len(f) + 5
      /\ \A i \in 1..3 : t[i] = h[i]
      /\ \A i \in 1..Len(f) : t[3 + i] = f[i]
      /\ t[Len(f) + 4] = e[1] /\ t[Len(f) + 5] = e[2]
  <2> HIDE DEF T, h, e
  <2>1. h \in Seq(T) /\ f \in Seq(T) /\ e \in Seq(T)
    BY <1>6, <1>8
  <2>2. /\ t \in Seq(T) /\ Len(t) = Len(h) + Len(f) + Len(e)
        /\ \A i \in 1..Len(h) : t[i] = h[i]
        /\ \A i \in 1..Len(f) : t[Len(h) + i] = f[i]
        /\ \A i \in 1..Len(e) : t[Len(h) + Len(f) + i] = e[i]
    <3>1. AllThree(T, h, f, e, t)
      BY ONLY <2>1, JoinedThree
    <3> QED
      BY <3>1 DEF AllThree
  <2>3. Len(f) \in Nat
    BY <1>6
  <2> HIDE DEF t
  <2>4. t[Len(h) + Len(f) + 1] = e[1] /\ t[Len(h) + Len(f) + 2] = e[2]
    BY <1>8, <2>2
  <2>5. Len(h) + Len(f) + 1 = Len(f) + 4 /\ Len(h) + Len(f) + 2 = Len(f) + 5
    BY <1>8, <2>3
  <2>6. Len(t) = Len(f) + 5
    BY <1>8, <2>2, <2>3
  <2> QED
    BY <1>8, <2>2, <2>4, <2>5, <2>6
<1> DEFINE off == [i \in 0..n |-> 3 + o[i]]
<1>10. /\ o \in [0..n -> Nat] /\ o[0] = 0 /\ Len(f) = o[n]
       /\ \A i \in 1..n : o[i] = o[i - 1] + Cardinality(s[i].deps) + 5 /\ o[i] <= o[n]
       /\ \A i \in 1..n : \A j \in 1..(Cardinality(s[i].deps) + 5) :
              f[o[i - 1] + j] = PackageLines(s[i])[j] /\ o[i - 1] + j \in 1..o[n]
       /\ \A m \in 1..o[n] : \E i \in 1..n : m \in (o[i - 1] + 1)..o[i]
  <2>1. \A i \in 1..n : /\ lines[i] = PackageLines(s[i])
                        /\ Len(lines[i]) = Cardinality(s[i].deps) + 5
                        /\ Cardinality(s[i].deps) \in Nat
    BY <1>4 DEF lines, PackageText
  <2>2. /\ o \in [0..n -> Nat] /\ o[0] = 0 /\ Len(f) = o[n]
        /\ \A i \in 1..n : o[i] = o[i - 1] + Cardinality(s[i].deps) + 5 /\ o[i] <= o[n]
    <3>1. /\ o \in [0..n -> Nat] /\ o[0] = 0 /\ Len(f) = o[n]
          /\ \A i \in 1..n : o[i] = o[i - 1] + Len(lines[i]) /\ o[i] <= o[n]
      BY <1>7 DEF Flattened
    <3>2. ASSUME NEW i \in 1..n
          PROVE  o[i] = o[i - 1] + Cardinality(s[i].deps) + 5
      <4>1. o[i] = o[i - 1] + (Cardinality(s[i].deps) + 5)
        BY <2>1, <3>1
      <4>2. o[i - 1] \in Nat /\ Cardinality(s[i].deps) \in Nat
        BY <1>2, <2>1, <3>1
      <4> QED
        BY <4>1, <4>2
    <3> QED
      BY <3>1, <3>2
  <2>3. ASSUME NEW i \in 1..n, NEW j \in 1..(Cardinality(s[i].deps) + 5)
        PROVE  f[o[i - 1] + j] = PackageLines(s[i])[j] /\ o[i - 1] + j \in 1..o[n]
    <3>1. f[o[i - 1] + j] = PackageLines(s[i])[j]
      BY <1>7, <2>1 DEF Flattened
    <3>2. o[i - 1] \in Nat /\ o[i] \in Nat /\ o[n] \in Nat
      BY <1>2, <2>2
    <3> QED
      BY <2>1, <2>2, <3>1, <3>2
  <2>4. ASSUME NEW m \in 1..o[n] PROVE \E i \in 1..n : m \in (o[i - 1] + 1)..o[i]
    <3>1. PICK i \in 1..n : \E j \in 1..Len(lines[i]) : m = o[i - 1] + j
      BY <1>7 DEF Flattened
    <3>2. PICK j \in 1..Len(lines[i]) : m = o[i - 1] + j
      BY <3>1
    <3>3. o[i - 1] \in Nat /\ Cardinality(s[i].deps) \in Nat
      BY <1>2, <2>1, <2>2
    <3>4. o[i] = o[i - 1] + Cardinality(s[i].deps) + 5 /\ Len(lines[i]) = Cardinality(s[i].deps) + 5
      BY <2>1, <2>2
    <3> QED
      BY <3>2, <3>3, <3>4
  <2> QED
    BY <2>2, <2>3, <2>4
<1> HIDE DEF t
<1>11. Places(s, n, off)
  <2>1. off \in [0..n -> Nat] /\ off[0] = 3 /\ off[n] = 3 + o[n] /\ o[n] \in Nat
    BY <1>2, <1>10
  <2>2. \A i \in 1..n : /\ off[i] = 3 + o[i] /\ off[i - 1] = 3 + o[i - 1]
                        /\ o[i] \in Nat /\ o[i - 1] \in Nat
    BY <1>2, <1>10
  <2>3. ASSUME NEW i \in 1..n
        PROVE  off[i] = off[i - 1] + Cardinality(s[i].deps) + 5 /\ off[i] <= off[n]
    <3>1. Cardinality(s[i].deps) \in Nat
      BY <1>4 DEF PackageText
    <3> HIDE DEF off
    <3>2. o[i] = o[i - 1] + Cardinality(s[i].deps) + 5 /\ o[i] <= o[n]
      BY <1>10
    <3>3. off[i] = 3 + o[i] /\ off[i - 1] = 3 + o[i - 1] /\ o[i] \in Nat /\ o[i - 1] \in Nat
      BY <2>2
    <3> QED
      BY <2>1, <3>1, <3>2, <3>3
  <2>4. ASSUME NEW k \in 4..off[n] PROVE \E i \in 1..n : k \in (off[i - 1] + 1)..off[i]
    <3> HIDE DEF off
    <3>1. k - 3 \in 1..o[n]
      BY <2>1
    <3>2. PICK i \in 1..n : k - 3 \in (o[i - 1] + 1)..o[i]
      BY <1>10, <3>1
    <3> QED
      BY <2>2, <3>2
  <2> QED
    BY <2>1, <2>3, <2>4 DEF Places
<1>12. ASSUME NEW i \in 1..n PROVE PackageAt(t, off[i - 1], s[i])
  <2> DEFINE m == Cardinality(s[i].deps)
             L == PackageLines(s[i])
  <2>1. PackageText(s[i], m, L)
    BY <1>4
  <2>2. off[i - 1] = 3 + o[i - 1] /\ o[i - 1] \in Nat /\ m \in Nat
    <3>1. i - 1 \in 0..n
      BY <1>2
    <3>2. o[i - 1] \in Nat
      BY <1>10, <3>1
    <3>3. off[i - 1] = 3 + o[i - 1]
      BY <3>1
    <3>4. m \in Nat
      BY <2>1 DEF PackageText
    <3> QED
      BY <3>2, <3>3, <3>4
  <2>3. \A j \in 1..(m + 5) : f[o[i - 1] + j] = L[j] /\ o[i - 1] + j \in 1..Len(f)
    BY <1>10
  <2> HIDE DEF off, m, L
  <2>4. ASSUME NEW j \in 1..(m + 5) PROVE t[off[i - 1] + j] = L[j]
    <3>1. t[3 + (o[i - 1] + j)] = L[j]
      BY <1>9, <2>3
    <3>2. off[i - 1] + j = 3 + (o[i - 1] + j)
      BY <2>2
    <3> QED
      BY <3>1, <3>2
  <2>5. t[off[i - 1] + 1] = L[1] /\ t[off[i - 1] + 2] = L[2] /\ t[off[i - 1] + 3] = L[3]
        /\ t[off[i - 1] + 4] = L[4]
    BY <2>2, <2>4
  <2>6. t[off[i - 1] + m + 5] = L[m + 5]
    <3>1. off[i - 1] + m + 5 = off[i - 1] + (m + 5)
      BY <2>2
    <3> QED
      BY <2>2, <2>4, <3>1
  <2>7. ASSUME NEW j \in 1..m PROVE t[off[i - 1] + 4 + j] = L[4 + j]
    <3>1. off[i - 1] + 4 + j = off[i - 1] + (4 + j) /\ 4 + j \in 1..(m + 5)
      BY <2>2
    <3> QED
      BY <2>4, <3>1
  <2> QED
    BY <2>1, <2>2, <2>5, <2>6, <2>7 DEF PackageText, PackageAt, m
<1>13. LockLines(t, r, P, n, s, off)
  <2>1. off[n] = 3 + Len(f) /\ Len(f) \in Nat
    BY <1>2, <1>10
  <2>2. Len(t) = off[n] + 2 /\ t[off[n] + 1] = e[1] /\ t[off[n] + 2] = e[2]
    <3>1. off[n] + 1 = Len(f) + 4 /\ off[n] + 2 = Len(f) + 5
      BY <2>1
    <3> QED
      BY <1>9, <3>1
  <2>3. t[1] = h[1] /\ t[2] = h[2] /\ t[3] = h[3]
    BY <1>9
  <2>4. t \in Seq(LinesOfLock(r, P))
    BY <1>9
  <2> HIDE DEF off, T
  <2> QED
    BY <1>1, <1>11, <1>12, <2>2, <2>3, <2>4 DEF LockLines, Header, Footer
<1> QED
  BY <1>3, <1>13 DEF s

\* The line at place k of a text, in a package or around them.
Inside(t, n, s, off, k) ==
    \E i \in 1..n :
        \/ k = off[i - 1] + 1 /\ t[k] = <<"package", s[i].key>>
        \/ /\ k = off[i - 1] + 2
           /\ t[k] = <<"requested", s[i].req.kind, s[i].req.at, OptionText(s[i].req.rev)>>
        \/ k = off[i - 1] + 3 /\ t[k] = <<"resolved", s[i].exact.kind, s[i].exact.at, s[i].exact.id>>
        \/ k = off[i - 1] + 4 /\ t[k] = <<"dependency-count", Cardinality(s[i].deps)>>
        \/ \E j \in 1..Cardinality(s[i].deps) :
              k = off[i - 1] + 4 + j /\ t[k] = <<"dependency", InKeyOrder(s[i].deps)[j]>>
        \/ k = off[i] /\ t[k] = <<"end-package">>

\* Every line after the third and before the last two is one of a package.
LEMMA LinesInside ==
    ASSUME NEW t, NEW r, NEW P, NEW n, NEW s, NEW off, LockLines(t, r, P, n, s, off),
           NEW k \in 4..off[n]
    PROVE  Inside(t, n, s, off, k)
<1>1. PICK i \in 1..n : k \in (off[i - 1] + 1)..off[i]
  BY DEF LockLines, Places
<1> DEFINE m == Cardinality(s[i].deps)
<1>2. PackageAt(t, off[i - 1], s[i]) /\ off[i] = off[i - 1] + m + 5
  BY DEF LockLines, Places
<1>3. m \in Nat /\ off[i - 1] \in Nat
  <2>1. i - 1 \in 0..n
    BY DEF LockLines, KeyedOrder
  <2> QED
    BY <1>2, <2>1 DEF PackageAt, LockLines, Places
<1> DEFINE q == k - off[i - 1]
<1>4. q \in 1..(m + 5) /\ k = off[i - 1] + q
  BY <1>1, <1>2, <1>3
<1> HIDE DEF q, m
<1>5. q \in {1, 2, 3, 4} \/ q \in 5..(m + 4) \/ q = m + 5
  BY <1>3, <1>4
<1>6. CASE q \in {1, 2, 3, 4}
  BY <1>2, <1>4, <1>6 DEF PackageAt, Inside, m
<1>7. CASE q \in 5..(m + 4)
  <2> DEFINE j == q - 4
  <2>1. j \in 1..m /\ k = off[i - 1] + 4 + j
    BY <1>3, <1>4, <1>7
  <2> HIDE DEF j
  <2>2. t[k] = <<"dependency", InKeyOrder(s[i].deps)[j]>>
    BY <1>2, <2>1 DEF PackageAt, m
  <2>3. \E l \in 1..Cardinality(s[i].deps) :
            k = off[i - 1] + 4 + l /\ t[k] = <<"dependency", InKeyOrder(s[i].deps)[l]>>
    BY <2>1, <2>2 DEF m
  <2> QED
    BY <2>3 DEF Inside
<1>8. CASE q = m + 5
  <2>1. k = off[i] /\ k = off[i - 1] + m + 5
    BY <1>2, <1>3, <1>4, <1>8
  <2> QED
    BY <1>2, <2>1 DEF PackageAt, Inside, m
<1> QED
  BY <1>5, <1>6, <1>7, <1>8

\* The places of a text are numbers, one package after the other.
LEMMA PlacesAreNumbers ==
    ASSUME NEW t, NEW r, NEW P, NEW n, NEW s, NEW off, LockLines(t, r, P, n, s, off)
    PROVE  /\ n \in Nat /\ off \in [0..n -> Nat] /\ off[0] = 3
           /\ \A i \in 0..n : off[i] \in Nat /\ 3 <= off[i] /\ off[i] <= off[n]
           /\ \A i \in 1..n : /\ off[i - 1] \in Nat /\ off[i] \in Nat /\ s[i] \in P
                              /\ Cardinality(s[i].deps) \in Nat
                              /\ off[i] = off[i - 1] + Cardinality(s[i].deps) + 5
<1>1. n \in Nat /\ off \in [0..n -> Nat] /\ off[0] = 3 /\ s \in [1..n -> P]
  BY DEF LockLines, Places, KeyedOrder
<1>2. ASSUME NEW i \in 1..n
      PROVE  /\ off[i - 1] \in Nat /\ off[i] \in Nat /\ s[i] \in P
             /\ Cardinality(s[i].deps) \in Nat
             /\ off[i] = off[i - 1] + Cardinality(s[i].deps) + 5
             /\ off[i] <= off[n]
  <2>1. i - 1 \in 0..n /\ i \in 0..n
    BY <1>1
  <2>2. Cardinality(s[i].deps) \in Nat
    BY DEF LockLines, PackageAt
  <2> QED
    BY <1>1, <2>1, <2>2 DEF LockLines, Places
<1>3. off[0] <= off[n]
  <2>1. CASE n = 0
    BY <1>1, <2>1
  <2>2. CASE n # 0
    <3>1. 1 \in 1..n
      BY <1>1, <2>2
    <3>2. off[1] \in Nat /\ off[1 - 1] = 3 /\ Cardinality(s[1].deps) \in Nat
          /\ off[1] = off[1 - 1] + Cardinality(s[1].deps) + 5 /\ off[1] <= off[n]
      BY <1>1, <1>2, <3>1
    <3>3. off[n] \in Nat
      BY <1>1
    <3> QED
      BY <1>1, <3>2, <3>3
  <2> QED
    BY <2>1, <2>2
<1>4. ASSUME NEW i \in 0..n PROVE off[i] \in Nat /\ 3 <= off[i] /\ off[i] <= off[n]
  <2> DEFINE I == {j \in 0..n : 3 <= off[j]}
  <2>1. 0 \in I
    BY <1>1
  <2>2. ASSUME NEW j \in 1..n, j - 1 \in I PROVE j \in I
    <3>1. 3 <= off[j - 1]
      BY <2>2
    <3>2. 3 <= off[j]
      BY <1>2, <3>1
    <3> QED
      BY <3>2
  <2>3. 0..n \subseteq I
    <3> HIDE DEF I
    <3> QED
      BY <1>1, <2>1, <2>2, Inductive
  <2>4. i = 0 \/ i \in 1..n
    BY <1>1
  <2> QED
    BY <1>1, <1>2, <1>3, <2>3, <2>4
<1> QED
  BY <1>1, <1>2, <1>4

\* The last package ends two lines before the end.
LEMMA EndOfPlaces ==
    ASSUME NEW t, NEW r, NEW P, NEW n, NEW s, NEW off, LockLines(t, r, P, n, s, off)
    PROVE  n \in Nat /\ off[0] = 3 /\ off[n] \in Nat /\ 3 <= off[n] /\ Len(t) = off[n] + 2
<1>1. /\ n \in Nat /\ off[0] = 3
      /\ \A i \in 0..n : off[i] \in Nat /\ 3 <= off[i] /\ off[i] <= off[n]
  BY PlacesAreNumbers
<1>2. n \in 0..n
  BY <1>1
<1>3. Len(t) = off[n] + 2
  BY DEF LockLines
<1> QED
  BY <1>1, <1>2, <1>3

\* After a package comes the next one or the digest.
ComesAfter(t, P, n, s, off, i) ==
    t[off[i] + 1] = IF i = n THEN <<"graph-sha256", GraphDigest(P)>>
                    ELSE <<"package", s[i + 1].key>>

\* So it does in the text of a lock.
LEMMA LineAfterPackage ==
    ASSUME NEW t, NEW r, NEW P, NEW n, NEW s, NEW off, LockLines(t, r, P, n, s, off),
           NEW i \in 0..n
    PROVE  ComesAfter(t, P, n, s, off, i)
<1>1. CASE i = n
  BY <1>1 DEF LockLines, ComesAfter
<1>2. CASE i # n
  <2> DEFINE j == i + 1
  <2>1. j \in 1..n /\ j - 1 = i
    BY <1>2, PlacesAreNumbers
  <2> HIDE DEF j
  <2>2. PackageAt(t, off[j - 1], s[j])
    BY <2>1 DEF LockLines
  <2>3. t[off[i] + 1] = <<"package", s[j].key>>
    BY <2>1, <2>2 DEF PackageAt
  <2> QED
    BY <1>2, <2>3 DEF j, ComesAfter
<1> QED
  BY <1>1, <1>2

\* No line is written twice in a row.
LEMMA NeighboursDiffer ==
    ASSUME NEW t, NEW r, NEW P, IsLocked(P), NEW n, NEW s, NEW off,
           LockLines(t, r, P, n, s, off), NEW k \in 1..(Len(t) - 1)
    PROVE  t[k] # t[k + 1]
<1>1. /\ n \in Nat /\ off[0] = 3 /\ off[n] \in Nat /\ 3 <= off[n] /\ Len(t) = off[n] + 2
  BY EndOfPlaces
<1>2. k \in {1, 2, 3} \/ k \in 4..off[n] \/ k = off[n] + 1
  BY <1>1
<1>3. CASE k \in {1, 2}
  BY <1>3 DEF LockLines
<1>4. CASE k = 3
  <2>1. t[4] = IF 0 = n THEN <<"graph-sha256", GraphDigest(P)>> ELSE <<"package", s[0 + 1].key>>
    <3>1. 0 \in 0..n /\ LockLines(t, r, P, n, s, off)
      BY <1>1
    <3>2. ComesAfter(t, P, n, s, off, 0)
      BY ONLY <3>1, LineAfterPackage
    <3>3. off[0] + 1 = 4
      BY <1>1
    <3> QED
      BY <3>2, <3>3 DEF ComesAfter
  <2>2. t[3] = <<"package-count", n>>
    BY DEF LockLines
  <2> QED
    BY <1>4, <2>1, <2>2
<1>5. CASE k \in 4..off[n]
  <2>1. PICK i \in 1..n :
        \/ k = off[i - 1] + 1 /\ t[k] = <<"package", s[i].key>>
        \/ /\ k = off[i - 1] + 2
           /\ t[k] = <<"requested", s[i].req.kind, s[i].req.at, OptionText(s[i].req.rev)>>
        \/ k = off[i - 1] + 3 /\ t[k] = <<"resolved", s[i].exact.kind, s[i].exact.at, s[i].exact.id>>
        \/ k = off[i - 1] + 4 /\ t[k] = <<"dependency-count", Cardinality(s[i].deps)>>
        \/ \E j \in 1..Cardinality(s[i].deps) :
              k = off[i - 1] + 4 + j /\ t[k] = <<"dependency", InKeyOrder(s[i].deps)[j]>>
        \/ k = off[i] /\ t[k] = <<"end-package">>
    BY <1>5, LinesInside DEF Inside
  <2> DEFINE m == Cardinality(s[i].deps)
             o == off[i - 1]
  <2>2. m \in Nat /\ o \in Nat /\ off[i] = o + m + 5 /\ s[i] \in P
    BY PlacesAreNumbers
  <2>3. /\ t[o + 2] = <<"requested", s[i].req.kind, s[i].req.at, OptionText(s[i].req.rev)>>
        /\ t[o + 3] = <<"resolved", s[i].exact.kind, s[i].exact.at, s[i].exact.id>>
        /\ t[o + 4] = <<"dependency-count", m>>
        /\ \A j \in 1..m : t[o + 4 + j] = <<"dependency", InKeyOrder(s[i].deps)[j]>>
        /\ t[o + m + 5] = <<"end-package">>
    BY DEF LockLines, PackageAt
  <2>4. t[off[i] + 1] = IF i = n THEN <<"graph-sha256", GraphDigest(P)>>
                        ELSE <<"package", s[i + 1].key>>
    <3>1. i \in 0..n /\ LockLines(t, r, P, n, s, off)
      BY <1>1
    <3>2. ComesAfter(t, P, n, s, off, i)
      BY ONLY <3>1, LineAfterPackage
    <3> QED
      BY <3>2 DEF ComesAfter
  <2>5. \A j \in 1..(m - 1) : InKeyOrder(s[i].deps)[j] # InKeyOrder(s[i].deps)[j + 1]
    <3>1. s[i].deps \in SUBSET Nat /\ IsFiniteSet(s[i].deps)
      BY <2>2, LockAssumption, FS_Subset DEF IsLocked
    <3> DEFINE keys == InKeyOrder(s[i].deps)
    <3>2. /\ keys \in [1..m -> s[i].deps]
          /\ \A a, b \in 1..m : a < b => keys[a] < keys[b]
      BY <3>1, KeysInOrder
    <3> HIDE DEF keys, m
    <3>3. ASSUME NEW j \in 1..(m - 1) PROVE keys[j] # keys[j + 1]
      <4>1. j \in 1..m /\ j + 1 \in 1..m /\ j < j + 1
        BY <2>2
      <4>2. keys[j] < keys[j + 1] /\ keys[j] \in Nat /\ keys[j + 1] \in Nat
        BY <3>1, <3>2, <4>1
      <4> QED
        BY <4>2
    <3> QED
      BY <3>3 DEF keys
  <2> HIDE DEF m, o
  <2>6. CASE k = o + 1 /\ t[k] = <<"package", s[i].key>>
    <3>1. k + 1 = o + 2
      BY <2>2, <2>6
    <3> QED
      BY <2>3, <2>6, <3>1
  <2>7. CASE k = o + 2
    <3>1. k + 1 = o + 3
      BY <2>2, <2>7
    <3> QED
      BY <2>3, <2>7, <3>1
  <2>8. CASE k = o + 3
    <3>1. k + 1 = o + 4
      BY <2>2, <2>8
    <3> QED
      BY <2>3, <2>8, <3>1
  <2>9. CASE k = o + 4
    <3>1. CASE m = 0
      <4>1. k + 1 = o + m + 5
        BY <2>2, <2>9, <3>1
      <4> QED
        BY <2>3, <2>9, <4>1
    <3>2. CASE m # 0
      <4>1. 1 \in 1..m /\ k + 1 = o + 4 + 1
        BY <2>2, <2>9, <3>2
      <4>2. t[k + 1] = <<"dependency", InKeyOrder(s[i].deps)[1]>>
        BY <2>3, <4>1
      <4> QED
        BY <2>3, <2>9, <4>2
    <3> QED
      BY <3>1, <3>2
  <2>10. ASSUME NEW j \in 1..m, k = o + 4 + j PROVE t[k] # t[k + 1]
    <3>1. t[k] = <<"dependency", InKeyOrder(s[i].deps)[j]>>
      BY <2>3, <2>10
    <3>2. CASE j = m
      <4>1. k + 1 = o + m + 5
        BY <2>2, <2>10, <3>2
      <4> QED
        BY <2>3, <3>1, <4>1
    <3>3. CASE j # m
      <4>1. j \in 1..(m - 1) /\ j + 1 \in 1..m /\ k + 1 = o + 4 + (j + 1)
        BY <2>2, <2>10, <3>3
      <4>2. t[k + 1] = <<"dependency", InKeyOrder(s[i].deps)[j + 1]>>
        BY <2>3, <4>1
      <4>3. InKeyOrder(s[i].deps)[j] # InKeyOrder(s[i].deps)[j + 1]
        BY <2>5, <4>1
      <4> QED
        BY <3>1, <4>2, <4>3
    <3> QED
      BY <3>2, <3>3
  <2>11. CASE k = off[i] /\ t[k] = <<"end-package">>
    BY <2>4, <2>11
  <2> QED
    BY <2>1, <2>6, <2>7, <2>8, <2>9, <2>10, <2>11 DEF o, m
<1>6. CASE k = off[n] + 1
  <2>1. k + 1 = off[n] + 2
    BY <1>1, <1>6
  <2> QED
    BY <1>6, <2>1 DEF LockLines
<1> QED
  BY <1>2, <1>3, <1>4, <1>5, <1>6

\* Packages begin where they were written.
LEMMA PackagesBegin ==
    ASSUME NEW t, NEW r, NEW P, NEW n, NEW s, NEW off, LockLines(t, r, P, n, s, off)
    PROVE  {k \in 4..Len(t) : t[k][1] = "package"} = {off[i - 1] + 1 : i \in 1..n}
<1>1. /\ n \in Nat /\ off[n] \in Nat /\ 3 <= off[n] /\ Len(t) = off[n] + 2
  BY EndOfPlaces
<1>2. ASSUME NEW k \in 4..Len(t), t[k][1] = "package"
      PROVE  \E i \in 1..n : k = off[i - 1] + 1
  <2>1. k \in 4..off[n] \/ k = off[n] + 1 \/ k = off[n] + 2
    BY <1>1
  <2>2. k \in 4..off[n]
    BY <1>2, <2>1 DEF LockLines
  <2> QED
    BY <1>2, <2>2, LinesInside DEF Inside
<1>3. ASSUME NEW i \in 1..n
      PROVE  off[i - 1] + 1 \in 4..Len(t) /\ t[off[i - 1] + 1][1] = "package"
  <2>1. i - 1 \in 0..n /\ i \in 0..n
    BY <1>1
  <2>2. /\ off[i - 1] \in Nat /\ 3 <= off[i - 1] /\ off[i - 1] <= off[n]
    BY <2>1, PlacesAreNumbers
  <2>3. t[off[i - 1] + 1] = <<"package", s[i].key>>
    BY DEF LockLines, PackageAt
  <2> QED
    BY <1>1, <2>2, <2>3
<1> QED
  BY <1>2, <1>3

\* What is written of a package and read again is the package.
IsReadable(p) ==
    /\ IsPackage(p) /\ p.deps \subseteq Key
    /\ p.req = [kind |-> p.req.kind, at |-> p.req.at, rev |-> p.req.rev]
    /\ p.exact = [kind |-> p.exact.kind, at |-> p.exact.at, id |-> p.exact.id]
    /\ CanonicalUrl(p.req.at) = p.req.at /\ CanonicalUrl(p.exact.at) = p.exact.at
    /\ IF p.req.kind = "git" THEN p.req.rev # "-" ELSE OptionText(p.req.rev) = p.req.rev

\* ReadPackage finds it and the line after it.
LEMMA PackageReadsBack ==
    ASSUME NEW t, NEW o \in Nat, NEW p, PackageAt(t, o, p), IsReadable(p),
           \A k \in (o + 1)..(o + Cardinality(p.deps) + 5) : k \in DOMAIN t
    PROVE  ReadPackage(t, o + 1) = [next |-> o + Cardinality(p.deps) + 6, package |-> p]
<1> DEFINE m == Cardinality(p.deps)
           i == o + 1
           count == t[i + 3][2]
           end == i + 4 + count
           keys == InKeyOrder(p.deps)
<1>1. /\ m \in Nat /\ i \in Nat
      /\ t[i] = <<"package", p.key>>
      /\ t[i + 1] = <<"requested", p.req.kind, p.req.at, OptionText(p.req.rev)>>
      /\ t[i + 2] = <<"resolved", p.exact.kind, p.exact.at, p.exact.id>>
      /\ t[i + 3] = <<"dependency-count", m>>
      /\ t[i + 4 + m] = <<"end-package">>
  <2>1. m \in Nat
    BY DEF PackageAt
  <2>2. i + 1 = o + 2 /\ i + 2 = o + 3 /\ i + 3 = o + 4 /\ i + 4 + m = o + m + 5
    BY <2>1
  <2> HIDE DEF i
  <2>3. i = o + 1
    BY DEF i
  <2> QED
    BY <2>1, <2>2, <2>3 DEF PackageAt
<1>2. count = m /\ end = i + 4 + m
  BY <1>1
<1>3. ASSUME NEW j \in 1..m
      PROVE  t[i + 3 + j] = <<"dependency", keys[j]>> /\ i + 3 + j \in (i + 4)..((i + 4 + m) - 1)
  <2>1. i + 3 + j = o + 4 + j /\ i + 3 + j \in (i + 4)..((i + 4 + m) - 1)
    BY <1>1
  <2> QED
    BY <2>1 DEF PackageAt
<1>4. ASSUME NEW k \in (i + 4)..((i + 4 + m) - 1)
      PROVE  \E j \in 1..m : k = i + 3 + j /\ t[k] = <<"dependency", keys[j]>>
  <2> DEFINE j == k - i - 3
  <2>1. j \in 1..m /\ k = i + 3 + j
    BY <1>1
  <2> HIDE DEF j
  <2> QED
    BY <1>3, <2>1
<1>5. p.deps \in SUBSET Nat /\ IsFiniteSet(p.deps)
  BY LockAssumption, FS_Subset DEF IsReadable
<1>6. keys \in [1..m -> p.deps] /\ \A d \in p.deps : \E j \in 1..m : keys[j] = d
  BY <1>5, KeysInOrder
<1> HIDE DEF m, keys
<1>7. {t[j][2] : j \in (i + 4)..((i + 4 + m) - 1)} = p.deps
  <2>1. ASSUME NEW k \in (i + 4)..((i + 4 + m) - 1) PROVE t[k][2] \in p.deps
    <3>1. PICK j \in 1..m : t[k] = <<"dependency", keys[j]>>
      BY <1>4
    <3> QED
      BY <1>6, <3>1
  <2>2. ASSUME NEW d \in p.deps PROVE \E k \in (i + 4)..((i + 4 + m) - 1) : t[k][2] = d
    <3>1. PICK j \in 1..m : keys[j] = d
      BY <1>6
    <3>2. t[i + 3 + j] = <<"dependency", d>> /\ i + 3 + j \in (i + 4)..((i + 4 + m) - 1)
      BY <1>3, <3>1
    <3>3. t[i + 3 + j][2] = d
      BY <3>2
    <3> QED
      BY <3>2, <3>3
  <2> QED
    BY <2>1, <2>2
<1>8. \A k \in i..(i + 4 + m) : k \in DOMAIN t
  <2>1. \A k \in i..(i + 4 + m) : k \in (o + 1)..(o + m + 5)
    BY <1>1
  <2> QED
    BY <2>1 DEF m
<1>9. /\ i \in i..(i + 4 + m) /\ i + 1 \in i..(i + 4 + m) /\ i + 2 \in i..(i + 4 + m)
      /\ i + 3 \in i..(i + 4 + m) /\ i + 4 + m \in i..(i + 4 + m)
      /\ \A k \in (i + 4)..((i + 4 + m) - 1) : k \in i..(i + 4 + m)
  BY <1>1
<1> HIDE DEF i
<1>10. /\ Expect(t, i, "package", 1)
       /\ Expect(t, i + 1, "requested", 3)
       /\ Expect(t, i + 2, "resolved", 3)
       /\ Expect(t, i + 3, "dependency-count", 1)
       /\ Expect(t, i + 4 + m, "end-package", 0)
  BY <1>1, <1>8, <1>9 DEF Expect
<1>11. \A k \in (i + 4)..((i + 4 + m) - 1) : Expect(t, k, "dependency", 1)
  <2> SUFFICES ASSUME NEW k \in (i + 4)..((i + 4 + m) - 1) PROVE Expect(t, k, "dependency", 1)
    OBVIOUS
  <2>1. PICK j \in 1..m : t[k] = <<"dependency", keys[j]>>
    BY <1>4
  <2>2. k \in DOMAIN t
    BY <1>8, <1>9
  <2> QED
    BY <2>1, <2>2 DEF Expect
<1> DEFINE read ==
        [key |-> t[i][2],
         req |-> [kind |-> t[i + 1][2], at |-> CanonicalUrl(t[i + 1][3]),
                  rev |-> IF t[i + 1][2] = "git" THEN OptionRead(t[i + 1][4])
                          ELSE t[i + 1][4]],
         exact |-> [kind |-> t[i + 2][2], at |-> CanonicalUrl(t[i + 2][3]),
                    id |-> t[i + 2][4]],
         deps |-> {t[j][2] : j \in (i + 4)..((i + 4 + m) - 1)}]
<1>12. read = p
  <2>1. t[i][2] = p.key /\ t[i + 1][2] = p.req.kind /\ t[i + 1][3] = p.req.at
        /\ t[i + 1][4] = OptionText(p.req.rev) /\ t[i + 2][2] = p.exact.kind
        /\ t[i + 2][3] = p.exact.at /\ t[i + 2][4] = p.exact.id
    BY <1>1
  <2>2. (IF p.req.kind = "git" THEN OptionRead(OptionText(p.req.rev)) ELSE OptionText(p.req.rev))
            = p.req.rev
    BY DEF IsReadable, OptionRead, OptionText
  <2>3. read = [key |-> p.key,
                req |-> [kind |-> p.req.kind, at |-> p.req.at, rev |-> p.req.rev],
                exact |-> [kind |-> p.exact.kind, at |-> p.exact.at, id |-> p.exact.id],
                deps |-> p.deps]
    <3>1. CanonicalUrl(p.req.at) = p.req.at /\ CanonicalUrl(p.exact.at) = p.exact.at
      BY DEF IsReadable
    <3> QED
      BY <1>7, <2>1, <2>2, <3>1
  <2>4. p = [key |-> p.key, req |-> p.req, exact |-> p.exact, deps |-> p.deps]
    BY DEF IsReadable, IsPackage
  <2>5. /\ p.req = [kind |-> p.req.kind, at |-> p.req.at, rev |-> p.req.rev]
        /\ p.exact = [kind |-> p.exact.kind, at |-> p.exact.at, id |-> p.exact.id]
    BY DEF IsReadable
  <2> QED
    BY <2>3, <2>4, <2>5
<1>13. Cardinality({t[j][2] : j \in (i + 4)..((i + 4 + m) - 1)}) = m
  BY <1>7 DEF m
<1>14. ReadPackage(t, i) = [next |-> i + 4 + m + 1, package |-> read]
  <2> DEFINE c == t[i + 3][2]
             Guard ==
                /\ Expect(t, i, "package", 1)
                /\ Expect(t, i + 1, "requested", 3)
                /\ Expect(t, i + 2, "resolved", 3)
                /\ Expect(t, i + 3, "dependency-count", 1)
                /\ \A j \in (i + 4)..((i + 4 + c) - 1) : Expect(t, j, "dependency", 1)
                /\ Expect(t, i + 4 + c, "end-package", 0)
                /\ Cardinality({t[j][2] : j \in (i + 4)..((i + 4 + c) - 1)}) = c
             found ==
                [key |-> t[i][2],
                 req |-> [kind |-> t[i + 1][2], at |-> CanonicalUrl(t[i + 1][3]),
                          rev |-> IF t[i + 1][2] = "git" THEN OptionRead(t[i + 1][4])
                                  ELSE t[i + 1][4]],
                 exact |-> [kind |-> t[i + 2][2], at |-> CanonicalUrl(t[i + 2][3]),
                            id |-> t[i + 2][4]],
                 deps |-> {t[j][2] : j \in (i + 4)..((i + 4 + c) - 1)}]
  <2>1. ReadPackage(t, i) =
            IF Guard THEN [next |-> i + 4 + c + 1, package |-> found] ELSE Unreadable
    BY DEF ReadPackage
  <2>2. c = m
    BY <1>1
  <2> HIDE DEF c
  <2>3. Guard /\ found = read
    BY <1>10, <1>11, <1>13, <2>2
  <2> HIDE DEF Guard, found
  <2> QED
    BY <2>1, <2>2, <2>3
<1>15. i + 4 + m + 1 = o + m + 6
  BY <1>1 DEF i
<1> QED
  BY <1>12, <1>14, <1>15 DEF i, m

\* A lock is read back from its text.
LEMMA LockReadsBack ==
    ASSUME NEW r, NEW P, IsLocked(P), \A p \in P : IsReadable(p), LockError(P) = "none"
    PROVE  ReadLock(LockText([root |-> r, packages |-> P])) = [root |-> r, packages |-> P]
<1> DEFINE t == LockText([root |-> r, packages |-> P])
           l == [root |-> r, packages |-> P]
<1> DEFINE s == InKeyOrderOf(P)
<1>1. PICK n, off : LockLines(t, r, P, n, s, off)
  BY LockTextIs
<1> HIDE DEF t, s
<1>2. n \in Nat /\ off[0] = 3 /\ off[n] \in Nat /\ 3 <= off[n] /\ Len(t) = off[n] + 2
  BY <1>1, EndOfPlaces
<1>3. \A i \in 1..n : /\ off[i - 1] \in Nat /\ off[i] \in Nat /\ s[i] \in P
                        /\ Cardinality(s[i].deps) \in Nat
                        /\ off[i] = off[i - 1] + Cardinality(s[i].deps) + 5
                        /\ 3 <= off[i - 1] /\ off[i] <= off[n]
  <2> SUFFICES ASSUME NEW i \in 1..n
               PROVE  /\ off[i - 1] \in Nat /\ off[i] \in Nat /\ s[i] \in P
                      /\ Cardinality(s[i].deps) \in Nat
                      /\ off[i] = off[i - 1] + Cardinality(s[i].deps) + 5
                      /\ 3 <= off[i - 1] /\ off[i] <= off[n]
    OBVIOUS
  <2>1. /\ \A j \in 0..n : off[j] \in Nat /\ 3 <= off[j] /\ off[j] <= off[n]
        /\ \A j \in 1..n : /\ off[j - 1] \in Nat /\ off[j] \in Nat /\ s[j] \in P
                             /\ Cardinality(s[j].deps) \in Nat
                             /\ off[j] = off[j - 1] + Cardinality(s[j].deps) + 5
    BY <1>1, PlacesAreNumbers
  <2>2. i - 1 \in 0..n /\ i \in 0..n
    BY <1>2
  <2> QED
    BY <2>1, <2>2
<1>4. \A i \in 1..n : ReadPackage(t, off[i - 1] + 1) = [next |-> off[i] + 1, package |-> s[i]]
  <2> SUFFICES ASSUME NEW i \in 1..n
               PROVE  ReadPackage(t, off[i - 1] + 1) = [next |-> off[i] + 1, package |-> s[i]]
    OBVIOUS
  <2> DEFINE o == off[i - 1]
             p == s[i]
  <2>1. /\ o \in Nat /\ IsReadable(p) /\ PackageAt(t, o, p)
    BY <1>1, <1>3 DEF LockLines
  <2>2. \A k \in (o + 1)..(o + Cardinality(p.deps) + 5) : k \in DOMAIN t
    <3>1. /\ o \in Nat /\ Cardinality(p.deps) \in Nat /\ off[i] \in Nat
          /\ off[i] = o + Cardinality(p.deps) + 5 /\ off[i] <= off[n]
      BY <1>3
    <3>2. DOMAIN t = 1..Len(t)
      BY <1>1 DEF LockLines
    <3> HIDE DEF o, p
    <3> QED
      BY <1>2, <3>1, <3>2
  <2>3. ReadPackage(t, o + 1) = [next |-> o + Cardinality(p.deps) + 6, package |-> p]
    <3> HIDE DEF o, p
    <3> QED
      BY ONLY <2>1, <2>2, PackageReadsBack
  <2>4. o + Cardinality(p.deps) + 6 = off[i] + 1
    BY <1>3
  <2> QED
    BY <2>3, <2>4
<1> DEFINE starts == {i \in 4..Len(t) : t[i][1] = "package"}
           last == Len(t) - 1
           read == {ReadPackage(t, i) : i \in starts}
           packages == {x.package : x \in read}
           Guard ==
                /\ Expect(t, 1, "leanbun-lock-v1", 1) /\ t[1][2] = 1
                /\ Expect(t, 2, "root-declaration-sha256", 1)
                /\ Expect(t, 3, "package-count", 1)
                /\ Unreadable \notin read
                /\ {4} \cup {x.next : x \in read} = starts \cup {last}
                /\ Expect(t, last, "graph-sha256", 1)
                /\ Expect(t, last + 1, "end-lock", 0)
                /\ Cardinality(packages) = t[3][2]
                /\ t[last][2] = GraphDigest(packages)
                /\ LockError(packages) = "none"
<1>5. ParseLock(t) = IF Guard THEN [root |-> t[2][2], packages |-> packages] ELSE Unreadable
  BY DEF ParseLock
<1>6. starts = {off[i - 1] + 1 : i \in 1..n}
  BY <1>1, PackagesBegin
<1>7. last = off[n] + 1
  BY <1>2
<1> HIDE DEF starts, last
<1>8. read = {[next |-> off[i] + 1, package |-> s[i]] : i \in 1..n}
  BY <1>4, <1>6
<1> HIDE DEF read
<1>9. packages = P
  <2>1. s \in [1..n -> P] /\ \A x \in P : \E i \in 1..n : s[i] = x
    BY <1>1 DEF LockLines, KeyedOrder
  <2>2. ASSUME NEW x \in packages PROVE x \in P
    <3>1. PICK i \in 1..n : x = [next |-> off[i] + 1, package |-> s[i]].package
      BY <1>8
    <3> QED
      BY <2>1, <3>1
  <2>3. ASSUME NEW x \in P PROVE x \in packages
    <3>1. PICK i \in 1..n : s[i] = x
      BY <2>1
    <3>2. [next |-> off[i] + 1, package |-> s[i]] \in read
      BY <1>8
    <3>3. [next |-> off[i] + 1, package |-> s[i]].package \in packages
      BY <3>2
    <3> QED
      BY <3>1, <3>3
  <2> QED
    BY <2>2, <2>3
<1>10. {4} \cup {x.next : x \in read} = starts \cup {last}
  <2>1. {x.next : x \in read} = {off[i] + 1 : i \in 1..n}
    <3>1. ASSUME NEW x \in read PROVE \E i \in 1..n : x.next = off[i] + 1
      BY <1>8
    <3>2. ASSUME NEW i \in 1..n PROVE \E x \in read : x.next = off[i] + 1
      <4>1. [next |-> off[i] + 1, package |-> s[i]] \in read
        BY <1>8
      <4>2. [next |-> off[i] + 1, package |-> s[i]].next = off[i] + 1
        OBVIOUS
      <4> QED
        BY <4>1, <4>2
    <3> QED
      BY <3>1, <3>2
  <2>2. ASSUME NEW k \in {4} \cup {off[i] + 1 : i \in 1..n} PROVE k \in starts \cup {last}
    <3>1. PICK i \in 0..n : k = off[i] + 1
      <4>1. CASE k = 4
        BY <1>2, <4>1
      <4>2. CASE k # 4
        <5>1. PICK i \in 1..n : k = off[i] + 1
          BY <4>2
        <5>2. i \in 0..n
          BY <1>2
        <5> QED
          BY <5>1, <5>2
      <4> QED
        BY <4>1, <4>2
    <3>2. CASE i = n
      BY <1>7, <3>1, <3>2
    <3>3. CASE i # n
      <4>1. i + 1 \in 1..n /\ (i + 1) - 1 = i
        BY <1>2, <3>3
      <4> QED
        BY <1>6, <3>1, <4>1
    <3> QED
      BY <3>2, <3>3
  <2>3. ASSUME NEW k \in starts \cup {last} PROVE k \in {4} \cup {off[i] + 1 : i \in 1..n}
    <3>1. PICK i \in 0..n : k = off[i] + 1
      <4>1. CASE k = last
        BY <1>2, <1>7, <4>1
      <4>2. CASE k # last
        <5>1. PICK i \in 1..n : k = off[i - 1] + 1
          BY <1>6, <4>2
        <5>2. i - 1 \in 0..n
          BY <1>2
        <5> QED
          BY <5>1, <5>2
      <4> QED
        BY <4>1, <4>2
    <3>2. CASE i = 0
      BY <1>2, <3>1, <3>2
    <3>3. CASE i # 0
      <4>1. i \in 1..n
        BY <1>2, <3>3
      <4> QED
        BY <3>1, <4>1
    <3> QED
      BY <3>2, <3>3
  <2> QED
    BY <2>1, <2>2, <2>3
<1>11. Unreadable \notin read
  <2> SUFFICES ASSUME NEW i \in 1..n, Unreadable = [next |-> off[i] + 1, package |-> s[i]]
               PROVE  FALSE
    BY <1>8
  <2> QED
    BY DEF Unreadable
<1>12. /\ Expect(t, 1, "leanbun-lock-v1", 1) /\ t[1][2] = 1
       /\ Expect(t, 2, "root-declaration-sha256", 1) /\ t[2][2] = r
       /\ Expect(t, 3, "package-count", 1) /\ t[3][2] = n
       /\ Expect(t, last, "graph-sha256", 1) /\ t[last][2] = GraphDigest(P)
       /\ Expect(t, last + 1, "end-lock", 0)
  <2>1. DOMAIN t = 1..Len(t)
    BY <1>1 DEF LockLines
  <2>2. 1 \in DOMAIN t /\ 2 \in DOMAIN t /\ 3 \in DOMAIN t /\ last \in DOMAIN t
        /\ last + 1 \in DOMAIN t
    BY <1>2, <1>7, <2>1
  <2>3. last + 1 = off[n] + 2
    BY <1>2, <1>7
  <2>4. /\ t[1] = <<"leanbun-lock-v1", 1>>
        /\ t[2] = <<"root-declaration-sha256", r>>
        /\ t[3] = <<"package-count", n>>
        /\ t[last] = <<"graph-sha256", GraphDigest(P)>>
        /\ t[last + 1] = <<"end-lock">>
    BY <1>1, <1>7, <2>3 DEF LockLines
  <2> QED
    BY <2>2, <2>4 DEF Expect
<1>13. Cardinality(P) = n
  BY <1>1 DEF LockLines, KeyedOrder
<1>14. Guard
  <2> HIDE DEF packages
  <2> QED
    BY <1>9, <1>10, <1>11, <1>12, <1>13
<1>15. ParseLock(t) = l
  <2> HIDE DEF Guard, packages
  <2> QED
    BY <1>5, <1>9, <1>12, <1>14
<1>16. l # Unreadable
  BY DEF Unreadable
<1>17. LockText(l) = t
  BY DEF t
<1> HIDE DEF l
<1>18. ReadLock(t) = l
  BY <1>15, <1>16, <1>17 DEF ReadLock
<1> QED
  BY <1>18 DEF t, l

\* What reads is the text of a lock of packages that can be locked.
LEMMA TextThatReads ==
    ASSUME NEW r, NEW P, IsLocked(P), NEW t \in Seq(LinesOfLock(r, P)), ReadLock(t) # Unreadable
    PROVE  \E q, Q : IsLocked(Q) /\ t = LockText([root |-> q, packages |-> Q])
<1> DEFINE starts == {i \in 4..Len(t) : t[i][1] = "package"}
           last == Len(t) - 1
           read == {ReadPackage(t, i) : i \in starts}
           packages == {x.package : x \in read}
           Guard ==
                /\ Expect(t, 1, "leanbun-lock-v1", 1) /\ t[1][2] = 1
                /\ Expect(t, 2, "root-declaration-sha256", 1)
                /\ Expect(t, 3, "package-count", 1)
                /\ Unreadable \notin read
                /\ {4} \cup {x.next : x \in read} = starts \cup {last}
                /\ Expect(t, last, "graph-sha256", 1)
                /\ Expect(t, last + 1, "end-lock", 0)
                /\ Cardinality(packages) = t[3][2]
                /\ t[last][2] = GraphDigest(packages)
                /\ LockError(packages) = "none"
           lock0 == [root |-> t[2][2], packages |-> packages]
<1>1. ParseLock(t) = IF Guard THEN lock0 ELSE Unreadable
  BY DEF ParseLock
<1>2. ParseLock(t) # Unreadable /\ LockText(ParseLock(t)) = t
  BY DEF ReadLock
<1>3. Unreadable \notin read /\ LockError(packages) = "none"
  BY <1>1, <1>2
<1>4. t = LockText(lock0)
  <2> HIDE DEF Guard, lock0
  <2> QED
    BY <1>1, <1>2
<1>5. ASSUME NEW p \in packages PROVE IsPackage(p) /\ p.key \in Key
  <2>1. PICK i \in starts : p = ReadPackage(t, i).package
    OBVIOUS
  <2>2. ReadPackage(t, i) # Unreadable
    BY <1>3
  <2> DEFINE found ==
                [key |-> t[i][2],
                 req |-> [kind |-> t[i + 1][2], at |-> CanonicalUrl(t[i + 1][3]),
                          rev |-> IF t[i + 1][2] = "git" THEN OptionRead(t[i + 1][4])
                                  ELSE t[i + 1][4]],
                 exact |-> [kind |-> t[i + 2][2], at |-> CanonicalUrl(t[i + 2][3]),
                            id |-> t[i + 2][4]],
                 deps |-> {t[j][2] : j \in (i + 4)..((i + 4 + t[i + 3][2]) - 1)}]
  <2>3. ReadPackage(t, i) = [next |-> i + 4 + t[i + 3][2] + 1, package |-> found]
    <3> HIDE DEF starts, read, packages, Guard, lock0
    <3> QED
      BY <2>2 DEF ReadPackage
  <2>4. p = found
    BY <2>1, <2>3
  <2>5. IsPackage(p) /\ p.key = t[i][2]
    BY <2>4 DEF IsPackage
  <2>6. t[i] \in LinesOfLock(r, P) /\ t[i][1] = "package"
    BY <2>1
  <2>7. PICK x \in P : t[i] \in LinesOf(x)
    BY <2>6 DEF LinesOfLock, Header, Footer, Range
  <2>8. t[i] = <<"package", x.key>>
    BY <2>6, <2>7 DEF LinesOf
  <2> QED
    BY <2>5, <2>7, <2>8 DEF IsLocked, IsKeyed
<1> HIDE DEF packages
<1>6. /\ \A p, q \in packages : p.key = q.key => p = q
      /\ \A p \in packages : p.deps \subseteq {q.key : q \in packages}
  BY <1>3 DEF LockError
<1>7. IsLocked(packages)
  <2>1. IsKeyed(packages)
    BY <1>5, <1>6 DEF IsKeyed, OnePerKey
  <2>2. \A p \in packages : IsPackage(p) /\ p.deps \subseteq Key
    BY <1>5, <1>6
  <2> QED
    BY <2>1, <2>2 DEF IsLocked
<1> QED
  BY <1>4, <1>7

\* The digest of a graph decides what the packages are.
LEMMA DigestDecides ==
    ASSUME NEW P, NEW Q, IsLocked(P), IsLocked(Q), GraphDigest(P) = GraphDigest(Q)
    PROVE  P = Q
<1>1. ASSUME NEW A, NEW B, IsLocked(A), IsLocked(B), GraphDigest(A) = GraphDigest(B), NEW p \in A
      PROVE  p \in B
  <2>1. <<p.key, p.req, p.exact, p.deps>> \in GraphDigest(B)
    BY <1>1 DEF GraphDigest
  <2>2. PICK q \in B : <<p.key, p.req, p.exact, p.deps>> = <<q.key, q.req, q.exact, q.deps>>
    BY <2>1 DEF GraphDigest
  <2>3. p.key = q.key /\ p.req = q.req /\ p.exact = q.exact /\ p.deps = q.deps
    BY <2>2
  <2>4. IsPackage(p) /\ IsPackage(q)
    BY <1>1 DEF IsLocked
  <2> QED
    BY <2>3, <2>4 DEF IsPackage
<1> QED
  BY <1>1

\* The length of a text is that of the packages.
LEMMA PlacesDecided ==
    ASSUME NEW n \in Nat, NEW s, NEW o, NEW u, Places(s, n, o), Places(s, n, u)
    PROVE  o[n] = u[n]
<1> DEFINE I == {i \in 0..n : o[i] = u[i]}
<1>1. 0 \in I
  BY DEF Places
<1>2. ASSUME NEW i \in 1..n, i - 1 \in I PROVE i \in I
  <2>1. o[i - 1] = u[i - 1]
    BY <1>2
  <2> QED
    BY <2>1 DEF Places
<1>3. 0..n \subseteq I
  <2> HIDE DEF I
  <2> QED
    BY <1>1, <1>2, Inductive
<1> QED
  BY <1>3

\* Texts of the same packages have the same length, whatever the root.
LEMMA SameLength ==
    ASSUME NEW P, NEW r, NEW q, NEW t, NEW u, NEW n, NEW m, NEW s, NEW o, NEW v,
           LockLines(t, r, P, n, s, o), LockLines(u, q, P, m, s, v)
    PROVE  Len(t) = Len(u)
<1>1. n \in Nat /\ n = m
  BY DEF LockLines, KeyedOrder
<1>2. Places(s, n, o) /\ Places(s, n, v)
  BY <1>1 DEF LockLines
<1>3. o[n] = v[n]
  BY ONLY <1>1, <1>2, PlacesDecided
<1> QED
  BY <1>1, <1>3 DEF LockLines

\* The digest is written once.
LEMMA DigestOnce ==
    ASSUME NEW t, NEW r, NEW P, NEW n, NEW s, NEW off, LockLines(t, r, P, n, s, off)
    PROVE  t[off[n]][1] # "graph-sha256"
<1>1. off[n] \in Nat /\ 3 <= off[n]
  BY EndOfPlaces
<1>2. CASE off[n] = 3
  BY <1>2 DEF LockLines
<1>3. CASE off[n] # 3
  <2> DEFINE k == off[n]
  <2>1. k \in 4..off[n]
    BY <1>1, <1>3
  <2> HIDE DEF k
  <2>2. Inside(t, n, s, off, k)
    BY <2>1, LinesInside
  <2>3. t[k][1] # "graph-sha256"
    BY <2>2 DEF Inside
  <2> QED
    BY <2>3 DEF k
<1> QED
  BY <1>2, <1>3

\* The first three lines of a text and the last two.
Ends(t, q, Q) ==
    /\ Len(t) \in Nat /\ 5 <= Len(t)
    /\ t[1] = <<"leanbun-lock-v1", 1>>
    /\ t[2] = <<"root-declaration-sha256", q>>
    /\ t[3][1] = "package-count"
    /\ t[Len(t) - 1] = <<"graph-sha256", GraphDigest(Q)>>
    /\ t[Len(t)] = <<"end-lock">>

\* The text of a lock has them.
LEMMA EndsOfText ==
    ASSUME NEW t, NEW r, NEW P, NEW n, NEW s, NEW off, LockLines(t, r, P, n, s, off)
    PROVE  Ends(t, r, P)
<1>1. off[n] \in Nat /\ 3 <= off[n] /\ Len(t) = off[n] + 2
  BY EndOfPlaces
<1>2. Len(t) - 1 = off[n] + 1
  BY <1>1
<1>3. t[Len(t) - 1] = <<"graph-sha256", GraphDigest(P)>>
  BY <1>2 DEF LockLines
<1>4. t[Len(t)] = <<"end-lock">>
  BY <1>1 DEF LockLines
<1>5. t[1] = <<"leanbun-lock-v1", 1>> /\ t[2] = <<"root-declaration-sha256", r>>
      /\ t[3][1] = "package-count"
  BY DEF LockLines
<1> QED
  BY <1>1, <1>3, <1>4, <1>5 DEF Ends

\* A text that lost a line does not read.
LEMMA LostLineUnreadable ==
    ASSUME NEW r, NEW P, IsLocked(P), NEW t, t = LockText([root |-> r, packages |-> P]),
           NEW i \in DOMAIN t
    PROVE  ReadLock(WithoutLine(t, i)) = Unreadable
<1> DEFINE u == WithoutLine(t, i)
           s == InKeyOrderOf(P)
<1>1. PICK n, off : LockLines(t, r, P, n, s, off)
  BY LockTextIs
<1> HIDE DEF s
<1>2. t \in Seq(LinesOfLock(r, P)) /\ DOMAIN t = 1..Len(t)
  BY <1>1 DEF LockLines
<1>3. Ends(t, r, P) /\ Len(t) - 2 = off[n]
  <2>1. off[n] \in Nat /\ Len(t) = off[n] + 2
    BY <1>1, EndOfPlaces
  <2> QED
    BY <1>1, <2>1, EndsOfText
<1>4. /\ u \in Seq(LinesOfLock(r, P)) /\ Len(u) = Len(t) - 1
      /\ \A j \in 1..(i - 1) : u[j] = t[j]
      /\ \A j \in i..(Len(t) - 1) : u[j] = t[j + 1]
  <2> DEFINE S == LinesOfLock(r, P)
             w == RemoveAt(t, i)
  <2>1. t \in Seq(S) /\ i \in 1..Len(t)
    BY <1>2
  <2> HIDE DEF S
  <2>2. /\ w \in Seq(S) /\ Len(w) = Len(t) - 1
        /\ \A j \in 1..(i - 1) : w[j] = t[j]
        /\ \A j \in i..(Len(t) - 1) : w[j] = t[j + 1]
    BY ONLY <2>1, RemovedAt
  <2>3. u = w
    BY DEF WithoutLine
  <2> HIDE DEF u, w
  <2> QED
    BY <2>2, <2>3 DEF S
<1> HIDE DEF u
<1> SUFFICES ASSUME ReadLock(u) # Unreadable PROVE FALSE
  BY DEF u
<1>5. PICK q, Q : IsLocked(Q) /\ u = LockText([root |-> q, packages |-> Q])
  BY <1>4, TextThatReads
<1>6. PICK m, v : LockLines(u, q, Q, m, InKeyOrderOf(Q), v)
  BY <1>5, LockTextIs
<1>7. Ends(u, q, Q)
  BY <1>6, EndsOfText
<1>8. i \in Nat /\ 1 <= i /\ i <= Len(t) /\ Len(t) \in Nat /\ 5 <= Len(t)
  BY <1>2, <1>3 DEF Ends
<1>9. u[Len(t) - 2] = <<"graph-sha256", GraphDigest(Q)>> /\ u[Len(t) - 1] = <<"end-lock">>
  <2>1. Len(u) - 1 = Len(t) - 2
    BY <1>4, <1>8
  <2> QED
    BY <1>4, <1>7, <2>1 DEF Ends
<1>10. CASE i = Len(t)
  <2>1. u[Len(t) - 1] = t[Len(t) - 1]
    BY <1>4, <1>8, <1>10
  <2> QED
    BY <1>3, <1>9, <2>1 DEF Ends
<1>11. CASE i = Len(t) - 1
  <2>1. u[Len(t) - 2] = t[Len(t) - 2]
    BY <1>4, <1>8, <1>11
  <2>2. t[off[n]][1] # "graph-sha256"
    BY <1>1, DigestOnce
  <2> QED
    BY <1>3, <1>9, <2>1, <2>2
<1>12. CASE i <= Len(t) - 2
  <2>1. u[Len(t) - 2] = t[(Len(t) - 2) + 1]
    BY <1>4, <1>8, <1>12
  <2>2. (Len(t) - 2) + 1 = Len(t) - 1
    BY <1>8
  <2>3. GraphDigest(P) = GraphDigest(Q)
    BY <1>3, <1>9, <2>1, <2>2 DEF Ends
  <2>4. P = Q
    BY <1>5, <2>3, DigestDecides
  <2>5. LockLines(t, r, P, n, InKeyOrderOf(P), off) /\ LockLines(u, q, P, m, InKeyOrderOf(P), v)
    BY <1>1, <1>6, <2>4 DEF s
  <2>6. Len(t) = Len(u)
    BY ONLY <2>5, SameLength
  <2> QED
    BY <1>4, <1>8, <2>6
<1> QED
  BY <1>8, <1>10, <1>11, <1>12

\* A text with two lines swapped does not read.
LEMMA SwappedUnreadable ==
    ASSUME NEW r, NEW P, IsLocked(P), NEW t, t = LockText([root |-> r, packages |-> P]),
           NEW i \in 1..(Len(t) - 1)
    PROVE  ReadLock(Swapped(t, i)) = Unreadable
<1> DEFINE u == Swapped(t, i)
           s == InKeyOrderOf(P)
<1>1. PICK n, off : LockLines(t, r, P, n, s, off)
  BY LockTextIs
<1> HIDE DEF s
<1>2. t \in Seq(LinesOfLock(r, P)) /\ DOMAIN t = 1..Len(t)
  BY <1>1 DEF LockLines
<1>3. Ends(t, r, P) /\ Len(t) - 2 = off[n]
  <2>1. off[n] \in Nat /\ Len(t) = off[n] + 2
    BY <1>1, EndOfPlaces
  <2> QED
    BY <1>1, <2>1, EndsOfText
<1>4. /\ u \in Seq(LinesOfLock(r, P)) /\ Len(u) = Len(t)
      /\ u[i] = t[i + 1] /\ u[i + 1] = t[i]
      /\ \A j \in 1..Len(t) : j \notin {i, i + 1} => u[j] = t[j]
  BY <1>2, SwappedAt
<1> HIDE DEF u
<1> SUFFICES ASSUME ReadLock(u) # Unreadable PROVE FALSE
  BY DEF u
<1>5. PICK q, Q : IsLocked(Q) /\ u = LockText([root |-> q, packages |-> Q])
  BY <1>4, TextThatReads
<1>6. PICK m, v : LockLines(u, q, Q, m, InKeyOrderOf(Q), v)
  BY <1>5, LockTextIs
<1>7. Ends(u, q, Q)
  BY <1>6, EndsOfText
<1>8. i \in Nat /\ 1 <= i /\ i <= Len(t) - 1 /\ Len(t) \in Nat /\ 5 <= Len(t)
  BY <1>3 DEF Ends
<1>9. CASE i = 1
  <2>1. u[1] = t[2]
    BY <1>4, <1>9
  <2> QED
    BY <1>3, <1>7, <2>1 DEF Ends
<1>10. CASE i = 2
  <2>1. u[2] = t[3]
    BY <1>4, <1>10
  <2> QED
    BY <1>3, <1>7, <2>1 DEF Ends
<1>11. CASE i = Len(t) - 1
  <2>1. u[Len(t)] = t[Len(t) - 1]
    <3>1. i + 1 = Len(t)
      BY <1>8, <1>11
    <3> QED
      BY <1>4, <1>11, <3>1
  <2> QED
    BY <1>3, <1>4, <1>7, <2>1 DEF Ends
<1>12. CASE i = Len(t) - 2
  <2>1. u[Len(t) - 1] = t[Len(t) - 2]
    <3>1. i + 1 = Len(t) - 1
      BY <1>8, <1>12
    <3> QED
      BY <1>4, <1>12, <3>1
  <2>2. t[off[n]][1] # "graph-sha256"
    BY <1>1, DigestOnce
  <2> QED
    BY <1>3, <1>4, <1>7, <2>1, <2>2 DEF Ends
<1>13. CASE i \in 3..(Len(t) - 3)
  <2>1. u[2] = t[2] /\ u[Len(t) - 1] = t[Len(t) - 1]
    <3>1. /\ 2 \in 1..Len(t) /\ Len(t) - 1 \in 1..Len(t)
          /\ 2 \notin {i, i + 1} /\ Len(t) - 1 \notin {i, i + 1}
      BY <1>8, <1>13
    <3> QED
      BY <1>4, <3>1
  <2>2. r = q /\ GraphDigest(P) = GraphDigest(Q)
    BY <1>3, <1>4, <1>7, <2>1 DEF Ends
  <2>3. P = Q
    BY <1>5, <2>2, DigestDecides
  <2>4. t = u
    BY <1>5, <2>2, <2>3
  <2>5. t[i] = t[i + 1]
    BY <1>4, <2>4
  <2> QED
    BY <1>1, <2>5, NeighboursDiffer
<1>14. i = 1 \/ i = 2 \/ i = Len(t) - 1 \/ i = Len(t) - 2 \/ i \in 3..(Len(t) - 3)
  BY <1>8
<1> QED
  BY <1>9, <1>10, <1>11, <1>12, <1>13, <1>14

-----------------------------------------------------------------------------
(* What is written of bindings.                                            *)

\* Bindings of one package each, in places that are written as they are read.
IsBindingSet(B) ==
    /\ \A b \in B :
        /\ b = [package |-> b.package, version |-> b.version, metadata |-> b.metadata,
                url |-> b.url, commit |-> b.commit]
        /\ b.package \in Key
        /\ CanonicalUrl(b.url) = b.url
    /\ \A a, b \in B : a.package = b.package => a = b

\* The lines of a companion, which has n bindings, in order bs.
DocumentLines(t, l, B, n, bs) ==
    /\ n \in Nat /\ bs \in [1..n -> B] /\ Cardinality(B) = n
    /\ \A b \in B : \E i \in 1..n : bs[i] = b
    /\ Len(t) = 7 * n + 5 /\ DOMAIN t = 1..(7 * n + 5)
    /\ t[1] = <<"leanbun-reservoir-bindings-v1", 1>>
    /\ t[2] = <<"lock-v1-identity", LockText(l)>>
    /\ t[3] = <<"binding-count", n>>
    /\ \A i \in 1..n : \A j \in 1..7 : t[3 + 7 * (i - 1) + j] = BindingLines(bs[i])[j]
    /\ t[7 * n + 4] = <<"document-identity", Document(l, B)>>
    /\ t[7 * n + 5] = <<"end-reservoir-bindings">>

\* DocumentText writes so.
LEMMA DocumentTextIs ==
    ASSUME NEW l, NEW B, IsBindingSet(B)
    PROVE  \E n, bs : DocumentLines(DocumentText(Document(l, B)), l, B, n, bs)
<1> DEFINE K == {b.package : b \in B}
           n == Cardinality(K)
           keys == InKeyOrder(K)
           bs == [i \in 1..n |-> CHOOSE b \in B : b.package = keys[i]]
           lines == [i \in 1..n |-> BindingLines(bs[i])]
           f == FlattenSeq(lines)
           h == << <<"leanbun-reservoir-bindings-v1", 1>>, <<"lock-v1-identity", LockText(l)>>,
                   <<"binding-count", n>> >>
           e == << <<"document-identity", Document(l, B)>>, <<"end-reservoir-bindings">> >>
           T == Range(h) \cup Range(e) \cup UNION {Range(BindingLines(b)) : b \in B}
           t == (h \o f) \o e
<1>1. K \in SUBSET Nat /\ IsFiniteSet(K)
  <2>1. K \in SUBSET Key
    BY DEF IsBindingSet
  <2> QED
    BY <2>1, LockAssumption, FS_Subset
<1>2. /\ keys \in [1..n -> K] /\ n \in Nat /\ DOMAIN keys = 1..n
      /\ \A i, j \in 1..n : i < j => keys[i] < keys[j]
      /\ \A k \in K : \E i \in 1..n : keys[i] = k
  <2> HIDE DEF K
  <2> QED
    BY <1>1, KeysInOrder
<1>3. DocumentText(Document(l, B)) = t
  <2>1. Document(l, B).bindings = B /\ Document(l, B).lock = LockText(l)
    BY DEF Document
  <2>2. DOMAIN bs = 1..n /\ Len(bs) = n
    BY <1>2
  <2> DEFINE ks == InKeyOrder({b.package : b \in Document(l, B).bindings})
             found == [i \in DOMAIN ks |->
                          CHOOSE b \in Document(l, B).bindings : b.package = ks[i]]
  <2>3. found = bs
    BY <1>2, <2>1
  <2>4. DocumentText(Document(l, B)) =
            << <<"leanbun-reservoir-bindings-v1", 1>>,
               <<"lock-v1-identity", Document(l, B).lock>>,
               <<"binding-count", Len(found)>> >>
            \o FlattenSeq([i \in DOMAIN found |-> BindingLines(found[i])])
            \o << <<"document-identity", Document(l, B)>>, <<"end-reservoir-bindings">> >>
    BY DEF DocumentText
  <2> HIDE DEF found, bs, n
  <2> QED
    BY <2>1, <2>2, <2>3, <2>4
<1> HIDE DEF keys, n
<1>4. ASSUME NEW i \in 1..n PROVE bs[i] \in B /\ bs[i].package = keys[i]
  <2>1. PICK b \in B : b.package = keys[i]
    BY <1>2
  <2> QED
    BY <2>1
<1>5. bs \in [1..n -> B]
  BY <1>4
<1> HIDE DEF bs
<1>6. \A b \in B : \E i \in 1..n : bs[i] = b
  <2> SUFFICES ASSUME NEW b \in B PROVE \E i \in 1..n : bs[i] = b
    OBVIOUS
  <2>1. PICK i \in 1..n : keys[i] = b.package
    BY <1>2
  <2> QED
    BY <1>4, <2>1 DEF IsBindingSet
<1>7. Cardinality(B) = n
  <2>1. \A i, j \in 1..n : bs[i] = bs[j] => i = j
    <3> SUFFICES ASSUME NEW i \in 1..n, NEW j \in 1..n, bs[i] = bs[j], i # j PROVE FALSE
      OBVIOUS
    <3>1. i < j \/ j < i
      BY <1>2
    <3>2. keys[i] = keys[j] /\ keys[i] \in Nat
      BY <1>1, <1>2, <1>4
    <3> QED
      BY <1>2, <3>1, <3>2
  <2>2. bs \in Bijection(1..n, B)
    BY <1>5, <1>6, <2>1 DEF Bijection, Injection, IsInjective, Surjection
  <2>3. IsFiniteSet(1..n) /\ Cardinality(1..n) = n
    BY <1>2, FS_Interval
  <2> QED
    BY <2>2, <2>3, FS_Bijection DEF ExistsBijection
<1> HIDE DEF T, h, e
<1>8. lines \in [1..n -> Seq(T)] /\ Len(lines) = n /\ \A i \in 1..n : Len(lines[i]) = 7
  <2>1. ASSUME NEW i \in 1..n
        PROVE  BindingLines(bs[i]) \in Seq(T) /\ Len(BindingLines(bs[i])) = 7
    <3>1. Range(BindingLines(bs[i])) \subseteq T
      BY <1>5 DEF T
    <3> DEFINE L == BindingLines(bs[i])
    <3>2. DOMAIN L = 1..7 /\ Len(L) = 7
      BY DEF BindingLines
    <3>3. L[1] \in T /\ L[2] \in T /\ L[3] \in T /\ L[4] \in T /\ L[5] \in T
          /\ L[6] \in T /\ L[7] \in T
      <4> HIDE DEF L
      <4>1. \A j \in 1..7 : L[j] \in T
        BY <3>1, <3>2 DEF Range, L
      <4> QED
        BY <4>1
    <3>4. L \in Seq(T)
      BY <3>3 DEF BindingLines
    <3> QED
      BY <3>2, <3>4
  <2> QED
    BY <1>2, <2>1
<1>9. /\ f \in Seq(T)
      /\ \E o : Flattened(lines, n, o, f)
  <2> HIDE DEF lines
  <2>1. n \in Nat /\ lines \in [1..n -> Seq(T)] /\ Len(lines) = n
    BY <1>2, <1>8
  <2> QED
    BY ONLY <2>1, FlattenedTogether
<1>10. PICK o : Flattened(lines, n, o, f)
  BY <1>9
<1> HIDE DEF f, lines
<1>11. \A i \in 0..n : o[i] = 7 * i
  <2> DEFINE I == {i \in 0..n : o[i] = 7 * i}
  <2>1. 0 \in I
    BY <1>2, <1>10 DEF Flattened
  <2>2. ASSUME NEW i \in 1..n, i - 1 \in I PROVE i \in I
    <3>1. o[i] = o[i - 1] + Len(lines[i])
      BY <1>10 DEF Flattened
    <3>2. o[i] = 7 * (i - 1) + 7
      BY <1>8, <2>2, <3>1
    <3>3. i \in 0..n /\ 7 * (i - 1) + 7 = 7 * i
      BY <1>2
    <3> QED
      BY <3>2, <3>3
  <2>3. 0..n \subseteq I
    <3> HIDE DEF I
    <3> QED
      BY <1>2, <2>1, <2>2, Inductive
  <2> QED
    BY <2>3
<1>12. /\ Len(f) = 7 * n
       /\ \A i \in 1..n : \A j \in 1..7 :
            /\ f[7 * (i - 1) + j] = BindingLines(bs[i])[j]
            /\ 7 * (i - 1) + j \in 1..(7 * n)
  <2>1. Len(f) = 7 * n
    BY <1>2, <1>10, <1>11 DEF Flattened
  <2>2. ASSUME NEW i \in 1..n, NEW j \in 1..7
        PROVE  /\ f[7 * (i - 1) + j] = BindingLines(bs[i])[j]
               /\ 7 * (i - 1) + j \in 1..(7 * n)
    <3>1. o[i - 1] = 7 * (i - 1)
      BY <1>2, <1>11
    <3>2. f[o[i - 1] + j] = lines[i][j]
      BY <1>8, <1>10 DEF Flattened
    <3>3. lines[i] = BindingLines(bs[i])
      BY DEF lines
    <3>4. 7 * (i - 1) + j \in 1..(7 * n)
      BY <1>2
    <3> QED
      BY <3>1, <3>2, <3>3, <3>4
  <2> QED
    BY <2>1, <2>2
<1>13. h \in Seq(T) /\ e \in Seq(T) /\ Len(h) = 3 /\ Len(e) = 2
  <2>1. Range(h) \subseteq T /\ Range(e) \subseteq T
    BY DEF T
  <2>2. h[1] \in T /\ h[2] \in T /\ h[3] \in T /\ e[1] \in T /\ e[2] \in T
    BY <2>1 DEF Range, h, e
  <2> QED
    BY <2>2 DEF h, e
<1>14. /\ t \in Seq(T) /\ Len(t) = Len(h) + Len(f) + Len(e)
       /\ \A i \in 1..Len(h) : t[i] = h[i]
       /\ \A i \in 1..Len(f) : t[Len(h) + i] = f[i]
       /\ \A i \in 1..Len(e) : t[Len(h) + Len(f) + i] = e[i]
  <2>1. h \in Seq(T) /\ f \in Seq(T) /\ e \in Seq(T)
    BY <1>9, <1>13
  <2>2. AllThree(T, h, f, e, t)
    BY ONLY <2>1, JoinedThree
  <2> QED
    BY <2>2 DEF AllThree
<1> HIDE DEF t
<1>15. Len(t) = 7 * n + 5 /\ DOMAIN t = 1..(7 * n + 5)
  <2>1. Len(t) = 7 * n + 5
    BY <1>2, <1>12, <1>13, <1>14
  <2> QED
    BY <1>14, <2>1
<1>16. t[1] = h[1] /\ t[2] = h[2] /\ t[3] = h[3]
  BY <1>13, <1>14
<1>17. t[7 * n + 4] = e[1] /\ t[7 * n + 5] = e[2]
  <2>1. t[Len(h) + Len(f) + 1] = e[1] /\ t[Len(h) + Len(f) + 2] = e[2]
    BY <1>13, <1>14
  <2>2. Len(h) + Len(f) + 1 = 7 * n + 4 /\ Len(h) + Len(f) + 2 = 7 * n + 5
    BY <1>2, <1>12, <1>13
  <2> QED
    BY <2>1, <2>2
<1>18. ASSUME NEW i \in 1..n, NEW j \in 1..7
       PROVE  t[3 + 7 * (i - 1) + j] = BindingLines(bs[i])[j]
  <2>1. t[3 + (7 * (i - 1) + j)] = f[7 * (i - 1) + j]
    BY <1>12, <1>13, <1>14
  <2>2. 3 + 7 * (i - 1) + j = 3 + (7 * (i - 1) + j)
    BY <1>2
  <2> QED
    BY <1>12, <2>1, <2>2
<1>19. DocumentLines(t, l, B, n, bs)
  BY <1>2, <1>5, <1>6, <1>7, <1>15, <1>16, <1>17, <1>18 DEF DocumentLines, h, e
<1> QED
  BY <1>3, <1>19

\* ReadBinding finds each.
LEMMA BindingReadsBack ==
    ASSUME NEW t, NEW l, NEW B, NEW n, NEW bs, IsBindingSet(B), DocumentLines(t, l, B, n, bs),
           NEW i \in 1..n
    PROVE  ReadBinding(t, 4 + 7 * (i - 1)) = bs[i]
<1> DEFINE m == 4 + 7 * (i - 1)
           b == bs[i]
<1>1. n \in Nat /\ b \in B
  BY DEF DocumentLines
<1>2. \A j \in 1..7 : t[3 + 7 * (i - 1) + j] = BindingLines(b)[j]
  BY DEF DocumentLines
<1>3. /\ t[m] = BindingLines(b)[1] /\ t[m + 1] = BindingLines(b)[2]
      /\ t[m + 2] = BindingLines(b)[3] /\ t[m + 3] = BindingLines(b)[4]
      /\ t[m + 4] = BindingLines(b)[5] /\ t[m + 5] = BindingLines(b)[6]
      /\ t[m + 6] = BindingLines(b)[7]
  <2>1. /\ m = 3 + 7 * (i - 1) + 1 /\ m + 1 = 3 + 7 * (i - 1) + 2
        /\ m + 2 = 3 + 7 * (i - 1) + 3 /\ m + 3 = 3 + 7 * (i - 1) + 4
        /\ m + 4 = 3 + 7 * (i - 1) + 5 /\ m + 5 = 3 + 7 * (i - 1) + 6
        /\ m + 6 = 3 + 7 * (i - 1) + 7
    BY <1>1
  <2> HIDE DEF m, b
  <2>2. \A j \in {1, 2, 3, 4, 5, 6, 7} : t[3 + 7 * (i - 1) + j] = BindingLines(b)[j]
    BY <1>2
  <2> QED
    BY <2>1, <2>2
<1>4. /\ t[m] = <<"binding", b.package>> /\ t[m + 1] = <<"requested-version", b.version>>
      /\ t[m + 2] = <<"metadata-sha256", b.metadata>> /\ t[m + 3] = <<"resolved-url", b.url>>
      /\ t[m + 4] = <<"exact-commit", b.commit>> /\ t[m + 5] = <<"binding-identity", b>>
      /\ t[m + 6] = <<"end-binding">>
  <2> HIDE DEF m, b
  <2> QED
    BY <1>3 DEF BindingLines
<1>5. \A j \in m..(m + 6) : j \in DOMAIN t
  <2>1. DOMAIN t = 1..(7 * n + 5)
    BY DEF DocumentLines
  <2> QED
    BY <1>1, <2>1
<1>6. /\ m \in m..(m + 6) /\ m + 1 \in m..(m + 6) /\ m + 2 \in m..(m + 6)
      /\ m + 3 \in m..(m + 6) /\ m + 4 \in m..(m + 6) /\ m + 5 \in m..(m + 6)
      /\ m + 6 \in m..(m + 6)
  BY <1>1
<1> HIDE DEF m, b
<1>7. /\ Expect(t, m, "binding", 1) /\ Expect(t, m + 1, "requested-version", 1)
      /\ Expect(t, m + 2, "metadata-sha256", 1) /\ Expect(t, m + 3, "resolved-url", 1)
      /\ Expect(t, m + 4, "exact-commit", 1) /\ Expect(t, m + 5, "binding-identity", 1)
      /\ Expect(t, m + 6, "end-binding", 0)
  BY <1>4, <1>5, <1>6 DEF Expect
<1> DEFINE found ==
            [package |-> t[m][2], version |-> t[m + 1][2], metadata |-> t[m + 2][2],
             url |-> CanonicalUrl(t[m + 3][2]), commit |-> t[m + 4][2]]
<1>8. found = b
  <2>1. /\ t[m][2] = b.package /\ t[m + 1][2] = b.version /\ t[m + 2][2] = b.metadata
        /\ t[m + 3][2] = b.url /\ t[m + 4][2] = b.commit
    BY <1>4
  <2>2. CanonicalUrl(b.url) = b.url
    BY <1>1 DEF IsBindingSet
  <2>3. b = [package |-> b.package, version |-> b.version, metadata |-> b.metadata,
             url |-> b.url, commit |-> b.commit]
    BY <1>1 DEF IsBindingSet
  <2> QED
    BY <2>1, <2>2, <2>3
<1>9. t[m + 5][2] = b
  BY <1>4
<1>10. ReadBinding(t, m) =
          IF /\ Expect(t, m, "binding", 1) /\ Expect(t, m + 1, "requested-version", 1)
             /\ Expect(t, m + 2, "metadata-sha256", 1) /\ Expect(t, m + 3, "resolved-url", 1)
             /\ Expect(t, m + 4, "exact-commit", 1) /\ Expect(t, m + 5, "binding-identity", 1)
             /\ Expect(t, m + 6, "end-binding", 0)
             /\ t[m + 5][2] = found
          THEN found ELSE Unreadable
  BY DEF ReadBinding
<1> HIDE DEF found
<1> QED
  BY <1>7, <1>8, <1>9, <1>10 DEF m, b

\* A companion is read back from its text with its lock.
LEMMA DocumentReadsBack ==
    ASSUME NEW l, NEW B, IsBindingSet(B), DocumentIsValid(l.packages, B)
    PROVE  ReadDocument(DocumentText(Document(l, B)), l) = Document(l, B)
<1> DEFINE t == DocumentText(Document(l, B))
<1>1. PICK n, bs : DocumentLines(t, l, B, n, bs)
  BY DocumentTextIs
<1> HIDE DEF t
<1>2. /\ n \in Nat /\ bs \in [1..n -> B] /\ Cardinality(B) = n
      /\ \A b \in B : \E i \in 1..n : bs[i] = b
      /\ Len(t) = 7 * n + 5 /\ DOMAIN t = 1..(7 * n + 5)
  BY <1>1 DEF DocumentLines
<1>3. B # {}
  BY DEF DocumentIsValid
<1>4. n > 0
  <2>1. PICK b \in B : TRUE
    BY <1>3
  <2>2. PICK i \in 1..n : bs[i] = b
    BY <1>2
  <2> QED
    BY <1>2, <2>2
<1> DEFINE count == t[3][2]
           read == {ReadBinding(t, 4 + 7 * i) : i \in 0..(count - 1)}
           last == 4 + 7 * count
           Guard ==
               /\ Expect(t, 1, "leanbun-reservoir-bindings-v1", 1) /\ t[1][2] = 1
               /\ Expect(t, 2, "lock-v1-identity", 1) /\ t[2][2] = LockText(l)
               /\ Expect(t, 3, "binding-count", 1)
               /\ count > 0 /\ Unreadable \notin read /\ Cardinality(read) = count
               /\ Expect(t, last, "document-identity", 1)
               /\ Expect(t, last + 1, "end-reservoir-bindings", 0)
               /\ Len(t) = last + 1
               /\ DocumentIsValid(l.packages, read)
               /\ t[last][2] = Document(l, read)
               /\ DocumentText(Document(l, read)) = t
<1>5. ReadDocument(t, l) = IF Guard THEN Document(l, read) ELSE Unreadable
  BY DEF ReadDocument
<1>6. count = n
  BY <1>1 DEF DocumentLines
<1> HIDE DEF count
<1>7. read = B
  <2>1. ASSUME NEW i \in 0..(count - 1) PROVE ReadBinding(t, 4 + 7 * i) \in B
    <3> DEFINE j == i + 1
    <3>1. j \in 1..n /\ 4 + 7 * (j - 1) = 4 + 7 * i
      BY <1>2, <1>6
    <3> HIDE DEF j
    <3>2. ReadBinding(t, 4 + 7 * (j - 1)) = bs[j]
      BY <1>1, <3>1, BindingReadsBack
    <3> QED
      BY <1>2, <3>1, <3>2
  <2>2. ASSUME NEW b \in B PROVE \E i \in 0..(count - 1) : b = ReadBinding(t, 4 + 7 * i)
    <3>1. PICK j \in 1..n : bs[j] = b
      BY <1>2
    <3>2. ReadBinding(t, 4 + 7 * (j - 1)) = b
      BY <1>1, <3>1, BindingReadsBack
    <3>3. j - 1 \in 0..(count - 1)
      BY <1>2, <1>6
    <3> QED
      BY <3>2, <3>3
  <2> QED
    BY <2>1, <2>2
<1> HIDE DEF read
<1>8. /\ t[1] = <<"leanbun-reservoir-bindings-v1", 1>>
      /\ t[2] = <<"lock-v1-identity", LockText(l)>>
      /\ t[3] = <<"binding-count", n>>
      /\ t[last] = <<"document-identity", Document(l, B)>>
      /\ t[last + 1] = <<"end-reservoir-bindings">>
  <2>1. last = 7 * n + 4 /\ last + 1 = 7 * n + 5
    BY <1>2, <1>6
  <2> HIDE DEF last
  <2> QED
    BY <1>1, <2>1 DEF DocumentLines
<1>9. /\ 1 \in DOMAIN t /\ 2 \in DOMAIN t /\ 3 \in DOMAIN t /\ last \in DOMAIN t
      /\ last + 1 \in DOMAIN t /\ Len(t) = last + 1
  BY <1>2, <1>6
<1> HIDE DEF last
<1>10. /\ Expect(t, 1, "leanbun-reservoir-bindings-v1", 1) /\ t[1][2] = 1
       /\ Expect(t, 2, "lock-v1-identity", 1) /\ t[2][2] = LockText(l)
       /\ Expect(t, 3, "binding-count", 1)
       /\ Expect(t, last, "document-identity", 1) /\ t[last][2] = Document(l, B)
       /\ Expect(t, last + 1, "end-reservoir-bindings", 0)
  BY <1>8, <1>9 DEF Expect
<1>11. Unreadable \notin read
  <2> SUFFICES ASSUME NEW b \in B PROVE b # Unreadable
    BY <1>7
  <2>1. b = [package |-> b.package, version |-> b.version, metadata |-> b.metadata,
             url |-> b.url, commit |-> b.commit]
    BY DEF IsBindingSet
  <2> QED
    BY <2>1 DEF Unreadable
<1>12. Cardinality(read) = count /\ DocumentIsValid(l.packages, read)
  BY <1>2, <1>6, <1>7
<1>13. DocumentText(Document(l, read)) = t
  BY <1>7 DEF t
<1>14. Guard
  BY <1>4, <1>6, <1>7, <1>9, <1>10, <1>11, <1>12, <1>13
<1> HIDE DEF Guard
<1> QED
  BY <1>5, <1>7, <1>14 DEF t

\* With a lock of another text it is not.
LEMMA DocumentOfAnotherLock ==
    ASSUME NEW l, NEW B, IsBindingSet(B), NEW k, LockText(k) # LockText(l)
    PROVE  ReadDocument(DocumentText(Document(l, B)), k) = Unreadable
<1> DEFINE t == DocumentText(Document(l, B))
<1>1. PICK n, bs : DocumentLines(t, l, B, n, bs)
  BY DocumentTextIs
<1> HIDE DEF t
<1>2. t[2][2] = LockText(l)
  BY <1>1 DEF DocumentLines
<1>3. t[2][2] # LockText(k)
  BY <1>2
<1>4. ReadDocument(t, k) = Unreadable
  BY <1>3 DEF ReadDocument
<1> QED
  BY <1>4 DEF t

-----------------------------------------------------------------------------
(* What is written of a generation.                                        *)

\* A generation and what is written of its n packages.
IsGeneration(g, n) ==
    /\ n \in Nat
    /\ g = [transaction |-> g.transaction, lock |-> g.lock, graph |-> g.graph,
            decisions |-> g.decisions, manifest |-> g.manifest, runtime |-> g.runtime,
            document |-> g.document, packages |-> g.packages]
    /\ g.packages = [i \in 1..n |-> g.packages[i]]
    /\ \A i \in 1..n : \E a, b, c, d : g.packages[i] = <<a, b, c, d>>

Fields(g) ==
    << <<IF g.document = NoDocument THEN "leanbun-generation-v1"
         ELSE "leanbun-generation-v2", 1>>, <<"transaction", g.transaction>>,
       <<"lock-sha256", g.lock>>, <<"graph-sha256", g.graph>>,
       <<"decision-set-sha256", g.decisions>>,
       <<"manifest-projection-sha256", g.manifest>>,
       <<"runtime-projection-sha256", g.runtime>> >>
Companion(g) ==
    IF g.document = NoDocument THEN <<>> ELSE << <<"reservoir-bindings-sha256", g.document>> >>
PackageRows(g) == [i \in DOMAIN g.packages |-> <<"package">> \o g.packages[i]]
Closing(g) == << <<"generation-sha256", g>>, <<"end-generation">> >>

\* The lines of a generation, the number of packages in the k-th.
MetadataLines(t, g, n, k) ==
    /\ k = IF g.document = NoDocument THEN 8 ELSE 9
    /\ Len(t) = k + n + 2 /\ DOMAIN t = 1..(k + n + 2)
    /\ \A i \in 1..7 : t[i] = Fields(g)[i]
    /\ g.document # NoDocument => t[8] = <<"reservoir-bindings-sha256", g.document>>
    /\ t[k] = <<"package-count", n>>
    /\ \A i \in 1..n : t[k + i] = <<"package">> \o g.packages[i]
    /\ t[k + n + 1] = <<"generation-sha256", g>>
    /\ t[k + n + 2] = <<"end-generation">>

\* MetadataText writes so.
LEMMA MetadataTextIs ==
    ASSUME NEW g, NEW n, IsGeneration(g, n)
    PROVE  \E k : MetadataLines(MetadataText(g), g, n, k)
<1> DEFINE a == Fields(g)
           b == Companion(g)
           c == << <<"package-count", n>> >>
           p == PackageRows(g)
           e == Closing(g)
           T == Range(a) \cup Range(b) \cup Range(c) \cup Range(p) \cup Range(e)
           h == (a \o b) \o c
           t == (h \o p) \o e
           k == IF g.document = NoDocument THEN 8 ELSE 9
<1>1. n \in Nat /\ DOMAIN g.packages = 1..n /\ Len(g.packages) = n
  <2>1. n \in Nat
    BY DEF IsGeneration
  <2>2. DOMAIN g.packages = 1..n
    BY DEF IsGeneration
  <2> QED
    BY <2>1, <2>2
<1>2. MetadataText(g) = t
  BY <1>1 DEF MetadataText, Fields, Companion, PackageRows, Closing
<1>3. a \in Seq(T) /\ Len(a) = 7
  <2>1. DOMAIN a = 1..7 /\ Len(a) = 7
    BY DEF Fields
  <2>2. \A i \in 1..7 : a[i] \in T
    <3>1. \A i \in 1..7 : a[i] \in Range(a)
      BY <2>1 DEF Range
    <3> QED
      BY <3>1
  <2>3. a[1] \in T /\ a[2] \in T /\ a[3] \in T /\ a[4] \in T /\ a[5] \in T /\ a[6] \in T
        /\ a[7] \in T
    BY <2>2
  <2> HIDE DEF T
  <2> QED
    BY <2>1, <2>3 DEF Fields
<1>4. b \in Seq(T) /\ Len(b) = k - 8 /\ c \in Seq(T) /\ Len(c) = 1
      /\ e \in Seq(T) /\ Len(e) = 2
  <2>1. Range(b) \subseteq T /\ Range(c) \subseteq T /\ Range(e) \subseteq T
    OBVIOUS
  <2> HIDE DEF T
  <2>2. c[1] \in T /\ e[1] \in T /\ e[2] \in T
    BY <2>1 DEF Range, Closing
  <2>3. c \in Seq(T) /\ Len(c) = 1 /\ e \in Seq(T) /\ Len(e) = 2
    BY <2>2 DEF Closing
  <2>4. b \in Seq(T) /\ Len(b) = k - 8
    <3>1. CASE g.document = NoDocument
      BY <3>1 DEF Companion
    <3>2. CASE g.document # NoDocument
      <4>1. b = << <<"reservoir-bindings-sha256", g.document>> >>
        BY <3>2 DEF Companion
      <4>2. b[1] \in T
        BY <2>1, <4>1 DEF Range
      <4> HIDE DEF b
      <4> QED
        BY <3>2, <4>1, <4>2
    <3> QED
      BY <3>1, <3>2
  <2> QED
    BY <2>3, <2>4
<1>5. p \in Seq(T) /\ Len(p) = n /\ \A i \in 1..n : p[i] = <<"package">> \o g.packages[i]
  <2>1. p = [i \in 1..n |-> <<"package">> \o g.packages[i]]
    BY <1>1 DEF PackageRows
  <2>2. Range(p) \subseteq T
    OBVIOUS
  <2> HIDE DEF p, T
  <2>3. \A i \in 1..n : p[i] \in T
    BY <2>1, <2>2 DEF Range
  <2>4. p \in [1..n -> T]
    BY <2>1, <2>3
  <2>5. p \in Seq(T) /\ Len(p) = n
    BY <1>1, <2>4
  <2>6. \A i \in 1..n : p[i] = <<"package">> \o g.packages[i]
    BY <2>1
  <2> QED
    BY <2>5, <2>6
<1>6. k \in {8, 9} /\ (k = 8 <=> g.document = NoDocument)
  OBVIOUS
<1> HIDE DEF T, a, b, c, p, e, k
<1>7. AllThree(T, a, b, c, h)
  <2>1. a \in Seq(T) /\ b \in Seq(T) /\ c \in Seq(T)
    BY <1>3, <1>4
  <2> QED
    BY ONLY <2>1, JoinedThree
<1> HIDE DEF h
<1>8. /\ h \in Seq(T) /\ Len(h) = k /\ \A i \in 1..7 : h[i] = a[i]
      /\ \A i \in 1..Len(b) : h[7 + i] = b[i]
      /\ h[k] = c[1]
  <2>1. h \in Seq(T) /\ Len(h) = k
    BY <1>3, <1>4, <1>6, <1>7 DEF AllThree
  <2>2. h[Len(a) + Len(b) + 1] = c[1]
    BY <1>4, <1>7 DEF AllThree
  <2>3. Len(a) + Len(b) + 1 = k
    BY <1>3, <1>4, <1>6
  <2> QED
    BY <1>3, <1>7, <2>1, <2>2, <2>3 DEF AllThree
<1>9. AllThree(T, h, p, e, t)
  <2>1. h \in Seq(T) /\ p \in Seq(T) /\ e \in Seq(T)
    BY <1>4, <1>5, <1>8
  <2> QED
    BY ONLY <2>1, JoinedThree
<1> HIDE DEF t
<1>10. Len(t) = k + n + 2 /\ DOMAIN t = 1..(k + n + 2)
  <2>1. Len(t) = k + n + 2 /\ t \in Seq(T)
    BY <1>4, <1>5, <1>8, <1>9 DEF AllThree
  <2> QED
    BY <2>1
<1>11. \A i \in 1..k : t[i] = h[i]
  BY <1>8, <1>9 DEF AllThree
<1>12. \A i \in 1..7 : t[i] = Fields(g)[i]
  <2>1. \A i \in 1..7 : i \in 1..k
    BY <1>6
  <2> QED
    BY <1>8, <1>11, <2>1 DEF a
<1>13. g.document # NoDocument => t[8] = <<"reservoir-bindings-sha256", g.document>>
  <2> SUFFICES ASSUME g.document # NoDocument PROVE t[8] = <<"reservoir-bindings-sha256", g.document>>
    OBVIOUS
  <2>1. k = 9 /\ b = << <<"reservoir-bindings-sha256", g.document>> >>
    BY <1>6 DEF Companion, b
  <2>2. 1 \in 1..Len(b) /\ 8 \in 1..k
    BY <1>4, <2>1
  <2>3. h[7 + 1] = b[1]
    BY <1>8, <2>2
  <2> QED
    BY <1>11, <2>1, <2>2, <2>3
<1>14. t[k] = <<"package-count", n>>
  <2>1. k \in 1..k
    BY <1>6
  <2> QED
    BY <1>8, <1>11, <2>1 DEF c
<1>15. \A i \in 1..n : t[k + i] = <<"package">> \o g.packages[i]
  BY <1>5, <1>8, <1>9 DEF AllThree
<1>16. t[k + n + 1] = e[1] /\ t[k + n + 2] = e[2]
  <2>1. 1 \in 1..Len(e) /\ 2 \in 1..Len(e)
    BY <1>4
  <2> QED
    BY <1>5, <1>8, <1>9, <2>1 DEF AllThree
<1>17. MetadataLines(t, g, n, k)
  BY <1>10, <1>12, <1>13, <1>14, <1>15, <1>16 DEF MetadataLines, k, e, Closing
<1> QED
  BY <1>2, <1>17

\* A generation is read back from its text.
LEMMA MetadataReadsBack ==
    ASSUME NEW g, NEW n, IsGeneration(g, n)
    PROVE  ReadMetadata(MetadataText(g)) = g
<1> DEFINE t == MetadataText(g)
<1>1. PICK k : MetadataLines(t, g, n, k)
  BY MetadataTextIs
<1> HIDE DEF t
<1>2. n \in Nat /\ k \in {8, 9} /\ (k = 8 <=> g.document = NoDocument)
      /\ Len(t) = k + n + 2 /\ DOMAIN t = 1..(k + n + 2)
  BY <1>1 DEF IsGeneration, MetadataLines
<1>3. /\ t[1] = <<IF g.document = NoDocument THEN "leanbun-generation-v1"
                  ELSE "leanbun-generation-v2", 1>>
      /\ t[2] = <<"transaction", g.transaction>> /\ t[3] = <<"lock-sha256", g.lock>>
      /\ t[4] = <<"graph-sha256", g.graph>> /\ t[5] = <<"decision-set-sha256", g.decisions>>
      /\ t[6] = <<"manifest-projection-sha256", g.manifest>>
      /\ t[7] = <<"runtime-projection-sha256", g.runtime>>
  <2>1. \A i \in {1, 2, 3, 4, 5, 6, 7} : t[i] = Fields(g)[i]
    BY <1>1 DEF MetadataLines
  <2> QED
    BY <2>1 DEF Fields
<1>4. /\ g.document # NoDocument => t[8] = <<"reservoir-bindings-sha256", g.document>>
      /\ t[k] = <<"package-count", n>>
      /\ \A i \in 1..n : t[k + i] = <<"package">> \o g.packages[i]
      /\ t[k + n + 1] = <<"generation-sha256", g>>
      /\ t[k + n + 2] = <<"end-generation">>
  BY <1>1 DEF MetadataLines
<1>5. \A i \in 1..(k + n + 2) : i \in DOMAIN t
  BY <1>2
<1>6. \A i \in {1, 2, 3, 4, 5, 6, 7, 8, k, k + n + 1, k + n + 2} : i \in DOMAIN t
  BY <1>2, <1>5
<1> DEFINE two == Expect(t, 1, "leanbun-generation-v2", 1)
           i == IF two THEN 9 ELSE 8
           count == t[i][2]
           found ==
              [transaction |-> t[2][2], lock |-> t[3][2], graph |-> t[4][2],
               decisions |-> t[5][2], manifest |-> t[6][2], runtime |-> t[7][2],
               document |-> IF two THEN t[8][2] ELSE NoDocument,
               packages |-> [m \in 1..count |-> Tail(t[i + m])]]
           Guard ==
              /\ two \/ Expect(t, 1, "leanbun-generation-v1", 1)
              /\ Expect(t, 2, "transaction", 1) /\ Expect(t, 3, "lock-sha256", 1)
              /\ Expect(t, 4, "graph-sha256", 1) /\ Expect(t, 5, "decision-set-sha256", 1)
              /\ Expect(t, 6, "manifest-projection-sha256", 1)
              /\ Expect(t, 7, "runtime-projection-sha256", 1)
              /\ two => Expect(t, 8, "reservoir-bindings-sha256", 1)
              /\ Expect(t, i, "package-count", 1)
              /\ \A m \in 1..count : Expect(t, i + m, "package", 4)
              /\ Expect(t, i + count + 1, "generation-sha256", 1)
              /\ Expect(t, i + count + 2, "end-generation", 0)
              /\ Len(t) = i + count + 2
              /\ MetadataText(found) = t
              /\ t[i + count + 1][2] = found
<1>7. ReadMetadata(t) = IF Guard THEN found ELSE Unreadable
  BY DEF ReadMetadata
<1>8. two <=> g.document # NoDocument
  BY <1>3, <1>6 DEF Expect
<1> HIDE DEF two
<1>9. i = k
  BY <1>2, <1>8
<1> HIDE DEF i
<1>10. count = n
  BY <1>4, <1>9
<1> HIDE DEF count
<1>11. ASSUME NEW m \in 1..n
       PROVE  Tail(t[i + m]) = g.packages[m] /\ Expect(t, i + m, "package", 4)
  <2>1. PICK a, b, c, d : g.packages[m] = <<a, b, c, d>>
    BY DEF IsGeneration
  <2>2. t[i + m] = <<"package">> \o <<a, b, c, d>>
    BY <1>4, <1>9, <2>1
  <2>3. <<"package">> \o <<a, b, c, d>> = <<"package", a, b, c, d>>
    <3> DEFINE S == {"package", a, b, c, d}
               x == <<"package">> \o <<a, b, c, d>>
    <3>1. <<"package">> \in Seq(S) /\ <<a, b, c, d>> \in Seq(S)
      OBVIOUS
    <3>2. /\ x \in Seq(S) /\ Len(x) = Len(<<"package">>) + Len(<<a, b, c, d>>)
          /\ \A j \in 1..Len(<<"package">>) : x[j] = <<"package">>[j]
          /\ \A j \in 1..Len(<<a, b, c, d>>) : x[Len(<<"package">>) + j] = <<a, b, c, d>>[j]
      <4> HIDE DEF S
      <4> QED
        BY ONLY <3>1, Joined
    <3>3. Len(<<"package">>) = 1 /\ Len(<<a, b, c, d>>) = 4
      OBVIOUS
    <3> HIDE DEF S, x
    <3>4. x \in Seq(S) /\ Len(x) = 5 /\ x[1] = "package"
      BY <3>2, <3>3
    <3>5. \A j \in {1, 2, 3, 4} : x[1 + j] = <<a, b, c, d>>[j]
      BY <3>2, <3>3
    <3>6. x[2] = a /\ x[3] = b /\ x[4] = c /\ x[5] = d
      BY <3>5
    <3>7. x = <<"package", a, b, c, d>>
      BY <3>4, <3>6
    <3> QED
      BY <3>7 DEF x
  <2>4. Tail(<<"package", a, b, c, d>>) = <<a, b, c, d>>
    OBVIOUS
  <2>5. i + m \in DOMAIN t
    BY <1>2, <1>9
  <2>6. Expect(t, i + m, "package", 4)
    BY <2>2, <2>3, <2>5 DEF Expect
  <2> QED
    BY <2>1, <2>2, <2>3, <2>4, <2>6
<1>12. found = g
  <2>1. [m \in 1..count |-> Tail(t[i + m])] = g.packages
    <3>1. g.packages = [m \in 1..n |-> g.packages[m]]
      BY DEF IsGeneration
    <3> QED
      BY <1>10, <1>11, <3>1
  <2>2. (IF two THEN t[8][2] ELSE NoDocument) = g.document
    BY <1>4, <1>8
  <2>3. t[2][2] = g.transaction /\ t[3][2] = g.lock /\ t[4][2] = g.graph
        /\ t[5][2] = g.decisions /\ t[6][2] = g.manifest /\ t[7][2] = g.runtime
    BY <1>3
  <2>4. found = [transaction |-> g.transaction, lock |-> g.lock, graph |-> g.graph,
                 decisions |-> g.decisions, manifest |-> g.manifest, runtime |-> g.runtime,
                 document |-> g.document, packages |-> g.packages]
    BY <2>1, <2>2, <2>3
  <2> HIDE DEF found
  <2> QED
    BY <2>4 DEF IsGeneration
<1> HIDE DEF found
<1>13. Expect(t, 2, "transaction", 1) /\ Expect(t, 3, "lock-sha256", 1)
       /\ Expect(t, 4, "graph-sha256", 1) /\ Expect(t, 5, "decision-set-sha256", 1)
       /\ Expect(t, 6, "manifest-projection-sha256", 1)
       /\ Expect(t, 7, "runtime-projection-sha256", 1)
       /\ (two \/ Expect(t, 1, "leanbun-generation-v1", 1))
  BY <1>3, <1>6, <1>8 DEF Expect
<1>14. /\ two => Expect(t, 8, "reservoir-bindings-sha256", 1)
       /\ Expect(t, i, "package-count", 1)
       /\ Expect(t, i + count + 1, "generation-sha256", 1)
       /\ Expect(t, i + count + 2, "end-generation", 0)
       /\ t[i + count + 1][2] = g
  <2>1. i + count + 1 = k + n + 1 /\ i + count + 2 = k + n + 2
    BY <1>9, <1>10
  <2>2. two => Expect(t, 8, "reservoir-bindings-sha256", 1)
    <3> SUFFICES ASSUME two PROVE Expect(t, 8, "reservoir-bindings-sha256", 1)
      OBVIOUS
    <3>1. t[8] = <<"reservoir-bindings-sha256", g.document>>
      BY <1>4, <1>8
    <3>2. 8 \in DOMAIN t
      BY <1>6
    <3> QED
      BY ONLY <3>1, <3>2 DEF Expect
  <2>3. Expect(t, i, "package-count", 1)
    <3>1. t[i] = <<"package-count", n>> /\ i \in DOMAIN t
      BY <1>4, <1>6, <1>9
    <3> QED
      BY ONLY <3>1 DEF Expect
  <2>4. Expect(t, k + n + 1, "generation-sha256", 1) /\ t[k + n + 1][2] = g
    BY <1>4, <1>6 DEF Expect
  <2>5. Expect(t, k + n + 2, "end-generation", 0)
    BY <1>4, <1>6 DEF Expect
  <2> QED
    BY <2>1, <2>2, <2>3, <2>4, <2>5
<1>15. Len(t) = i + count + 2 /\ \A m \in 1..count : Expect(t, i + m, "package", 4)
  BY <1>2, <1>9, <1>10, <1>11
<1>16. MetadataText(found) = t
  BY <1>12 DEF t
<1>17. Guard
  BY <1>12, <1>13, <1>14, <1>15, <1>16
<1> HIDE DEF Guard
<1> QED
  BY <1>7, <1>12, <1>17 DEF t

-----------------------------------------------------------------------------
(* What is written of an accepted generation.                              *)

\* The text of a lock decides what the lock is.
LEMMA LockTextDecides ==
    ASSUME NEW r, NEW P, NEW q, NEW Q, IsLocked(P), IsLocked(Q),
           LockText([root |-> r, packages |-> P]) = LockText([root |-> q, packages |-> Q])
    PROVE  r = q /\ P = Q
<1> DEFINE t == LockText([root |-> r, packages |-> P])
<1>1. PICK n, off : LockLines(t, r, P, n, InKeyOrderOf(P), off)
  BY LockTextIs
<1>2. PICK m, v : LockLines(t, q, Q, m, InKeyOrderOf(Q), v)
  BY LockTextIs
<1> HIDE DEF t
<1>3. Ends(t, r, P)
  BY <1>1, EndsOfText
<1>4. Ends(t, q, Q)
  BY <1>2, EndsOfText
<1>5. r = q /\ GraphDigest(P) = GraphDigest(Q)
  BY <1>3, <1>4 DEF Ends
<1> QED
  BY <1>5, DigestDecides

\* The places of candidates are written as they are read: CanonicalSourceUrlV1
\* leaves them alone.
PlacesAreCanonical == \A c \in Candidate : CanonicalUrl(c.exact.at) = c.exact.at

\* Selected candidates are candidates.
LEMMA GraphIsOfCandidates ==
    ASSUME Traversal
    PROVE  \A c \in Graph : c \in Candidate /\ c.key \in Key
BY KeysOfTraversal, GraphHasKeys, RegistryAssumption DEF Graph, Traversal, QuestionIsTyped

\* There are finitely many of them.
LEMMA GraphIsFinite ==
    ASSUME Traversal
    PROVE  IsFiniteSet(ReservoirGraph) /\ IsFiniteSet({Binding(c) : c \in ReservoirGraph})
<1>1. IsFiniteSet(SelectedKeys)
  BY KeysOfTraversal, LockAssumption, FS_Subset
<1> DEFINE f == [k \in SelectedKeys |-> selected[k].candidate]
           g == [c \in ReservoirGraph |-> Binding(c)]
           B == {Binding(c) : c \in ReservoirGraph}
<1>2. f \in Surjection(SelectedKeys, Graph)
  BY DEF Surjection, Graph
<1> HIDE DEF f
<1>3. IsFiniteSet(Graph)
  BY <1>1, <1>2, FS_Surjection
<1>4. IsFiniteSet(ReservoirGraph)
  <2>1. ReservoirGraph \in SUBSET Graph
    BY DEF ReservoirGraph
  <2> QED
    BY <1>3, <2>1, FS_Subset
<1>5. g \in Surjection(ReservoirGraph, B)
  BY DEF Surjection
<1> HIDE DEF g, B
<1>6. IsFiniteSet(B)
  BY <1>4, <1>5, FS_Surjection
<1> QED
  BY <1>4, <1>6 DEF B

\* The lock that is made of an accepted graph can be written.
LEMMA NewLockIsLocked ==
    ASSUME Traversal, LockError(NewLock) = "none"
    PROVE  IsLocked(NewLock)
<1>1. \A p \in NewLock : p.key \in SelectedKeys /\ p = Locked(selected[p.key].candidate)
  BY GraphHasKeys
<1>2. SelectedKeys \subseteq Key
  BY KeysOfTraversal
<1>3. IsKeyed(NewLock)
  BY <1>1, <1>2 DEF IsKeyed, OnePerKey
<1>4. \A p \in NewLock : IsPackage(p)
  BY <1>1 DEF IsPackage, Locked
<1>5. \A p \in NewLock : p.deps \subseteq {q.key : q \in NewLock}
  BY DEF LockError
<1>6. \A p \in NewLock : p.deps \subseteq Key
  BY <1>1, <1>2, <1>5
<1> QED
  BY <1>3, <1>4, <1>6 DEF IsLocked

\* A locked candidate has nothing that would be read differently.
LEMMA LockedIsReadable ==
    ASSUME NEW c \in Candidate, CanonicalUrl(c.exact.at) = c.exact.at, DependencyKeys(c) \subseteq Key
    PROVE  IsReadable(Locked(c))
<1> DEFINE p == Locked(c)
<1>1. /\ p.deps = DependencyKeys(c) /\ p.exact = c.exact /\ IsPackage(p)
      /\ p.req = IF c.req.kind = "reservoir"
                 THEN [kind |-> "git", at |-> c.exact.at, rev |-> c.req.rev] ELSE c.req
  BY DEF Locked, IsPackage
<1>2. /\ c.req = [kind |-> c.req.kind, at |-> c.req.at, rev |-> c.req.rev]
      /\ c.exact = [kind |-> c.exact.kind, at |-> c.exact.at, id |-> c.exact.id]
      /\ c.req.kind \in {"git", "reservoir", "path"}
      /\ (c.req.kind = "path") = (c.req.rev = "-")
  BY TextAssumption
<1>3. c.req.kind # "reservoir" => c.req.at = c.exact.at
  BY CandidateAssumption DEF CandidateIsValid, SourcePair
<1> HIDE DEF p
<1>4. CASE c.req.kind = "reservoir"
  <2> DEFINE req == [kind |-> "git", at |-> c.exact.at, rev |-> c.req.rev]
  <2>1. p.req = req /\ req.kind = "git" /\ req.at = c.exact.at /\ req.rev = c.req.rev
    BY <1>1, <1>4
  <2>2. req.rev # "-"
    BY <1>2, <1>4, <2>1
  <2>3. req = [kind |-> req.kind, at |-> req.at, rev |-> req.rev]
    OBVIOUS
  <2> HIDE DEF req
  <2> QED
    BY <1>1, <1>2, <2>1, <2>2, <2>3 DEF IsReadable, p
<1>5. CASE c.req.kind # "reservoir"
  <2>1. p.req = c.req /\ CanonicalUrl(p.req.at) = p.req.at
    BY <1>1, <1>3, <1>5
  <2>2. IF p.req.kind = "git" THEN p.req.rev # "-" ELSE OptionText(p.req.rev) = p.req.rev
    BY <1>2, <1>5, <2>1 DEF OptionText
  <2> QED
    BY <1>1, <1>2, <2>1, <2>2 DEF IsReadable, p
<1> QED
  BY <1>4, <1>5 DEF p

\* A companion that goes with an accepted generation binds what was selected.
LEMMA CompanionFits ==
    ASSUME PlacesAreCanonical, Traversal, LockError(NewLock) = "none",
           NEW B,
           \A b \in B : b = [package |-> b.package, version |-> b.version,
                             metadata |-> b.metadata, url |-> b.url, commit |-> b.commit],
           \A a, b \in B : a.package = b.package => a = b,
           \A b \in B : \E c \in ReservoirGraph :
                b.package = c.key /\ b.url = c.exact.at /\ b.commit = c.exact.id,
           B # {}
    PROVE  IsBindingSet(B) /\ DocumentIsValid(NewLock, B)
<1>1. \A c \in ReservoirGraph : /\ c \in Graph /\ c \in Candidate /\ c.key \in Key
                                /\ CanonicalUrl(c.exact.at) = c.exact.at
                                /\ c.req.kind = "reservoir"
  BY GraphIsOfCandidates DEF ReservoirGraph, PlacesAreCanonical
<1>2. ASSUME NEW b \in B PROVE b.package \in Key /\ CanonicalUrl(b.url) = b.url
  BY <1>1
<1>3. ASSUME NEW b \in B
      PROVE  \E p \in NewLock : /\ p.key = b.package /\ p.exact.kind = "git"
                                /\ p.exact.at = b.url /\ p.exact.id = b.commit
  <2>1. PICK c \in ReservoirGraph :
            b.package = c.key /\ b.url = c.exact.at /\ b.commit = c.exact.id
    OBVIOUS
  <2>2. /\ Locked(c) \in NewLock /\ Locked(c).key = c.key /\ Locked(c).exact = c.exact
        /\ Locked(c).req.kind = "git"
    BY <1>1 DEF NewLock, Locked
  <2>3. PackageIsValid(Locked(c))
    BY <2>2 DEF LockError
  <2>4. Locked(c).exact.kind = "git"
    BY <2>2, <2>3 DEF PackageIsValid
  <2> QED
    BY <2>1, <2>2, <2>4
<1> QED
  BY <1>2, <1>3 DEF IsBindingSet, DocumentIsValid

\* What a lock and its companion are.
WrittenInv ==
    /\ lock # NoLock => /\ lock = [root |-> lock.root, packages |-> lock.packages]
                        /\ IsLocked(lock.packages)
    /\ document # NoDocument =>
            /\ document = [lock |-> document.lock, bindings |-> document.bindings]
            /\ IsFiniteSet(document.bindings)

\* A lock from elsewhere can be written too.
LEMMA WrittenInit == Init => WrittenInv
<1> SUFFICES ASSUME Init PROVE WrittenInv
  OBVIOUS
<1>1. document = NoDocument
  BY DEF Init
<1>2. ASSUME lock # NoLock
      PROVE  lock = [root |-> lock.root, packages |-> lock.packages] /\ IsLocked(lock.packages)
  <2>1. lock \in GivenLocks
    BY <1>2 DEF Init
  <2>2. /\ lock = [root |-> lock.root, packages |-> lock.packages]
        /\ LockError(lock.packages) = "none"
        /\ \A p \in lock.packages : IsPackage(p) /\ p.key \in Key
    BY <2>1, RootAssumption
  <2>3. /\ \A p, q \in lock.packages : p.key = q.key => p = q
        /\ \A p \in lock.packages : p.deps \subseteq {q.key : q \in lock.packages}
    BY <2>2 DEF LockError
  <2>4. IsKeyed(lock.packages)
    BY <2>2, <2>3 DEF IsKeyed, OnePerKey
  <2> QED
    BY <2>2, <2>3, <2>4 DEF IsLocked
<1> QED
  BY <1>1, <1>2 DEF WrittenInv

\* Only an accepted generation replaces lock and companion.
LEMMA WrittenStep == ReplayInv /\ WrittenInv /\ [Next]_vars => WrittenInv'
<1> SUFFICES ASSUME ReplayInv, WrittenInv, [Next]_vars
             PROVE  WrittenInv'
  OBVIOUS
<1>1. ASSUME NEW authorization, Assemble(authorization)
      PROVE  WrittenInv'
  <2>1. /\ lock' = NextLock /\ document' = NextDocument /\ Traversal
        /\ LockError(NewLock) = "none"
    BY <1>1 DEF Assemble, GenerationIsAccepted, ReplayInv, ResolutionInv
  <2>2. IsLocked(NewLock)
    BY <2>1, NewLockIsLocked
  <2>3. /\ lock' = [root |-> lock'.root, packages |-> lock'.packages]
        /\ lock'.packages = NewLock
    BY <2>1 DEF NextLock
  <2>4. document' # NoDocument =>
            /\ document' = [lock |-> document'.lock, bindings |-> document'.bindings]
            /\ IsFiniteSet(document'.bindings)
    <3>1. document' \in {NoDocument, document}
          \/ document' = Document(NextLock, {Binding(c) : c \in ReservoirGraph})
      BY <2>1 DEF NextDocument
    <3>2. IsFiniteSet({Binding(c) : c \in ReservoirGraph})
      BY <2>1, GraphIsFinite
    <3> QED
      BY <3>1, <3>2 DEF WrittenInv, Document
  <2> QED
    BY <2>2, <2>3, <2>4 DEF WrittenInv
<1>2. ASSUME UNCHANGED <<lock, document>> PROVE WrittenInv'
  BY <1>2 DEF WrittenInv
<1>3. (\E authorization \in {NoAuthorization} \cup Authorizations : Assemble(authorization))
      \/ UNCHANGED <<lock, document>>
  BY DEF Next, vars, companion, Request, Shadow, Select, NextParent, Finish, Stop, Fetch, GiveUp
<1> QED
  BY <1>1, <1>2, <1>3

\* What holds of lock and companion while requests are served.
LEMMA WrittenInvariant == Spec => [](ReplayInv /\ DocumentInv /\ WrittenInv)
BY WrittenInit, WrittenStep, DocumentInvariant, PTL DEF Spec

\* The companion of an accepted generation is one of its lock.
LEMMA NextDocumentIs ==
    ASSUME PlacesAreCanonical, Traversal, DocumentInv, WrittenInv, GenerationIsAccepted,
           NextDocument # NoDocument
    PROVE  \E B : /\ NextDocument = Document(NextLock, B)
                  /\ IsBindingSet(B) /\ DocumentIsValid(NewLock, B)
<1>1. LockError(NewLock) = "none" /\ ReservoirGraph # {}
  BY DEF GenerationIsAccepted, NextDocument
<1>2. IsFiniteSet(ReservoirGraph)
  BY GraphIsFinite
<1>3. \A c, d \in ReservoirGraph : c.key = d.key => c = d
  BY GraphHasKeys DEF ReservoirGraph
<1>4. ASSUME NEW B, NextDocument = Document(NextLock, B),
             B \subseteq {Binding(c) : c \in Candidate},
             \A a, b \in B : a.package = b.package => a = b,
             \A b \in B : \E c \in ReservoirGraph :
                b.package = c.key /\ b.url = c.exact.at /\ b.commit = c.exact.id,
             B # {}
      PROVE  \E S : /\ NextDocument = Document(NextLock, S)
                    /\ IsBindingSet(S) /\ DocumentIsValid(NewLock, S)
  <2>1. \A b \in B : b = [package |-> b.package, version |-> b.version,
                          metadata |-> b.metadata, url |-> b.url, commit |-> b.commit]
    BY <1>4 DEF Binding
  <2>2. IsBindingSet(B) /\ DocumentIsValid(NewLock, B)
    BY <1>1, <1>2, <1>4, <2>1, CompanionFits
  <2> QED
    BY <1>4, <2>2
<1>5. CASE ~request.frozen
  <2> DEFINE B == {Binding(c) : c \in ReservoirGraph}
  <2>1. NextDocument = Document(NextLock, B)
    BY <1>1, <1>5 DEF NextDocument
  <2>2. \A c : /\ Binding(c).package = c.key /\ Binding(c).url = c.exact.at
               /\ Binding(c).commit = c.exact.id
    BY DEF Binding
  <2>3. B \subseteq {Binding(c) : c \in Candidate}
    BY GraphIsOfCandidates DEF ReservoirGraph
  <2>4. \A a, b \in B : a.package = b.package => a = b
    BY <1>3, <2>2
  <2>5. /\ \A b \in B : \E c \in ReservoirGraph :
                b.package = c.key /\ b.url = c.exact.at /\ b.commit = c.exact.id
        /\ B # {}
    BY <1>1, <2>2
  <2> HIDE DEF B
  <2> QED
    BY <1>4, <2>1, <2>3, <2>4, <2>5
<1>6. CASE request.frozen
  <2> DEFINE B == document.bindings
             R == ReservoirGraph
  <2>1. NextDocument = document /\ document # NoDocument
    BY <1>1, <1>6 DEF NextDocument
  <2>2. /\ document.lock = LockText(NextLock)
        /\ Cardinality(B) = Cardinality(R)
        /\ \A c \in R : \E b \in B : /\ b.package = c.key /\ b.version = c.req.rev
                                     /\ b.url = c.exact.at /\ b.commit = c.exact.id
    BY <1>1, <2>1 DEF GenerationIsAccepted, GenerationMatches, BindingsMatch, ReservoirGraph
  <2>3. /\ B \subseteq {Binding(c) : c \in Candidate}
        /\ \A a, b \in B : a.package = b.package => a = b
    BY <2>1 DEF DocumentInv, Bindings
  <2>4. document = Document(NextLock, B)
    BY <2>1, <2>2 DEF WrittenInv, Document
  <2> HIDE DEF B, R
  <2> DEFINE f == [c \in R |-> CHOOSE b \in B : /\ b.package = c.key /\ b.version = c.req.rev
                                               /\ b.url = c.exact.at /\ b.commit = c.exact.id]
  <2>5. \A c \in R : /\ f[c] \in B /\ f[c].package = c.key
                     /\ f[c].url = c.exact.at /\ f[c].commit = c.exact.id
    BY <2>2
  <2> HIDE DEF f
  <2>6. f \in Surjection(R, B)
    <3>1. f \in [R -> B]
      BY <2>5 DEF f
    <3>2. \A c, d \in R : f[c] = f[d] => c = d
      BY <1>3, <2>5 DEF R
    <3>3. f \in Injection(R, B)
      BY <3>1, <3>2 DEF Injection, IsInjective
    <3>4. IsFiniteSet(B)
      BY <2>1 DEF WrittenInv, B
    <3> QED
      BY <2>2, <3>3, <3>4, FS_Injection
  <2>7. /\ \A b \in B : \E c \in R :
                b.package = c.key /\ b.url = c.exact.at /\ b.commit = c.exact.id
        /\ B # {}
    <3>1. \A b \in B : \E c \in R : f[c] = b
      BY <2>6 DEF Surjection
    <3>2. \A b \in B : \E c \in R :
                b.package = c.key /\ b.url = c.exact.at /\ b.commit = c.exact.id
      BY <2>5, <3>1
    <3>3. B # {}
      BY <1>1, <2>5 DEF R
    <3> QED
      BY <3>2, <3>3
  <2> QED
    BY <1>4, <2>1, <2>3, <2>4, <2>7 DEF R
<1> QED
  BY <1>5, <1>6

\* The packages of the lock in key order, each with its decision.
LEMMA DecisionsInOrder ==
    ASSUME IsLocked(NewLock), DecisionSetMatches(NewLock, Decisions)
    PROVE  LET s == InKeyOrderOf(NewLock)
               n == Cardinality(NewLock)
           IN  /\ KeyedOrder(NewLock, n, s)
               /\ \A i \in 1..n : /\ Of(Decisions, s[i].key) \in Decisions
                                   /\ Of(Decisions, s[i].key).key = s[i].key
                                   /\ Of(Decisions, s[i].key).path
                                        = PackagePath(Transaction, s[i].key)
               /\ \A d \in Decisions : \E i \in 1..n : s[i].key = d.key /\ Of(Decisions, d.key) = d
<1> DEFINE s == InKeyOrderOf(NewLock)
           n == Cardinality(NewLock)
<1>1. KeyedOrder(NewLock, n, s)
  BY KeyedInOrder DEF IsLocked
<1> HIDE DEF s, n
<1>2. OnePerKey(Decisions) /\ Keys(Decisions) = Keys(NewLock)
  BY DEF DecisionSetMatches
<1>3. \A d \in Decisions : d.path = PackagePath(Transaction, d.key)
  BY DEF Decisions, DecisionOf
<1>4. ASSUME NEW i \in 1..n
      PROVE  /\ Of(Decisions, s[i].key) \in Decisions /\ Of(Decisions, s[i].key).key = s[i].key
             /\ Of(Decisions, s[i].key).path = PackagePath(Transaction, s[i].key)
  <2>1. s[i].key \in Keys(Decisions)
    BY <1>1, <1>2 DEF KeyedOrder, Keys
  <2>2. PICK d \in Decisions : d.key = s[i].key
    BY <2>1 DEF Keys
  <2>3. Of(Decisions, s[i].key) \in Decisions /\ Of(Decisions, s[i].key).key = s[i].key
    BY <2>2 DEF Of
  <2> QED
    BY <1>3, <2>3
<1>5. ASSUME NEW d \in Decisions
      PROVE  \E i \in 1..n : s[i].key = d.key /\ Of(Decisions, d.key) = d
  <2>1. d.key \in Keys(NewLock)
    BY <1>2 DEF Keys
  <2>2. PICK p \in NewLock : p.key = d.key
    BY <2>1 DEF Keys
  <2>3. PICK i \in 1..n : s[i] = p
    BY <1>1, <2>2 DEF KeyedOrder
  <2>4. Of(Decisions, d.key) = d
    BY <1>2 DEF OnePerKey, Of
  <2> QED
    BY <2>2, <2>3, <2>4
<1> QED
  BY <1>1, <1>4, <1>5 DEF s, n

\* Lake finds every package where it was decided to be.
LEMMA ReportsMatch ==
    ASSUME IsLocked(NewLock), DecisionSetMatches(NewLock, Decisions)
    PROVE  WorkspaceMatches(Decisions, Range(RuntimeEntries(NewLock, Decisions)))
<1> DEFINE s == InKeyOrderOf(NewLock)
           n == Cardinality(NewLock)
           e(i) == [key |-> s[i].key, path |-> Of(Decisions, s[i].key).path]
           reports == Range(RuntimeEntries(NewLock, Decisions))
<1>1. /\ KeyedOrder(NewLock, n, s)
      /\ \A i \in 1..n : /\ Of(Decisions, s[i].key) \in Decisions
                          /\ Of(Decisions, s[i].key).key = s[i].key
      /\ \A d \in Decisions : \E i \in 1..n : s[i].key = d.key /\ Of(Decisions, d.key) = d
  BY DecisionsInOrder
<1>2. n \in Nat /\ DOMAIN s = 1..n /\ \A i, j \in 1..n : s[i].key = s[j].key => s[i] = s[j]
  BY <1>1 DEF KeyedOrder
<1>3. reports = {e(i) : i \in 1..n}
  BY <1>2 DEF RuntimeEntries, Range
<1> HIDE DEF s, n, reports
<1>4. \A x \in reports : \E i \in 1..n : x = e(i)
  BY <1>3
<1>5. \A i \in 1..n : e(i) \in reports
  BY <1>3
<1>6. OnePerKey(reports)
  <2> SUFFICES ASSUME NEW x \in reports, NEW y \in reports, x.key = y.key PROVE x = y
    BY DEF OnePerKey
  <2>1. PICK i \in 1..n : x = e(i)
    BY <1>4
  <2>2. PICK j \in 1..n : y = e(j)
    BY <1>4
  <2>3. s[i].key = s[j].key
    BY <2>1, <2>2
  <2> QED
    BY <2>1, <2>2, <2>3
<1>7. Keys(reports) = Keys(Decisions)
  <2>1. ASSUME NEW x \in reports PROVE \E d \in Decisions : d.key = x.key
    <3>1. PICK i \in 1..n : x = e(i)
      BY <1>4
    <3>2. x.key = s[i].key
      BY <3>1
    <3> QED
      BY <1>1, <3>2
  <2>2. ASSUME NEW d \in Decisions PROVE \E x \in reports : x.key = d.key
    <3>1. PICK i \in 1..n : s[i].key = d.key
      BY <1>1
    <3>2. e(i).key = d.key
      BY <3>1
    <3> QED
      BY <1>5, <3>2
  <2> QED
    BY <2>1, <2>2 DEF Keys
<1>8. ASSUME NEW d \in Decisions PROVE d.path = Of(reports, d.key).path
  <2>1. PICK i \in 1..n : s[i].key = d.key /\ Of(Decisions, d.key) = d
    BY <1>1
  <2>2. e(i) \in reports /\ e(i).key = d.key /\ e(i).path = d.path
    BY <1>5, <2>1
  <2> HIDE DEF e
  <2>3. Of(reports, d.key) = e(i)
    BY <1>6, <2>2 DEF OnePerKey, Of
  <2> QED
    BY <2>2, <2>3
<1> QED
  BY <1>6, <1>7, <1>8 DEF WorkspaceMatches, reports

\* The generation of an accepted graph.
Written ==
    GenerationOf(Transaction, NextLock, GraphIdentity, Decisions, Metadata, Range(objects),
                 NextDocument)

\* It names every package with the path it was decided to have.
LEMMA WrittenIsGeneration ==
    ASSUME IsLocked(NewLock), DecisionSetMatches(NewLock, Decisions)
    PROVE  /\ IsGeneration(Written, Cardinality(NewLock))
           /\ Written.lock = LockText(NextLock) /\ Len(Written.packages) = Cardinality(NewLock)
           /\ \A i \in DOMAIN Written.packages :
                Written.packages[i][2] = PackagePath(Written.transaction, Written.packages[i][1])
<1> DEFINE s == InKeyOrderOf(NewLock)
           n == Cardinality(NewLock)
           row(i) == <<s[i].key, Of(Decisions, s[i].key).path,
                       Of(Range(objects), s[i].key).object, s[i].exact>>
           rows == [i \in 1..n |-> row(i)]
           g == Written
<1>1. /\ KeyedOrder(NewLock, n, s)
      /\ \A i \in 1..n : Of(Decisions, s[i].key).path = PackagePath(Transaction, s[i].key)
  BY DecisionsInOrder
<1>2. n \in Nat /\ DOMAIN s = 1..n
  BY <1>1 DEF KeyedOrder
<1>3. g.packages = [i \in DOMAIN s |-> row(i)]
  BY DEF Written, GenerationOf, NextLock
<1>4. g.packages = rows
  BY <1>2, <1>3
<1>5. /\ g = [transaction |-> g.transaction, lock |-> g.lock, graph |-> g.graph,
              decisions |-> g.decisions, manifest |-> g.manifest, runtime |-> g.runtime,
              document |-> g.document, packages |-> g.packages]
      /\ g.lock = LockText(NextLock) /\ g.transaction = Transaction
  BY DEF Written, GenerationOf
<1> HIDE DEF g, s, n
<1>6. \A i \in 1..n : rows[i] = row(i)
  OBVIOUS
<1>7. DOMAIN rows = 1..n /\ Len(rows) = n
  BY <1>2
<1>8. g.packages = [i \in 1..n |-> g.packages[i]]
  BY <1>4
<1>9. \A i \in 1..n : \E a, b, c, d : g.packages[i] = <<a, b, c, d>>
  BY <1>4, <1>6
<1>10. ASSUME NEW i \in DOMAIN g.packages
       PROVE  g.packages[i][2] = PackagePath(g.transaction, g.packages[i][1])
  <2>1. i \in 1..n /\ g.packages[i] = row(i)
    BY <1>4, <1>6, <1>7
  <2>2. row(i)[1] = s[i].key /\ row(i)[2] = Of(Decisions, s[i].key).path
    OBVIOUS
  <2> QED
    BY <1>1, <1>5, <2>1, <2>2
<1>11. IsGeneration(g, n)
  <2> HIDE DEF rows
  <2> QED
    BY <1>2, <1>5, <1>8, <1>9 DEF IsGeneration
<1>12. Len(g.packages) = n
  BY <1>4, <1>7
<1> QED
  BY <1>5, <1>10, <1>11, <1>12 DEF g, n

\* What is written of an accepted generation reads back: the packages are
\* written in key order, one after the other, so that a reader finds each where
\* the one before it ends; a text without a line or with two lines swapped would
\* have to be that of other packages, which the digest does not let it be, or of
\* the same, which then has two lines alike.  This needs places that are written
\* as they are read (PlacesAreCanonical).
THEOREM AcceptedGenerationsAreWritten ==
    ASSUME PlacesAreCanonical
    PROVE  Spec => []GenerationDescribesItsClosure
<1>1. ASSUME ReplayInv, DocumentInv, WrittenInv, NoObjectOfAnother
      PROVE  GenerationDescribesItsClosure
  <2> DEFINE text == LockText(NextLock)
             g == Written
  <2> SUFFICES ASSUME phase = "fetched", GenerationIsAccepted
               PROVE  /\ WorkspaceMatches(Decisions, Range(RuntimeEntries(NewLock, Decisions)))
                      /\ ReadLock(text) = NextLock
                      /\ \A i \in DOMAIN text : ReadLock(WithoutLine(text, i)) = Unreadable
                      /\ \A i \in 1..(Len(text) - 1) : ReadLock(Swapped(text, i)) = Unreadable
                      /\ NextDocument # NoDocument =>
                           \A l \in {lock, NextLock} \ {NoLock} :
                               ReadDocument(DocumentText(NextDocument), l) =
                                   IF l = NextLock THEN NextDocument ELSE Unreadable
                      /\ ReadMetadata(MetadataText(g)) = g
                      /\ FilesAgree(g, text, g.manifest, g.runtime)
    <3> HIDE DEF text, g
    <3> QED
      BY <1>1 DEF GenerationDescribesItsClosure, text, g, Written
  <2>1. Traversal /\ LockError(NewLock) = "none" /\ DecisionSetMatches(NewLock, Decisions)
    BY <1>1 DEF ReplayInv, ResolutionInv, GenerationIsAccepted
  <2>2. IsLocked(NewLock) /\ NextLock = [root |-> request.root, packages |-> NewLock]
    BY <2>1, NewLockIsLocked DEF NextLock
  <2>3. \A p \in NewLock : IsReadable(p)
    <3> SUFFICES ASSUME NEW p \in NewLock PROVE IsReadable(p)
      OBVIOUS
    <3>1. PICK c \in Graph : p = Locked(c)
      BY DEF NewLock
    <3>2. c \in Candidate
      BY <2>1, GraphIsOfCandidates
    <3>3. CanonicalUrl(c.exact.at) = c.exact.at
      BY <3>2 DEF PlacesAreCanonical
    <3>4. DependencyKeys(c) \subseteq Key
      BY <2>2, <3>1 DEF IsLocked, Locked
    <3> QED
      BY <3>1, <3>2, <3>3, <3>4, LockedIsReadable
  <2>4. ReadLock(text) = NextLock
    BY <2>1, <2>2, <2>3, LockReadsBack
  <2>5. \A i \in DOMAIN text : ReadLock(WithoutLine(text, i)) = Unreadable
    <3> HIDE DEF text
    <3>1. text = LockText([root |-> request.root, packages |-> NewLock]) /\ IsLocked(NewLock)
      BY <2>2 DEF text
    <3> QED
      BY ONLY <3>1, LostLineUnreadable
  <2>6. \A i \in 1..(Len(text) - 1) : ReadLock(Swapped(text, i)) = Unreadable
    <3> HIDE DEF text
    <3>1. text = LockText([root |-> request.root, packages |-> NewLock]) /\ IsLocked(NewLock)
      BY <2>2 DEF text
    <3> QED
      BY ONLY <3>1, SwappedUnreadable
  <2>7. ASSUME NextDocument # NoDocument, NEW l \in {lock, NextLock} \ {NoLock}
        PROVE  ReadDocument(DocumentText(NextDocument), l) =
                   IF l = NextLock THEN NextDocument ELSE Unreadable
    <3>1. PICK B : /\ NextDocument = Document(NextLock, B)
                   /\ IsBindingSet(B) /\ DocumentIsValid(NewLock, B)
      BY <1>1, <2>1, <2>7, NextDocumentIs
    <3>2. CASE l = NextLock
      <4>1. DocumentIsValid(NextLock.packages, B)
        BY <2>2, <3>1
      <4> QED
        BY <3>1, <3>2, <4>1, DocumentReadsBack
    <3>3. CASE l # NextLock
      <4>1. l = [root |-> l.root, packages |-> l.packages] /\ IsLocked(l.packages)
        BY <1>1, <3>3 DEF WrittenInv
      <4>2. LockText(l) # LockText(NextLock)
        <5> SUFFICES ASSUME LockText(l) = LockText(NextLock) PROVE FALSE
          OBVIOUS
        <5>1. /\ IsLocked(l.packages) /\ IsLocked(NewLock)
              /\ LockText([root |-> l.root, packages |-> l.packages])
                    = LockText([root |-> request.root, packages |-> NewLock])
          BY <2>2, <4>1
        <5>2. l.root = request.root /\ l.packages = NewLock
          BY ONLY <5>1, LockTextDecides
        <5> QED
          BY <2>2, <3>3, <4>1, <5>2
      <4> QED
        BY <3>1, <3>3, <4>2, DocumentOfAnotherLock
    <3> QED
      BY <3>2, <3>3
  <2>8. /\ IsGeneration(g, Cardinality(NewLock)) /\ g.lock = text
        /\ Len(g.packages) = Cardinality(NewLock)
        /\ \A i \in DOMAIN g.packages : g.packages[i][2] = PackagePath(g.transaction, g.packages[i][1])
    BY <2>1, <2>2, WrittenIsGeneration
  <2>9. WorkspaceMatches(Decisions, Range(RuntimeEntries(NewLock, Decisions)))
    BY <2>1, <2>2, ReportsMatch
  <2> HIDE DEF text, g
  <2>10. ReadMetadata(MetadataText(g)) = g
    BY <2>8, MetadataReadsBack
  <2>11. FilesAgree(g, text, g.manifest, g.runtime)
    <3>1. g # Unreadable
      BY <2>8 DEF IsGeneration, Unreadable
    <3>2. NextLock # Unreadable /\ NextLock.packages = NewLock
      BY <2>2 DEF Unreadable
    <3> QED
      BY <2>4, <2>8, <3>1, <3>2 DEF FilesAgree
  <2> QED
    BY <2>4, <2>5, <2>6, <2>7, <2>9, <2>10, <2>11
<1> QED
  BY <1>1, WrittenInvariant, ObjectsAreOfTheirPackages, PTL
=============================================================================
