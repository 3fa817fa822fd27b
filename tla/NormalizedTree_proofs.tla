------------------------- MODULE NormalizedTree_proofs -------------------------
(***************************************************************************)
(* What parse_tar makes of an archive of any length, and what is read of   *)
(* the object that is written of it.                                       *)
(***************************************************************************)
EXTENDS NormalizedTree, FiniteSetTheorems, WellFoundedInduction, TLAPS

-----------------------------------------------------------------------------
(* Folds.  A fold over a finite set is a function on its subsets, which    *)
(* exists because it does for the subsets of every size.                   *)

\* A set of numbers has a least one: what stands for induction here.
LEMMA LeastNumber ==
    ASSUME NEW S \in SUBSET Nat, S # {}
    PROVE  \E n \in S : \A m \in S : n <= m
<1>1. \E n \in S : \A m \in S : ~(<<m, n>> \in OpToRel(<, Nat))
  BY WFMin, NatLessThanWellFounded
<1>2. PICK n \in S : \A m \in S : ~(<<m, n>> \in OpToRel(<, Nat))
  BY <1>1
<1>3. \A m \in S : ~(m < n)
  BY <1>2 DEF OpToRel
<1> QED
  BY <1>3

\* Numbers up to n that have what 0 has and what follows from it.
LEMMA Inductive ==
    ASSUME NEW n \in Nat, NEW S, 0 \in S, \A i \in 1..n : i - 1 \in S => i \in S
    PROVE  0..n \subseteq S
<1> SUFFICES ASSUME (0..n) \ S # {} PROVE FALSE
  OBVIOUS
<1> DEFINE R == (0..n) \ S
<1>0. R \in SUBSET Nat /\ R # {}
  OBVIOUS
<1>1. PICK i \in R : \A m \in R : i <= m
  <2> HIDE DEF R
  <2> QED
    BY <1>0, LeastNumber
<1>2. i \in 1..n /\ i - 1 \in 0..n
  BY <1>1
<1> QED
  BY <1>1, <1>2

\* Without one of its elements a set is one smaller.
LEMMA OneSmaller ==
    ASSUME NEW S, IsFiniteSet(S), NEW t \in SUBSET S, NEW x \in t
    PROVE  /\ t \ {x} \in SUBSET S
           /\ Cardinality(t) \in Nat \ {0} /\ Cardinality(t) <= Cardinality(S)
           /\ Cardinality(S) \in Nat
           /\ Cardinality(t \ {x}) = Cardinality(t) - 1
<1>1. IsFiniteSet(t) /\ Cardinality(t) <= Cardinality(S) /\ Cardinality(S) \in Nat
  BY FS_Subset, FS_CardinalityType
<1>2. Cardinality(t \ {x}) = Cardinality(t) - 1 /\ IsFiniteSet(t \ {x})
  BY <1>1, FS_RemoveElement
<1>3. Cardinality(t) \in Nat /\ Cardinality(t \ {x}) \in Nat
  BY <1>1, <1>2, FS_CardinalityType
<1> QED
  BY <1>1, <1>2, <1>3

\* What holds of a set if it holds of the set without any of its elements, holds
\* of every finite set.
LEMMA FiniteInduction ==
    ASSUME NEW S, IsFiniteSet(S), NEW Q,
           \A t \in SUBSET S : (\A x \in t : t \ {x} \in Q) => t \in Q
    PROVE  SUBSET S \subseteq Q
<1> SUFFICES ASSUME NEW u \in SUBSET S, u \notin Q PROVE FALSE
  OBVIOUS
<1> DEFINE Sizes == {n \in Nat : \E t \in SUBSET S : t \notin Q /\ Cardinality(t) = n}
<1>1. Sizes # {}
  <2>1. IsFiniteSet(u)
    BY FS_Subset
  <2>2. Cardinality(u) \in Nat
    BY <2>1, FS_CardinalityType
  <2> QED
    BY <2>2
<1>2. PICK n \in Sizes : \A m \in Sizes : n <= m
  <2>1. Sizes \in SUBSET Nat
    OBVIOUS
  <2> HIDE DEF Sizes
  <2> QED
    BY <1>1, <2>1, LeastNumber
<1>3. PICK t \in SUBSET S : t \notin Q /\ Cardinality(t) = n
  BY <1>2
<1>4. PICK x \in t : t \ {x} \notin Q
  BY <1>3
<1> DEFINE v == t \ {x}
<1>5. v \in SUBSET S /\ v \notin Q
  BY <1>4
<1>6. n \in Nat \ {0} /\ Cardinality(v) = n - 1
  BY <1>3, <1>4, OneSmaller
<1>7. n - 1 \in Sizes
  BY <1>5, <1>6
<1>8. n <= n - 1
  <2> HIDE DEF Sizes
  <2> QED
    BY <1>2, <1>7
<1> QED
  BY <1>6, <1>8

\* A fold: h on the subsets of S, taking the element that is picked first.
IsFold(h, S, base, F, pick) ==
    h = [t \in SUBSET S |-> IF t = {} THEN base ELSE F[pick[t]][h[t \ {pick[t]}]]]

\* What a fold needs: a finite set, and values that the steps stay among.
CanFold(S, V, base, F, pick) ==
    /\ IsFiniteSet(S) /\ base \in V /\ F \in [S -> [V -> V]]
    /\ \A t \in SUBSET S : t # {} => pick[t] \in t
HasFold(S, V, base, F, pick) == \E h \in [SUBSET S -> V] : IsFold(h, S, base, F, pick)

\* There is one.
LEMMA FoldExists ==
    ASSUME NEW S, NEW V, NEW base, NEW F, NEW pick, CanFold(S, V, base, F, pick)
    PROVE  HasFold(S, V, base, F, pick)
<1> SUFFICES ASSUME IsFiniteSet(S), base \in V, F \in [S -> [V -> V]],
                    \A t \in SUBSET S : t # {} => pick[t] \in t
             PROVE  \E h \in [SUBSET S -> V] : IsFold(h, S, base, F, pick)
  BY DEF CanFold, HasFold
<1> DEFINE T == [SUBSET S -> V]
           Step(h) == [t \in SUBSET S |-> IF t = {} THEN base ELSE F[pick[t]][h[t \ {pick[t]}]]]
           UpTo(n) == \E h \in T : \A t \in SUBSET S : Cardinality(t) <= n => h[t] = Step(h)[t]
           Q == {n \in Nat : UpTo(n)}
           N == Cardinality(S)
<1>0. N \in Nat /\ \A t \in SUBSET S : IsFiniteSet(t) /\ Cardinality(t) \in Nat /\ Cardinality(t) <= N
  BY FS_Subset, FS_CardinalityType
<1>1. ASSUME NEW h \in T PROVE Step(h) \in T
  <2> SUFFICES ASSUME NEW t \in SUBSET S, t # {} PROVE F[pick[t]][h[t \ {pick[t]}]] \in V
    OBVIOUS
  <2>1. pick[t] \in S /\ t \ {pick[t]} \in SUBSET S
    OBVIOUS
  <2> QED
    BY <2>1
<1>2. 0 \in Q
  <2> DEFINE h == [t \in SUBSET S |-> base]
  <2>1. h \in T
    OBVIOUS
  <2>2. ASSUME NEW t \in SUBSET S, Cardinality(t) <= 0 PROVE h[t] = Step(h)[t]
    <3>1. t = {}
      BY <1>0, <2>2, FS_EmptySet
    <3> QED
      BY <3>1
  <2> QED
    BY <2>1, <2>2
<1>3. ASSUME NEW n \in 1..N, n - 1 \in Q PROVE n \in Q
  <2>1. PICK h \in T : \A t \in SUBSET S : Cardinality(t) <= n - 1 => h[t] = Step(h)[t]
    BY <1>3
  <2> DEFINE k == Step(h)
  <2>2. k \in T
    BY <1>1
  <2>3. ASSUME NEW t \in SUBSET S, Cardinality(t) <= n PROVE k[t] = Step(k)[t]
    <3>1. CASE t = {}
      BY <3>1
    <3>2. CASE t # {}
      <4> DEFINE v == t \ {pick[t]}
      <4>1. v \in SUBSET S /\ Cardinality(v) <= n - 1
        <5>1. pick[t] \in t
          BY <3>2
        <5>2. v \in SUBSET S /\ Cardinality(v) = Cardinality(t) - 1
          BY <5>1, OneSmaller
        <5>3. Cardinality(t) \in Nat /\ n \in Nat /\ Cardinality(t) <= n
          BY <1>0, <2>3
        <5> QED
          BY <5>2, <5>3
      <4>2. h[v] = k[v]
        BY <2>1, <4>1
      <4>3. k[t] = F[pick[t]][h[v]] /\ Step(k)[t] = F[pick[t]][k[v]]
        BY <3>2
      <4> QED
        BY <4>2, <4>3
    <3> QED
      BY <3>1, <3>2
  <2>4. UpTo(n)
    <3> HIDE DEF k
    <3> QED
      BY <2>2, <2>3
  <2> HIDE DEF UpTo
  <2> QED
    BY <2>4
<1>4. N \in Q
  <2>1. 0..N \subseteq Q
    <3> HIDE DEF Q
    <3> QED
      BY <1>0, <1>2, <1>3, Inductive
  <2>2. N \in 0..N
    BY <1>0
  <2> HIDE DEF Q
  <2> QED
    BY <2>1, <2>2
<1>5. PICK h \in T : \A t \in SUBSET S : h[t] = Step(h)[t]
  BY <1>0, <1>4
<1>6. h = Step(h)
  <2> SUFFICES \A t \in SUBSET S : h[t] = Step(h)[t]
    OBVIOUS
  <2> QED
    BY <1>5
<1> QED
  BY <1>6 DEF IsFold

-----------------------------------------------------------------------------
(* Sums.  MapThenSumSet takes one element after the other; the sum is the  *)
(* same whichever is taken first.                                          *)

\* The sums of f over all subsets of S.
SumTable(h, S, f) ==
    \A t \in SUBSET S :
        h[t] = IF t = {} THEN 0
               ELSE f[CHOOSE x \in t : TRUE] + h[t \ {CHOOSE x \in t : TRUE}]

IsSumTable(h, S, f) ==
    h = [t \in SUBSET S |->
            IF t = {} THEN 0
            ELSE f[CHOOSE x \in t : TRUE] + h[t \ {CHOOSE x \in t : TRUE}]]

\* There is such a table.
LEMMA SumTableExists ==
    ASSUME NEW S, IsFiniteSet(S), NEW f \in [S -> Nat]
    PROVE  \E h : IsSumTable(h, S, f)
<1> DEFINE first(t) == CHOOSE x \in t : TRUE
           F == [x \in S |-> [v \in Nat |-> f[x] + v]]
           pick == [t \in SUBSET S |-> first(t)]
<1>1. F \in [S -> [Nat -> Nat]] /\ 0 \in Nat
  OBVIOUS
<1>2. \A t \in SUBSET S : t # {} => first(t) \in t
  OBVIOUS
<1>3. \A t \in SUBSET S : t # {} => pick[t] \in t
  BY <1>2
<1>4. PICK h \in [SUBSET S -> Nat] : IsFold(h, S, 0, F, pick)
  <2> HIDE DEF F, pick
  <2>1. CanFold(S, Nat, 0, F, pick)
    BY <1>1, <1>3 DEF CanFold
  <2>2. HasFold(S, Nat, 0, F, pick)
    BY <2>1, FoldExists
  <2> QED
    BY <2>2 DEF HasFold
<1>5. ASSUME NEW t \in SUBSET S, t # {}
      PROVE  F[pick[t]][h[t \ {pick[t]}]] = f[first(t)] + h[t \ {first(t)}]
  <2>1. pick[t] = first(t) /\ first(t) \in S /\ t \ {first(t)} \in SUBSET S
    BY <1>2, <1>5
  <2>2. h[t \ {first(t)}] \in Nat
    BY <2>1
  <2> QED
    BY <2>1, <2>2
<1>6. h = [t \in SUBSET S |-> IF t = {} THEN 0 ELSE F[pick[t]][h[t \ {pick[t]}]]]
  BY <1>4 DEF IsFold
<1> HIDE DEF F, pick, first
<1>7. h = [t \in SUBSET S |-> IF t = {} THEN 0 ELSE f[first(t)] + h[t \ {first(t)}]]
  BY <1>5, <1>6
<1> QED
  BY <1>7 DEF first, IsSumTable

\* A table says what its values are.
LEMMA TableValues ==
    ASSUME NEW S, IsFiniteSet(S), NEW f \in [S -> Nat], NEW h, SumTable(h, S, f)
    PROVE  /\ \A t \in SUBSET S : h[t] \in Nat
           /\ \A t \in SUBSET S : \A x \in S : x \notin t => h[t \cup {x}] = h[t] + f[x]
           /\ h[{}] = 0
<1> DEFINE first(t) == CHOOSE x \in t : TRUE
<1>1. ASSUME NEW t \in SUBSET S, t # {}
      PROVE  first(t) \in t /\ first(t) \in S /\ h[t] = f[first(t)] + h[t \ {first(t)}]
  BY <1>1 DEF SumTable
<1>2. h[{}] = 0
  BY DEF SumTable
<1> HIDE DEF first
<1>3. ASSUME NEW t \in SUBSET S PROVE h[t] \in Nat
  <2> DEFINE Q == {u \in SUBSET S : h[u] \in Nat}
  <2>1. ASSUME NEW u \in SUBSET S, \A x \in u : u \ {x} \in Q PROVE u \in Q
    <3>1. CASE u = {}
      BY <1>2, <3>1
    <3>2. CASE u # {}
      <4>1. first(u) \in u /\ f[first(u)] \in Nat /\ h[u] = f[first(u)] + h[u \ {first(u)}]
        BY <1>1, <3>2
      <4>2. h[u \ {first(u)}] \in Nat
        BY <2>1, <4>1
      <4> QED
        BY <4>1, <4>2
    <3> QED
      BY <3>1, <3>2
  <2>2. SUBSET S \subseteq Q
    <3> HIDE DEF Q
    <3> QED
      BY <2>1, FiniteInduction
  <2> QED
    BY <2>2
<1>4. ASSUME NEW t \in SUBSET S, NEW x \in S \ t PROVE h[t \cup {x}] = h[t] + f[x]
  <2> DEFINE Q == {u \in SUBSET S : \A y \in S \ u : h[u \cup {y}] = h[u] + f[y]}
  <2>1. ASSUME NEW u \in SUBSET S, \A y \in u : u \ {y} \in Q,
               NEW y \in S \ u
        PROVE  h[u \cup {y}] = h[u] + f[y]
    <3> DEFINE w == u \cup {y}
               z == first(w)
    <3>1. z \in w /\ z \in S /\ h[w] = f[z] + h[w \ {z}]
      <4>1. w \in SUBSET S /\ w # {}
        OBVIOUS
      <4> HIDE DEF w
      <4> QED
        BY <1>1, <4>1
    <3>2. CASE z = y
      <4>1. w \ {z} = u
        BY <3>2
      <4>2. h[w] = f[y] + h[u] /\ f[y] \in Nat /\ h[u] \in Nat
        BY <1>3, <3>1, <3>2, <4>1
      <4> QED
        BY <4>2
    <3>3. CASE z # y
      <4> DEFINE v == u \ {z}
      <4>1. z \in u /\ v \in SUBSET S /\ y \in S \ v /\ z \in S \ v
        BY <3>1, <3>3
      <4>2. w \ {z} = v \cup {y} /\ u = v \cup {z}
        BY <3>3, <4>1
      <4>3. v \in Q
        BY <2>1, <4>1
      <4>4. h[v \cup {y}] = h[v] + f[y] /\ h[v \cup {z}] = h[v] + f[z]
        BY <4>1, <4>3
      <4>5. h[w] = f[z] + (h[v] + f[y]) /\ h[u] = h[v] + f[z]
        <5> HIDE DEF w, v, z
        <5> QED
          BY <3>1, <4>2, <4>4
      <4>6. f[z] \in Nat /\ f[y] \in Nat /\ h[v] \in Nat
        BY <1>3, <4>1
      <4> HIDE DEF w, v, z
      <4>7. h[w] = h[u] + f[y]
        BY <4>5, <4>6
      <4> QED
        BY <4>7 DEF w
    <3> HIDE DEF z
    <3> QED
      BY <3>2, <3>3
  <2>2. SUBSET S \subseteq Q
    <3>1. ASSUME NEW u \in SUBSET S, \A y \in u : u \ {y} \in Q PROVE u \in Q
      BY <2>1, <3>1
    <3> HIDE DEF Q
    <3> QED
      BY <3>1, FiniteInduction
  <2> QED
    BY <2>2
<1> QED
  BY <1>2, <1>3, <1>4

\* One element more adds its value.
LEMMA TableAdds ==
    ASSUME NEW S, IsFiniteSet(S), NEW f \in [S -> Nat], NEW h, SumTable(h, S, f),
           NEW t \in SUBSET S, NEW x \in S, x \notin t
    PROVE  h[t \cup {x}] = h[t] + f[x]
  BY TableValues

\* Tables of a set and of a part of it agree on that part.
LEMMA TablesAgree ==
    ASSUME NEW S, IsFiniteSet(S), NEW f \in [S -> Nat], NEW h, SumTable(h, S, f),
           NEW T \in SUBSET S, NEW g \in [T -> Nat], NEW k, SumTable(k, T, g),
           \A x \in T : f[x] = g[x]
    PROVE  h[T] = k[T]
<1> DEFINE first(t) == CHOOSE x \in t : TRUE
           Q == {u \in SUBSET T : h[u] = k[u]}
<1>1. ASSUME NEW t \in SUBSET T, t # {}
      PROVE  /\ first(t) \in t
             /\ h[t] = f[first(t)] + h[t \ {first(t)}]
             /\ k[t] = g[first(t)] + k[t \ {first(t)}]
  <2>1. t \in SUBSET S /\ first(t) \in t
    BY <1>1
  <2> QED
    BY <1>1, <2>1 DEF SumTable
<1>2. h[{}] = 0 /\ k[{}] = 0
  BY DEF SumTable
<1> HIDE DEF first
<1>3. ASSUME NEW u \in SUBSET T, \A x \in u : u \ {x} \in Q PROVE u \in Q
  <2>1. CASE u = {}
    BY <1>2, <2>1
  <2>2. CASE u # {}
    <3>1. first(u) \in u /\ first(u) \in T
      BY <1>1, <2>2
    <3>2. h[u \ {first(u)}] = k[u \ {first(u)}]
      BY <1>3, <3>1
    <3>3. h[u] = k[u]
      BY <1>1, <2>2, <3>1, <3>2
    <3> QED
      BY <3>3
  <2> QED
    BY <2>1, <2>2
<1>4. SUBSET T \subseteq Q
  <2>1. IsFiniteSet(T)
    BY FS_Subset
  <2> HIDE DEF Q
  <2> QED
    BY <1>3, <2>1, FiniteInduction
<1> QED
  BY <1>4

\* The two sums of the model, of entries and of files on disk.
EntryTotal(S) == MapThenSumSet(LAMBDA e : e.size, S)
DiskTotal(disk, S) == MapThenSumSet(LAMBDA p : disk[p].size, S)

\* The sum of the sizes of entries is in the table of their sizes.
LEMMA EntrySum ==
    ASSUME NEW S, IsFiniteSet(S), NEW f \in [S -> Nat], \A e \in S : f[e] = e.size
    PROVE  \E h : /\ SumTable(h, S, f)
                  /\ EntryTotal(S) = h[S]
<1> DEFINE first(t) == CHOOSE x \in t : TRUE
           Is(h) == h = [t \in SUBSET S |-> IF t = {} THEN 0
                                            ELSE first(t).size + h[t \ {first(t)}]]
           k == CHOOSE h : Is(h)
<1>1. EntryTotal(S) = k[S]
  BY DEF EntryTotal, DiskTotal, MapThenSumSet, MapThenFoldSet
<1>2. ASSUME NEW t \in SUBSET S, t # {} PROVE first(t).size = f[first(t)]
  <2>1. first(t) \in t
    BY <1>2
  <2> HIDE DEF first
  <2> QED
    BY <2>1
<1>3. PICK h : h = [t \in SUBSET S |-> IF t = {} THEN 0 ELSE f[first(t)] + h[t \ {first(t)}]]
  <2>1. \E h : IsSumTable(h, S, f)
    BY SumTableExists
  <2> QED
    BY <2>1 DEF IsSumTable
<1>4. Is(h)
  <2> HIDE DEF first
  <2> QED
    BY <1>2, <1>3
<1>5. Is(k)
  <2> HIDE DEF Is
  <2> QED
    BY <1>4
<1>6. SumTable(k, S, f)
  <2> HIDE DEF k
  <2>1. ASSUME NEW t \in SUBSET S
        PROVE  k[t] = IF t = {} THEN 0 ELSE f[first(t)] + k[t \ {first(t)}]
    <3> HIDE DEF first
    <3> QED
      BY <1>2, <1>5
  <2> QED
    BY <2>1 DEF SumTable
<1> HIDE DEF k
<1> QED
  BY <1>1, <1>6

\* An entry adds its size.
LEMMA EntrySumAdds ==
    ASSUME NEW S, IsFiniteSet(S), NEW x, x \notin S, \A e \in S \cup {x} : e.size \in Nat
    PROVE  /\ EntryTotal(S) \in Nat
           /\ EntryTotal(S \cup {x})
                = EntryTotal(S) + x.size
<1> DEFINE U == S \cup {x}
           f == [e \in S |-> e.size]
           g == [e \in U |-> e.size]
<1>1. IsFiniteSet(U)
  BY FS_AddElement
<1>2. f \in [S -> Nat] /\ g \in [U -> Nat] /\ \A e \in S : g[e] = f[e]
  OBVIOUS
<1>3. PICK h : SumTable(h, S, f) /\ EntryTotal(S) = h[S]
  BY EntrySum
<1>4. PICK k : SumTable(k, U, g) /\ EntryTotal(U) = k[U]
  BY <1>1, EntrySum
<1>5. S \in SUBSET U /\ x \in U \ S /\ S \in SUBSET S /\ g[x] = x.size
  OBVIOUS
<1> HIDE DEF f, g
<1>6. k[S] = h[S]
  <2> HIDE DEF U
  <2> QED
    BY <1>1, <1>2, <1>3, <1>4, <1>5, TablesAgree
<1>7. k[S \cup {x}] = k[S] + g[x]
  <2> HIDE DEF U
  <2>1. S \in SUBSET U /\ x \in U /\ x \notin S /\ g \in [U -> Nat] /\ SumTable(k, U, g)
    BY <1>2, <1>4, <1>5
  <2> QED
    BY <1>1, <2>1, TableAdds
<1>8. h[S] \in Nat
  BY <1>2, <1>3, <1>5, TableValues
<1> QED
  BY <1>3, <1>4, <1>5, <1>6, <1>7, <1>8

\* The sum of the sizes of files on disk is in the table of their sizes.
LEMMA DiskSum ==
    ASSUME NEW disk, NEW S, IsFiniteSet(S), NEW f \in [S -> Nat], \A p \in S : f[p] = disk[p].size
    PROVE  \E h : /\ SumTable(h, S, f)
                  /\ DiskTotal(disk, S) = h[S]
<1> DEFINE first(t) == CHOOSE x \in t : TRUE
           Is(h) == h = [t \in SUBSET S |-> IF t = {} THEN 0
                                            ELSE disk[first(t)].size + h[t \ {first(t)}]]
           k == CHOOSE h : Is(h)
<1>1. DiskTotal(disk, S) = k[S]
  BY DEF EntryTotal, DiskTotal, MapThenSumSet, MapThenFoldSet
<1>2. ASSUME NEW t \in SUBSET S, t # {} PROVE disk[first(t)].size = f[first(t)]
  <2>1. first(t) \in t
    BY <1>2
  <2> HIDE DEF first
  <2> QED
    BY <2>1
<1>3. PICK h : h = [t \in SUBSET S |-> IF t = {} THEN 0 ELSE f[first(t)] + h[t \ {first(t)}]]
  <2>1. \E h : IsSumTable(h, S, f)
    BY SumTableExists
  <2> QED
    BY <2>1 DEF IsSumTable
<1>4. Is(h)
  <2> HIDE DEF first
  <2> QED
    BY <1>2, <1>3
<1>5. Is(k)
  <2> HIDE DEF Is
  <2> QED
    BY <1>4
<1>6. SumTable(k, S, f)
  <2> HIDE DEF k
  <2>1. ASSUME NEW t \in SUBSET S
        PROVE  k[t] = IF t = {} THEN 0 ELSE f[first(t)] + k[t \ {first(t)}]
    <3> HIDE DEF first
    <3> QED
      BY <1>2, <1>5
  <2> QED
    BY <2>1 DEF SumTable
<1> HIDE DEF k
<1> QED
  BY <1>1, <1>6

\* The files of two disks sum up to the same if they are as large.
LEMMA DiskSumIsOfSizes ==
    ASSUME NEW disk, NEW other, NEW S, IsFiniteSet(S),
           \A p \in S : disk[p].size \in Nat /\ disk[p].size = other[p].size
    PROVE  DiskTotal(disk, S) = DiskTotal(other, S)
<1> DEFINE f == [p \in S |-> disk[p].size]
<1>1. f \in [S -> Nat] /\ (\A p \in S : f[p] = disk[p].size) /\ \A p \in S : f[p] = other[p].size
  OBVIOUS
<1>2. S \in SUBSET S
  OBVIOUS
<1> HIDE DEF f
<1>3. PICK h : SumTable(h, S, f) /\ DiskTotal(disk, S) = h[S]
  BY <1>1, DiskSum
<1>4. PICK k : SumTable(k, S, f) /\ DiskTotal(other, S) = k[S]
  BY <1>1, DiskSum
<1>5. h[S] = k[S]
  BY <1>1, <1>2, <1>3, <1>4, TablesAgree
<1> QED
  BY <1>3, <1>4, <1>5

\* A file adds its size.
LEMMA DiskSumAdds ==
    ASSUME NEW disk, NEW S, IsFiniteSet(S), NEW x, x \notin S,
           \A p \in S \cup {x} : disk[p].size \in Nat
    PROVE  DiskTotal(disk, S \cup {x})
                = DiskTotal(disk, S) + disk[x].size
<1> DEFINE U == S \cup {x}
           f == [p \in S |-> disk[p].size]
           g == [p \in U |-> disk[p].size]
<1>1. IsFiniteSet(U)
  BY FS_AddElement
<1>2. f \in [S -> Nat] /\ g \in [U -> Nat] /\ \A p \in S : g[p] = f[p]
  OBVIOUS
<1>3. PICK h : SumTable(h, S, f) /\ DiskTotal(disk, S) = h[S]
  <2>1. \A p \in S : f[p] = disk[p].size
    OBVIOUS
  <2> HIDE DEF f
  <2> QED
    BY <2>1, <1>2, DiskSum
<1>4. PICK k : SumTable(k, U, g) /\ DiskTotal(disk, U) = k[U]
  <2>1. \A p \in U : g[p] = disk[p].size
    OBVIOUS
  <2> HIDE DEF g
  <2> QED
    BY <1>1, <1>2, <2>1, DiskSum
<1>5. S \in SUBSET U /\ x \in U \ S /\ g[x] = disk[x].size
  OBVIOUS
<1> HIDE DEF f, g
<1>6. k[S] = h[S]
  <2> HIDE DEF U
  <2> QED
    BY <1>1, <1>2, <1>3, <1>4, <1>5, TablesAgree
<1>7. k[S \cup {x}] = k[S] + g[x]
  <2> HIDE DEF U
  <2>1. S \in SUBSET U /\ x \in U /\ x \notin S /\ g \in [U -> Nat] /\ SumTable(k, U, g)
    BY <1>2, <1>4, <1>5
  <2> QED
    BY <1>1, <2>1, TableAdds
<1> QED
  BY <1>3, <1>4, <1>5, <1>6, <1>7

\* Nothing has no size.
LEMMA SumsOfNothing ==
    ASSUME NEW disk
    PROVE  /\ EntryTotal({}) = 0
           /\ DiskTotal(disk, {}) = 0
<1>1. IsFiniteSet({})
  BY FS_EmptySet
<1> DEFINE f == [e \in {} |-> 0]
<1>2. f \in [{} -> Nat]
  OBVIOUS
<1> HIDE DEF f
<1>3. PICK h : SumTable(h, {}, f) /\ EntryTotal({}) = h[{}]
  BY <1>1, <1>2, EntrySum
<1>4. PICK k : SumTable(k, {}, f) /\ DiskTotal(disk, {}) = k[{}]
  BY <1>1, <1>2, DiskSum
<1>5. h[{}] = 0 /\ k[{}] = 0
  BY <1>1, <1>2, <1>3, <1>4, TableValues
<1> QED
  BY <1>3, <1>4, <1>5

-----------------------------------------------------------------------------
(* One entry.  What is read is a tree of directories and files.            *)

\* The nodes of a tree, trees of them, and what parse_tar has read.
Node == [kind : {"directory", "file"}, mode : {"644", "755"}, size : Nat,
         data : STRING \cup {"none"}]
Tree == UNION {[D -> Node] : D \in SUBSET Path}
State == [refused : BOOLEAN, explicit : SUBSET Path, tree : Tree, expanded : Nat]

\* What a path lies in.
LEMMA ParentsArePaths ==
    ASSUME NEW path \in Path, NEW p \in ParentsOf(path)
    PROVE  /\ p \in Path /\ p # path
           /\ PathIsSafe(path) => PathIsSafe(p)
<1>1. PICK n \in 1..(Len(path) - 1) : p = SubSeq(path, 1, n)
  BY DEF ParentsOf
<1>2. Len(path) \in Nat /\ n \in Nat /\ 1 <= n /\ n < Len(path)
  BY DEF Path
<1>3. p \in Seq(STRING) /\ Len(p) = n /\ \A i \in 1..n : p[i] = path[i]
  BY <1>1, <1>2 DEF Path
<1>4. p # path /\ p # <<>>
  BY <1>2, <1>3
<1>5. ASSUME PathIsSafe(path) PROVE PathIsSafe(p)
  <2>1. DOMAIN p = 1..n /\ DOMAIN path = 1..Len(path)
    BY <1>2, <1>3 DEF Path
  <2>2. ASSUME NEW i \in DOMAIN p PROVE p[i] \notin Reserved \cup Irregular
    <3>1. i \in DOMAIN path /\ p[i] = path[i]
      BY <1>2, <1>3, <2>1
    <3> QED
      BY <1>5, <3>1 DEF PathIsSafe
  <2> QED
    BY <1>4, <2>2 DEF PathIsSafe
<1> QED
  BY <1>3, <1>4, <1>5 DEF Path

\* There are finitely many of them.
LEMMA ParentsAreFinite ==
    ASSUME NEW path \in Path
    PROVE  IsFiniteSet(ParentsOf(path))
<1>1. 1 \in Int /\ Len(path) - 1 \in Int
  BY DEF Path
<1>2. IsFiniteSet(1..(Len(path) - 1))
  BY <1>1, FS_Interval
<1> DEFINE f == [n \in 1..(Len(path) - 1) |-> SubSeq(path, 1, n)]
<1>3. f \in Surjection(1..(Len(path) - 1), ParentsOf(path))
  BY DEF ParentsOf, Surjection
<1> HIDE DEF f
<1> QED
  BY <1>2, <1>3, FS_Surjection

\* Nodes are what the entries are made into.
LEMMA NodesAreMade ==
    /\ Directory \in Node
    /\ \A e \in Entry : File(e.mode, e.size, e.data) \in Node
<1>1. Directory \in Node
  <2>1. "none" \in STRING \cup {"none"} /\ 0 \in Nat
    OBVIOUS
  <2> QED
    BY <2>1 DEF Directory, Node
<1>2. ASSUME NEW e \in Entry PROVE File(e.mode, e.size, e.data) \in Node
  <2>1. e.size \in Nat /\ e.data \in STRING
    BY DEF Entry
  <2> QED
    BY <2>1 DEF File, Node
<1> QED
  BY <1>1, <1>2

\* Two trees put together: the first decides.
LEMMA TreesJoin ==
    ASSUME NEW D \in SUBSET Path, NEW E \in SUBSET Path,
           NEW t \in [D -> Node], NEW u \in [E -> Node], NEW w, w = With(t, u)
    PROVE  /\ w \in Tree
           /\ DOMAIN w = D \cup E
           /\ \A p \in D : w[p] = t[p]
           /\ \A p \in E \ D : w[p] = u[p]
<1>1. w = [p \in D \cup E |-> IF p \in D THEN t[p] ELSE u[p]]
  BY DEF With
<1>2. w \in [D \cup E -> Node] /\ D \cup E \in SUBSET Path
  BY <1>1
<1> QED
  BY <1>1, <1>2 DEF Tree

\* A directory that is added, and what is there stays.
LEMMA DirectoriesAdded ==
    ASSUME NEW s \in State, NEW paths \in SUBSET Path,
           NEW t, t = WithDirectories(s, paths)
    PROVE  /\ t \in State
           /\ t.refused = (s.refused \/ \E p \in paths \cap DOMAIN s.tree : s.tree[p].kind = "file")
           /\ ~t.refused =>
                /\ t.explicit = s.explicit /\ t.expanded = s.expanded
                /\ DOMAIN t.tree = paths \cup DOMAIN s.tree
                /\ \A p \in paths : t.tree[p] = Directory
                /\ \A p \in DOMAIN s.tree \ paths : t.tree[p] = s.tree[p]
<1> DEFINE bad == \E p \in paths \cap DOMAIN s.tree : s.tree[p].kind = "file"
<1>1. PICK D \in SUBSET Path : s.tree \in [D -> Node]
  BY DEF State, Tree
<1>0. s.refused \in BOOLEAN /\ s.expanded \in Nat
  BY DEF State
<1>2. CASE bad
  <2>1. t = [s EXCEPT !.refused = TRUE]
    BY <1>2 DEF WithDirectories, Refuse
  <2> QED
    BY <1>2, <2>1 DEF State
<1>3. CASE ~bad
  <2> DEFINE d == [p \in paths |-> Directory]
             w == With(d, s.tree)
  <2>1. t = [s EXCEPT !.tree = w]
    BY <1>3 DEF WithDirectories
  <2>2. d \in [paths -> Node]
    BY NodesAreMade
  <2>3. /\ w \in Tree
        /\ DOMAIN w = paths \cup D
        /\ \A p \in paths : w[p] = d[p]
        /\ \A p \in D \ paths : w[p] = s.tree[p]
    <3> DEFINE u == s.tree
    <3>1. u \in [D -> Node] /\ w = With(d, u)
      BY <1>1
    <3> HIDE DEF d, u, w
    <3>2. /\ w \in Tree
          /\ DOMAIN w = paths \cup D
          /\ \A p \in paths : w[p] = d[p]
          /\ \A p \in D \ paths : w[p] = u[p]
      BY <2>2, <3>1, TreesJoin
    <3> QED
      BY <3>2 DEF u
  <2>4. t \in State /\ t.tree = w /\ t.refused = s.refused
        /\ t.explicit = s.explicit /\ t.expanded = s.expanded
    <3> HIDE DEF d, w
    <3> QED
      BY <2>1, <2>3 DEF State
  <2>5. DOMAIN s.tree = D /\ \A p \in paths : d[p] = Directory
    BY <1>1
  <2> HIDE DEF d, w
  <2> QED
    BY <1>0, <1>3, <2>3, <2>4, <2>5
<1> HIDE DEF bad
<1> QED
  BY <1>2, <1>3 DEF bad

\* A file that is added.
LEMMA FileAdded ==
    ASSUME NEW s \in State, NEW e \in Entry, MaxFile \in Nat, MaxExpanded \in Nat,
           NEW t, t = InsertFile(s, e)
    PROVE  /\ t \in State
           /\ t.refused = (\/ s.refused
                           \/ e.size > MaxFile
                           \/ s.expanded + e.size > MaxExpanded
                           \/ e.path \in DOMAIN s.tree)
           /\ ~t.refused =>
                /\ t.explicit = s.explicit /\ t.expanded = s.expanded + e.size
                /\ DOMAIN t.tree = {e.path} \cup DOMAIN s.tree
                /\ t.tree[e.path] = File(e.mode, e.size, e.data)
                /\ \A p \in DOMAIN s.tree : t.tree[p] = s.tree[p]
<1> DEFINE bad == e.size > MaxFile \/ s.expanded + e.size > MaxExpanded \/ e.path \in DOMAIN s.tree
<1>1. PICK D \in SUBSET Path : s.tree \in [D -> Node]
  BY DEF State, Tree
<1>0. s.refused \in BOOLEAN /\ s.expanded \in Nat
  BY DEF State
<1>2. CASE bad
  <2>1. t = [s EXCEPT !.refused = TRUE]
    BY <1>2 DEF InsertFile, Refuse
  <2>2. t \in State /\ t.refused
    BY <2>1 DEF State
  <2> QED
    BY <1>2, <2>2
<1>3. CASE ~bad
  <2> DEFINE f == File(e.mode, e.size, e.data)
             d == [p \in {e.path} |-> f]
             w == With(s.tree, d)
  <2>1. t = [s EXCEPT !.expanded = @ + e.size, !.tree = w]
    BY <1>3 DEF InsertFile
  <2>2. d \in [{e.path} -> Node] /\ d[e.path] = f /\ {e.path} \in SUBSET Path
    <3>1. f \in Node /\ e.path \in Path
      BY NodesAreMade DEF Entry
    <3> HIDE DEF f
    <3> QED
      BY <3>1
  <2>3. /\ w \in Tree
        /\ DOMAIN w = D \cup {e.path}
        /\ \A p \in D : w[p] = s.tree[p]
        /\ \A p \in {e.path} \ D : w[p] = d[p]
    <3> DEFINE u == s.tree
               E == {e.path}
    <3>1. u \in [D -> Node] /\ w = With(u, d) /\ d \in [E -> Node] /\ E \in SUBSET Path
      BY <1>1, <2>2
    <3> HIDE DEF d, u, w, E
    <3>2. /\ w \in Tree
          /\ DOMAIN w = D \cup E
          /\ \A p \in D : w[p] = u[p]
          /\ \A p \in E \ D : w[p] = d[p]
      BY <3>1, TreesJoin
    <3> QED
      BY <3>2 DEF u, E
  <2>4. t \in State /\ t.tree = w /\ t.refused = s.refused
        /\ t.explicit = s.explicit /\ t.expanded = s.expanded + e.size
    <3>1. e.size \in Nat
      BY DEF Entry
    <3> HIDE DEF d, w
    <3> QED
      <4>1. PICK m \in Nat : m = s.expanded + e.size
        BY <1>0, <3>1
      <4>2. t = [s EXCEPT !.expanded = m, !.tree = w]
        BY <2>1, <4>1
      <4>3. t \in State /\ t.tree = w /\ t.refused = s.refused
            /\ t.explicit = s.explicit /\ t.expanded = m
        BY <2>3, <4>2 DEF State
      <4> QED
        BY <4>1, <4>3
  <2>5. DOMAIN s.tree = D /\ e.path \notin D
    BY <1>1, <1>3
  <2>6. w[e.path] = f
    <3> HIDE DEF d, f, w
    <3> QED
      BY <2>2, <2>3, <2>5
  <2> HIDE DEF d, f, w
  <2> QED
    BY <1>0, <1>3, <2>3, <2>4, <2>5, <2>6 DEF f
<1> HIDE DEF bad
<1> QED
  BY <1>2, <1>3 DEF bad

\* When an entry is refused that is no header of git's.
Refuses(s, e) ==
    \/ s.refused \/ ~PathIsSafe(e.path)
    \/ e.path \in s.explicit \/ Cardinality(s.explicit) = MaxEntries
    \/ \E p \in ParentsOf(e.path) \cap DOMAIN s.tree : s.tree[p].kind = "file"
    \/ e.type \notin {"file", "directory", "link"}
    \/ /\ e.type = "file"
       /\ e.size > MaxFile \/ s.expanded + e.size > MaxExpanded \/ e.path \in DOMAIN s.tree
    \/ /\ e.type = "directory"
       /\ e.size # 0 \/ (e.path \in DOMAIN s.tree /\ s.tree[e.path].kind = "file")
    \/ e.type = "link" /\ ~(SkipsLinks /\ e.size = 0)

\* What it makes of the state otherwise.
Takes(s, e, t) ==
    /\ t.explicit = s.explicit \cup {e.path}
    /\ t.expanded = s.expanded + (IF e.type = "file" THEN e.size ELSE 0)
    /\ DOMAIN t.tree = DOMAIN s.tree \cup ParentsOf(e.path)
                       \cup (IF e.type = "link" THEN {} ELSE {e.path})
    /\ \A p \in ParentsOf(e.path) : t.tree[p] = Directory
    /\ e.type = "directory" => t.tree[e.path] = Directory
    /\ e.type = "file" => t.tree[e.path] = File(e.mode, e.size, e.data)
    /\ \A p \in DOMAIN s.tree \ (ParentsOf(e.path) \cup {e.path}) : t.tree[p] = s.tree[p]
    /\ e.type = "link" /\ e.path \in DOMAIN s.tree => t.tree[e.path] = s.tree[e.path]

\* Refusing keeps the rest.
LEMMA Refused ==
    ASSUME NEW s \in State
    PROVE  Refuse(s) \in State /\ Refuse(s).refused
BY DEF State, Refuse

\* Whichever entry it is, it is refused, or else taken, like this.
LEMMA EntryInserted ==
    ASSUME Limits, NEW s \in State, ~s.refused, NEW e \in Entry, NEW t, t = InsertEntry(s, e)
    PROVE  /\ t \in State
           /\ t.refused = (\/ e.type \notin {"file", "directory", "link"}
                           \/ /\ e.type = "file"
                              /\ \/ e.size > MaxFile \/ s.expanded + e.size > MaxExpanded
                                 \/ e.path \in DOMAIN s.tree
                           \/ /\ e.type = "directory"
                              /\ \/ e.size # 0
                                 \/ e.path \in DOMAIN s.tree /\ s.tree[e.path].kind = "file"
                           \/ e.type = "link" /\ ~(SkipsLinks /\ e.size = 0))
           /\ ~t.refused =>
                /\ t.explicit = s.explicit
                /\ t.expanded = s.expanded + (IF e.type = "file" THEN e.size ELSE 0)
                /\ DOMAIN t.tree = DOMAIN s.tree \cup (IF e.type = "link" THEN {} ELSE {e.path})
                /\ e.type = "directory" => t.tree[e.path] = Directory
                /\ e.type = "file" => t.tree[e.path] = File(e.mode, e.size, e.data)
                /\ \A p \in DOMAIN s.tree \ {e.path} : t.tree[p] = s.tree[p]
                /\ e.type = "link" => t = s
<1>1. /\ e.path \in Path /\ {e.path} \in SUBSET Path /\ e.size \in Nat
      /\ s.expanded \in Nat /\ s.expanded + 0 = s.expanded
  BY DEF Entry, State
<1>2. Refuse(s) \in State /\ Refuse(s).refused
  BY Refused
<1>3. CASE e.type = "file"
  <2>1. t = InsertFile(s, e)
    BY <1>3 DEF InsertEntry
  <2>2. MaxFile \in Nat /\ MaxExpanded \in Nat
    BY DEF Limits
  <2>3. /\ t \in State
        /\ t.refused = (\/ s.refused
                        \/ e.size > MaxFile
                        \/ s.expanded + e.size > MaxExpanded
                        \/ e.path \in DOMAIN s.tree)
        /\ ~t.refused =>
             /\ t.explicit = s.explicit /\ t.expanded = s.expanded + e.size
             /\ DOMAIN t.tree = {e.path} \cup DOMAIN s.tree
             /\ t.tree[e.path] = File(e.mode, e.size, e.data)
             /\ \A p \in DOMAIN s.tree : t.tree[p] = s.tree[p]
    BY <2>1, <2>2, FileAdded
  <2> QED
    BY <1>3, <2>3
<1>4. CASE e.type = "directory"
  <2>1. CASE e.size # 0
    <3>1. t = Refuse(s)
      BY <1>4, <2>1 DEF InsertEntry
    <3> QED
      BY <1>2, <1>4, <2>1, <3>1
  <2>2. CASE e.size = 0
    <3> DEFINE paths == {e.path}
    <3>1. t = WithDirectories(s, paths)
      BY <1>4, <2>2 DEF InsertEntry
    <3>2. /\ t \in State
          /\ t.refused = (s.refused \/ \E p \in paths \cap DOMAIN s.tree : s.tree[p].kind = "file")
          /\ ~t.refused =>
               /\ t.explicit = s.explicit /\ t.expanded = s.expanded
               /\ DOMAIN t.tree = paths \cup DOMAIN s.tree
               /\ \A p \in paths : t.tree[p] = Directory
               /\ \A p \in DOMAIN s.tree \ paths : t.tree[p] = s.tree[p]
      <4>1. paths \in SUBSET Path
        BY <1>1
      <4> HIDE DEF paths
      <4> QED
        BY <3>1, <4>1, DirectoriesAdded
    <3>3. t.refused = (e.path \in DOMAIN s.tree /\ s.tree[e.path].kind = "file")
      BY <3>2
    <3> QED
      BY <1>1, <1>4, <2>2, <3>2, <3>3
  <2> QED
    BY <2>1, <2>2
<1>5. CASE e.type = "link"
  <2>1. t = IF SkipsLinks /\ e.size = 0 THEN s ELSE Refuse(s)
    BY <1>5 DEF InsertEntry
  <2>2. CASE SkipsLinks /\ e.size = 0
    <3>1. t = s
      BY <2>1, <2>2
    <3>2. t \in State /\ ~t.refused /\ t.explicit = s.explicit /\ t.expanded = s.expanded
          /\ DOMAIN t.tree = DOMAIN s.tree \cup {} /\ \A p \in DOMAIN s.tree : t.tree[p] = s.tree[p]
      BY <3>1
    <3>3. e.type = "link" /\ e.type # "file" /\ e.type # "directory"
      BY <1>5
    <3>4. t.expanded = s.expanded + 0
      BY <1>1, <3>2
    <3>5. t.refused = (\/ e.type \notin {"file", "directory", "link"}
                       \/ /\ e.type = "file"
                          /\ \/ e.size > MaxFile \/ s.expanded + e.size > MaxExpanded
                             \/ e.path \in DOMAIN s.tree
                       \/ /\ e.type = "directory"
                          /\ \/ e.size # 0
                             \/ e.path \in DOMAIN s.tree /\ s.tree[e.path].kind = "file"
                       \/ e.type = "link" /\ ~(SkipsLinks /\ e.size = 0))
      <4>1. t.refused \in BOOLEAN
        BY <3>2 DEF State
      <4> QED
        BY <2>2, <3>2, <3>3, <4>1
    <3> QED
      BY <3>1, <3>2, <3>3, <3>4, <3>5
  <2>3. CASE ~(SkipsLinks /\ e.size = 0)
    <3>1. t = Refuse(s)
      BY <2>1, <2>3
    <3> QED
      BY <1>2, <1>5, <2>3, <3>1
  <2> QED
    BY <2>2, <2>3
<1>6. CASE e.type \notin {"file", "directory", "link"}
  <2>1. t = Refuse(s)
    BY <1>6 DEF InsertEntry
  <2> QED
    BY <1>2, <1>6, <2>1
<1> QED
  BY <1>3, <1>4, <1>5, <1>6

\* An entry that is no header of git's is refused, or else taken with its parents.
LEMMA EntryRead ==
    ASSUME Limits, NEW s \in State, NEW e \in Entry, e.type # "pax", NEW t, t = ReadEntry(s, e)
    PROVE  /\ t \in State
           /\ t.refused = Refuses(s, e)
           /\ ~t.refused => Takes(s, e, t)
<1> DEFINE early == \/ s.refused \/ ~PathIsSafe(e.path)
                    \/ e.path \in s.explicit \/ Cardinality(s.explicit) = MaxEntries
           paths == ParentsOf(e.path)
           s1 == [s EXCEPT !.explicit = @ \cup {e.path}]
           s2 == WithDirectories(s1, paths)
<1>0. e.path \in Path /\ e.size \in Nat /\ s.expanded \in Nat
  BY DEF Entry, State
<1>1. CASE early
  <2>1. t = Refuse(s)
    BY <1>1 DEF ReadEntry
  <2>2. Refuses(s, e)
    BY <1>1 DEF Refuses
  <2> QED
    BY <2>1, <2>2, Refused
<1>2. CASE ~early
  <2>1. t = IF s2.refused THEN s2 ELSE InsertEntry(s2, e)
    BY <1>2 DEF ReadEntry
  <2>2. /\ s1 \in State /\ ~s1.refused /\ s1.tree = s.tree /\ s1.expanded = s.expanded
        /\ s1.explicit = s.explicit \cup {e.path}
    <3> HIDE DEF paths
    <3> QED
      BY <1>0, <1>2 DEF State
  <2>3. paths \in SUBSET Path /\ e.path \notin paths
    BY <1>0, ParentsArePaths
  <2> HIDE DEF early, paths, s1
  <2>4. /\ s2 \in State
        /\ s2.refused = \E p \in paths \cap DOMAIN s.tree : s.tree[p].kind = "file"
        /\ ~s2.refused =>
             /\ s2.explicit = s1.explicit /\ s2.expanded = s1.expanded
             /\ DOMAIN s2.tree = paths \cup DOMAIN s.tree
             /\ \A p \in paths : s2.tree[p] = Directory
             /\ \A p \in DOMAIN s.tree \ paths : s2.tree[p] = s.tree[p]
    <3>1. \E t2 : t2 = s2
      OBVIOUS
    <3> HIDE DEF s2
    <3>2. s2 = WithDirectories(s1, paths)
      BY DEF s2
    <3>3. /\ s2 \in State
          /\ s2.refused = (s1.refused \/ \E p \in paths \cap DOMAIN s1.tree : s1.tree[p].kind = "file")
          /\ ~s2.refused =>
               /\ s2.explicit = s1.explicit /\ s2.expanded = s1.expanded
               /\ DOMAIN s2.tree = paths \cup DOMAIN s1.tree
               /\ \A p \in paths : s2.tree[p] = Directory
               /\ \A p \in DOMAIN s1.tree \ paths : s2.tree[p] = s1.tree[p]
      BY <2>2, <2>3, <3>2, DirectoriesAdded
    <3>4. s1.tree = s.tree /\ ~s1.refused
      BY <2>2
    <3> QED
      BY <3>3, <3>4
  <2> HIDE DEF s2
  <2>5. CASE s2.refused
    <3>1. t = s2
      BY <2>1, <2>5
    <3>2. Refuses(s, e)
      BY <2>4, <2>5 DEF Refuses, paths
    <3> QED
      BY <2>4, <2>5, <3>1, <3>2
  <2>6. CASE ~s2.refused
    <3>1. t = InsertEntry(s2, e)
      BY <2>1, <2>6
    <3>2. /\ t \in State
          /\ t.refused = (\/ e.type \notin {"file", "directory", "link"}
                          \/ /\ e.type = "file"
                             /\ \/ e.size > MaxFile \/ s2.expanded + e.size > MaxExpanded
                                \/ e.path \in DOMAIN s2.tree
                          \/ /\ e.type = "directory"
                             /\ \/ e.size # 0
                                \/ e.path \in DOMAIN s2.tree /\ s2.tree[e.path].kind = "file"
                          \/ e.type = "link" /\ ~(SkipsLinks /\ e.size = 0))
          /\ ~t.refused =>
               /\ t.explicit = s2.explicit
               /\ t.expanded = s2.expanded + (IF e.type = "file" THEN e.size ELSE 0)
               /\ DOMAIN t.tree = DOMAIN s2.tree \cup (IF e.type = "link" THEN {} ELSE {e.path})
               /\ e.type = "directory" => t.tree[e.path] = Directory
               /\ e.type = "file" => t.tree[e.path] = File(e.mode, e.size, e.data)
               /\ \A p \in DOMAIN s2.tree \ {e.path} : t.tree[p] = s2.tree[p]
               /\ e.type = "link" => t = s2
      BY <2>4, <2>6, <3>1, EntryInserted
    <3>3. /\ s2.expanded = s.expanded /\ s2.explicit = s.explicit \cup {e.path}
          /\ DOMAIN s2.tree = paths \cup DOMAIN s.tree
          /\ \A p \in paths : s2.tree[p] = Directory
          /\ \A p \in DOMAIN s.tree \ paths : s2.tree[p] = s.tree[p]
      BY <2>2, <2>4, <2>6
    <3>4. /\ e.path \in DOMAIN s2.tree <=> e.path \in DOMAIN s.tree
          /\ e.path \in DOMAIN s.tree => s2.tree[e.path] = s.tree[e.path]
      BY <2>3, <3>3
    <3>5. t.refused = Refuses(s, e)
      <4>1. ~early /\ ~\E p \in paths \cap DOMAIN s.tree : s.tree[p].kind = "file"
        BY <1>2, <2>4, <2>6
      <4>2. Refuses(s, e) <=> (\/ e.type \notin {"file", "directory", "link"}
                               \/ /\ e.type = "file"
                                  /\ \/ e.size > MaxFile \/ s.expanded + e.size > MaxExpanded
                                     \/ e.path \in DOMAIN s.tree
                               \/ /\ e.type = "directory"
                                  /\ \/ e.size # 0
                                     \/ e.path \in DOMAIN s.tree /\ s.tree[e.path].kind = "file"
                               \/ e.type = "link" /\ ~(SkipsLinks /\ e.size = 0))
        BY <4>1 DEF Refuses, early, paths
      <4> QED
        BY <3>2, <3>3, <3>4, <4>2 DEF Refuses
    <3>6. ASSUME ~t.refused PROVE Takes(s, e, t)
      <4>1. /\ t.explicit = s.explicit \cup {e.path}
            /\ t.expanded = s.expanded + (IF e.type = "file" THEN e.size ELSE 0)
            /\ DOMAIN t.tree = DOMAIN s.tree \cup paths \cup (IF e.type = "link" THEN {} ELSE {e.path})
            /\ e.type = "directory" => t.tree[e.path] = Directory
            /\ e.type = "file" => t.tree[e.path] = File(e.mode, e.size, e.data)
        BY <3>2, <3>3, <3>6
      <4>2. /\ \A p \in paths : t.tree[p] = Directory
            /\ \A p \in DOMAIN s.tree \ (paths \cup {e.path}) : t.tree[p] = s.tree[p]
        <5>1. \A p \in DOMAIN s2.tree \ {e.path} : t.tree[p] = s2.tree[p]
          BY <3>2, <3>6
        <5> QED
          BY <2>3, <3>3, <5>1
      <4>3. e.type = "link" /\ e.path \in DOMAIN s.tree => t.tree[e.path] = s.tree[e.path]
        BY <3>2, <3>4, <3>6
      <4> QED
        BY <4>1, <4>2, <4>3 DEF Takes, paths
    <3> QED
      BY <3>2, <3>5, <3>6
  <2> QED
    BY <2>5, <2>6
<1> HIDE DEF early
<1> QED
  BY <1>1, <1>2

\* A header of git's names a commit and changes nothing.
LEMMA HeaderRead ==
    ASSUME NEW s \in State, NEW e \in Entry, e.type = "pax", NEW t, t = ReadEntry(s, e)
    PROVE  /\ t \in State
           /\ t.refused = (s.refused \/ e.path # <<"pax_global_header">>)
           /\ ~t.refused => t = s
<1>1. PathIsSafe(<<"pax_global_header">>)
  <2> DEFINE path == <<"pax_global_header">>
  <2>1. path # <<>> /\ DOMAIN path = {1} /\ path[1] = "pax_global_header"
    OBVIOUS
  <2>2. "pax_global_header" \notin Reserved \cup Irregular
    BY DEF Reserved, Irregular
  <2> HIDE DEF path
  <2>3. PathIsSafe(path)
    BY <2>1, <2>2 DEF PathIsSafe
  <2> QED
    BY <2>3 DEF path
<1>2. t = IF s.refused \/ ~PathIsSafe(e.path) THEN Refuse(s)
          ELSE IF e.path = <<"pax_global_header">> THEN s ELSE Refuse(s)
  BY DEF ReadEntry
<1>3. t = IF s.refused \/ e.path # <<"pax_global_header">> THEN Refuse(s) ELSE s
  BY <1>1, <1>2
<1>4. s.refused \in BOOLEAN
  BY DEF State
<1> QED
  BY <1>3, <1>4, Refused

-----------------------------------------------------------------------------
(* One entry after the other.  After each of them the state says what the  *)
(* entries so far are worth.                                               *)

\* The paths an archive gives to files and to directories.
FilePaths(a) == {e.path : e \in FilesOf(a)}
DirectoryPaths(a) ==
    {e.path : e \in {e \in Entries(a) : e.type = "directory"}}
        \cup UNION {ParentsOf(e.path) : e \in Entries(a)}

\* What IsAcceptable says of the entries, apart from the size of the tree.
Clean(a) ==
    /\ \A i \in DOMAIN a : a[i].type = "pax" => a[i].path = <<"pax_global_header">>
    /\ \A i, j \in DOMAIN a :
          (i # j /\ "pax" \notin {a[i].type, a[j].type}) => a[i].path # a[j].path
    /\ \A e \in Entries(a) :
          /\ PathIsSafe(e.path)
          /\ e.type \in {"file", "directory"} \/ (e.type = "link" /\ SkipsLinks)
          /\ e.type # "file" => e.size = 0
          /\ e.type = "file" => e.size <= MaxFile
          /\ \A f \in FilesOf(a) : f.path \notin ParentsOf(e.path)
    /\ EntryTotal(FilesOf(a)) <= MaxExpanded
    /\ Cardinality(Entries(a)) <= MaxEntries

\* What it says of one more.
Admits(a, e) ==
    /\ PathIsSafe(e.path)
    /\ \A x \in Entries(a) : x.path # e.path
    /\ e.type \in {"file", "directory"} \/ (e.type = "link" /\ SkipsLinks)
    /\ e.type # "file" => e.size = 0
    /\ e.type = "file" => e.size <= MaxFile
    /\ \A f \in FilesOf(a) : f.path \notin ParentsOf(e.path)
    /\ e.type = "file" => \A x \in Entries(a) : e.path \notin ParentsOf(x.path)
    /\ e.type = "file" => EntryTotal(FilesOf(a)) + e.size <= MaxExpanded
    /\ Cardinality(Entries(a)) + 1 <= MaxEntries

\* Archive b has what a has and then e.
Follows(b, a, e) ==
    /\ b \in Archive /\ Len(b) = Len(a) + 1 /\ b[Len(b)] = e
    /\ \A i \in 1..Len(a) : b[i] = a[i]

\* A tree has exactly what the entries say.
IsTreeOf(t, a) ==
    /\ DOMAIN t = DirectoryPaths(a) \cup FilePaths(a)
    /\ \A p \in DirectoryPaths(a) : t[p] = Directory
    /\ \A e \in FilesOf(a) : t[e.path] = File(e.mode, e.size, e.data)

\* What was read of an archive is what its entries are worth.
Reads(s, a) ==
    /\ s \in State
    /\ IsFiniteSet(Entries(a))
    /\ s.refused = ~Clean(a)
    /\ ~s.refused =>
        /\ s.explicit = {e.path : e \in Entries(a)}
        /\ IsFiniteSet(s.explicit) /\ Cardinality(s.explicit) = Cardinality(Entries(a))
        /\ IsTreeOf(s.tree, a) /\ IsFiniteSet(DOMAIN s.tree)
        /\ s.expanded = EntryTotal(FilesOf(a))
        /\ s.expanded = DiskTotal(s.tree, FilePaths(a))

\* What an archive with one more entry has.
LEMMA EntriesGrow ==
    ASSUME NEW a \in Archive, NEW e \in Entry, NEW b, Follows(b, a, e)
    PROVE  /\ Entries(a) \in SUBSET Entry
           /\ Entries(b) = Entries(a) \cup (IF e.type = "pax" THEN {} ELSE {e})
           /\ FilesOf(b) = FilesOf(a) \cup (IF e.type = "file" THEN {e} ELSE {})
           /\ FilePaths(b) = FilePaths(a) \cup (IF e.type = "file" THEN {e.path} ELSE {})
           /\ DirectoryPaths(b) = DirectoryPaths(a)
                \cup (IF e.type = "directory" THEN {e.path} ELSE {})
                \cup (IF e.type = "pax" THEN {} ELSE ParentsOf(e.path))
<1>1. /\ Len(a) \in Nat /\ DOMAIN a = 1..Len(a) /\ DOMAIN b = 1..(Len(a) + 1)
      /\ b[Len(a) + 1] = e /\ \A i \in 1..Len(a) : b[i] = a[i]
      /\ \A i \in 1..Len(a) : a[i] \in Entry
  BY DEF Follows, Archive
<1>2. Entries(a) = {a[i] : i \in {i \in 1..Len(a) : a[i].type # "pax"}}
  BY <1>1 DEF Entries
<1>3. Entries(b) = {b[i] : i \in {i \in 1..(Len(a) + 1) : b[i].type # "pax"}}
  BY <1>1 DEF Entries
<1>4. Entries(b) = Entries(a) \cup (IF e.type = "pax" THEN {} ELSE {e})
  <2>1. ASSUME NEW x \in Entries(b) PROVE x \in Entries(a) \cup (IF e.type = "pax" THEN {} ELSE {e})
    <3>1. PICK i \in 1..(Len(a) + 1) : x = b[i] /\ b[i].type # "pax"
      BY <1>3, <2>1
    <3>2. CASE i = Len(a) + 1
      BY <1>1, <3>1, <3>2
    <3>3. CASE i # Len(a) + 1
      <4>1. i \in 1..Len(a)
        BY <1>1, <3>1, <3>3
      <4>2. x \in Entries(a)
        BY <1>1, <1>2, <3>1, <4>1
      <4> QED
        BY <4>2
    <3> QED
      BY <3>2, <3>3
  <2>2. ASSUME NEW x \in Entries(a) PROVE x \in Entries(b)
    <3>1. PICK i \in 1..Len(a) : x = a[i] /\ a[i].type # "pax"
      BY <1>2, <2>2
    <3>2. i \in 1..(Len(a) + 1) /\ b[i] = a[i]
      BY <1>1
    <3> QED
      BY <1>3, <3>1, <3>2
  <2>3. e.type # "pax" => e \in Entries(b)
    <3>1. Len(a) + 1 \in 1..(Len(a) + 1)
      BY <1>1
    <3> QED
      BY <1>1, <1>3, <3>1
  <2> QED
    BY <2>1, <2>2, <2>3
<1>5. Entries(a) \in SUBSET Entry
  BY <1>1, <1>2
<1>6. FilesOf(b) = FilesOf(a) \cup (IF e.type = "file" THEN {e} ELSE {})
  BY <1>4 DEF FilesOf
<1>7. FilePaths(b) = FilePaths(a) \cup (IF e.type = "file" THEN {e.path} ELSE {})
  BY <1>6 DEF FilePaths
<1>8. DirectoryPaths(b) = DirectoryPaths(a)
        \cup (IF e.type = "directory" THEN {e.path} ELSE {})
        \cup (IF e.type = "pax" THEN {} ELSE ParentsOf(e.path))
  <2> DEFINE listed(c) == {x.path : x \in {x \in Entries(c) : x.type = "directory"}}
             above(c) == UNION {ParentsOf(x.path) : x \in Entries(c)}
  <2>1. listed(b) = listed(a) \cup (IF e.type = "directory" THEN {e.path} ELSE {})
    BY <1>4
  <2>2. above(b) = above(a) \cup (IF e.type = "pax" THEN {} ELSE ParentsOf(e.path))
    BY <1>4
  <2>3. \A c : DirectoryPaths(c) = listed(c) \cup above(c)
    BY DEF DirectoryPaths
  <2> HIDE DEF listed, above
  <2> QED
    BY <2>1, <2>2, <2>3
<1> QED
  BY <1>4, <1>5, <1>6, <1>7, <1>8

\* Counts and sums with one entry more.
LEMMA TotalsGrow ==
    ASSUME Limits, NEW E \in SUBSET Entry, IsFiniteSet(E), NEW e \in Entry
    PROVE  /\ IsFiniteSet(E \cup {e})
           /\ Cardinality(E) \in Nat /\ EntryTotal(E) \in Nat
           /\ e \in E => E \cup {e} = E
           /\ e \notin E => /\ Cardinality(E \cup {e}) = Cardinality(E) + 1
                            /\ EntryTotal(E \cup {e}) = EntryTotal(E) + e.size
<1>1. IsFiniteSet(E \cup {e}) /\ Cardinality(E) \in Nat
  BY FS_AddElement, FS_CardinalityType
<1>2. e \notin E => Cardinality(E \cup {e}) = Cardinality(E) + 1
  BY FS_AddElement
<1>3. \A x \in E \cup {e} : x.size \in Nat
  BY DEF Entry
<1>4. e \notin E => EntryTotal(E \cup {e}) = EntryTotal(E) + e.size
  BY <1>3, EntrySumAdds
<1>5. EntryTotal(E) \in Nat
  <2> DEFINE f == [x \in E |-> x.size]
  <2>1. f \in [E -> Nat] /\ \A x \in E : f[x] = x.size
    BY <1>3
  <2> HIDE DEF f
  <2>2. PICK h : SumTable(h, E, f) /\ EntryTotal(E) = h[E]
    BY <2>1, EntrySum
  <2>3. h[E] \in Nat
    BY <2>1, <2>2, TableValues
  <2> QED
    BY <2>2, <2>3
<1> QED
  BY <1>1, <1>2, <1>4, <1>5

\* An entry that is no header keeps an archive clean exactly if it is admitted.
LEMMA CleanGrows ==
    ASSUME Limits, NEW a \in Archive, IsFiniteSet(Entries(a)),
           NEW e \in Entry, e.type # "pax", NEW b, Follows(b, a, e)
    PROVE  Clean(b) = (Clean(a) /\ Admits(a, e))
<1> DEFINE E == Entries(a)
           F == FilesOf(a)
           isfile == e.type = "file"
<1>1. /\ E \in SUBSET Entry /\ Entries(b) = E \cup {e}
      /\ FilesOf(b) = F \cup (IF isfile THEN {e} ELSE {})
  BY EntriesGrow
<1>2. /\ Len(a) \in Nat /\ DOMAIN a = 1..Len(a) /\ DOMAIN b = 1..(Len(a) + 1)
      /\ b[Len(a) + 1] = e /\ \A i \in 1..Len(a) : b[i] = a[i]
  BY DEF Follows, Archive
<1>3. E = {a[i] : i \in {i \in 1..Len(a) : a[i].type # "pax"}}
  BY <1>2 DEF Entries
<1>4. F \in SUBSET E /\ F \in SUBSET Entry /\ IsFiniteSet(F)
  <2>1. F \in SUBSET E
    BY DEF FilesOf
  <2> QED
    BY <1>1, <2>1, FS_Subset
<1>5. e.path \in Path /\ e.path \notin ParentsOf(e.path)
  BY ParentsArePaths DEF Entry
<1>6. MaxEntries \in Nat /\ MaxFile \in Nat /\ MaxExpanded \in Nat
  BY DEF Limits
<1>7. /\ Cardinality(E) \in Nat
      /\ e \notin E => Cardinality(E \cup {e}) = Cardinality(E) + 1
  BY <1>1, TotalsGrow
<1>8. /\ EntryTotal(F) \in Nat /\ e.size \in Nat
      /\ e \notin F => EntryTotal(F \cup {e}) = EntryTotal(F) + e.size
  <2>1. e.size \in Nat
    BY DEF Entry
  <2> QED
    BY <1>4, <2>1, TotalsGrow
<1> HIDE DEF E, F
<1>9. ASSUME \A x \in E : x.path # e.path
      PROVE  e \notin E /\ e \notin F
  BY <1>4, <1>9
<1>10. ASSUME Clean(b) PROVE Clean(a) /\ Admits(a, e)
  <2>1. /\ \A i \in DOMAIN b : b[i].type = "pax" => b[i].path = <<"pax_global_header">>
        /\ \A i, j \in DOMAIN b :
              (i # j /\ "pax" \notin {b[i].type, b[j].type}) => b[i].path # b[j].path
        /\ \A x \in E \cup {e} :
              /\ PathIsSafe(x.path)
              /\ x.type \in {"file", "directory"} \/ (x.type = "link" /\ SkipsLinks)
              /\ x.type # "file" => x.size = 0
              /\ x.type = "file" => x.size <= MaxFile
              /\ \A f \in F \cup (IF isfile THEN {e} ELSE {}) : f.path \notin ParentsOf(x.path)
        /\ EntryTotal(F \cup (IF isfile THEN {e} ELSE {})) <= MaxExpanded
        /\ Cardinality(E \cup {e}) <= MaxEntries
    BY <1>1, <1>10 DEF Clean
  <2>2. ASSUME NEW x \in E PROVE x.path # e.path
    <3>1. PICK i \in 1..Len(a) : x = a[i] /\ a[i].type # "pax"
      BY <1>3
    <3>2. i \in DOMAIN b /\ Len(a) + 1 \in DOMAIN b /\ i # Len(a) + 1
      BY <1>2
    <3>3. b[i] = x /\ b[i].type # "pax" /\ b[Len(a) + 1] = e
      BY <1>2, <3>1
    <3>4. "pax" \notin {b[i].type, b[Len(a) + 1].type}
      BY <3>3
    <3> QED
      BY <2>1, <3>2, <3>3, <3>4
  <2>3. e \notin E /\ e \notin F
    BY <1>9, <2>2
  <2>4. Cardinality(E) + 1 <= MaxEntries /\ Cardinality(E) <= MaxEntries
    BY <1>6, <1>7, <2>1, <2>3
  <2>5. EntryTotal(F) <= MaxExpanded /\ (isfile => EntryTotal(F) + e.size <= MaxExpanded)
    <3>1. CASE isfile
      <4>1. EntryTotal(F \cup {e}) <= MaxExpanded
        BY <2>1, <3>1
      <4>2. EntryTotal(F) + e.size <= MaxExpanded
        BY <1>8, <2>3, <4>1
      <4> QED
        BY <1>6, <1>8, <4>2
    <3>2. CASE ~isfile
      <4>1. F \cup (IF isfile THEN {e} ELSE {}) = F
        BY <3>2
      <4> QED
        BY <2>1, <3>2, <4>1
    <3> QED
      BY <3>1, <3>2
  <2>6. Admits(a, e)
    BY <2>1, <2>2, <2>4, <2>5 DEF Admits, E, F
  <2>7. /\ \A i \in DOMAIN a : a[i].type = "pax" => a[i].path = <<"pax_global_header">>
        /\ \A i, j \in DOMAIN a :
              (i # j /\ "pax" \notin {a[i].type, a[j].type}) => a[i].path # a[j].path
    <3>1. \A i \in DOMAIN a : i \in DOMAIN b /\ b[i] = a[i]
      BY <1>2
    <3> QED
      BY <2>1, <3>1
  <2>8. \A x \in E :
              /\ PathIsSafe(x.path)
              /\ x.type \in {"file", "directory"} \/ (x.type = "link" /\ SkipsLinks)
              /\ x.type # "file" => x.size = 0
              /\ x.type = "file" => x.size <= MaxFile
              /\ \A f \in F : f.path \notin ParentsOf(x.path)
    BY <2>1
  <2>9. Clean(a)
    BY <2>4, <2>5, <2>7, <2>8 DEF Clean, E, F
  <2> QED
    BY <2>6, <2>9
<1>11. ASSUME Clean(a), Admits(a, e) PROVE Clean(b)
  <2>1. /\ \A i \in DOMAIN a : a[i].type = "pax" => a[i].path = <<"pax_global_header">>
        /\ \A i, j \in DOMAIN a :
              (i # j /\ "pax" \notin {a[i].type, a[j].type}) => a[i].path # a[j].path
        /\ \A x \in E :
              /\ PathIsSafe(x.path)
              /\ x.type \in {"file", "directory"} \/ (x.type = "link" /\ SkipsLinks)
              /\ x.type # "file" => x.size = 0
              /\ x.type = "file" => x.size <= MaxFile
              /\ \A f \in F : f.path \notin ParentsOf(x.path)
        /\ EntryTotal(F) <= MaxExpanded
        /\ Cardinality(E) <= MaxEntries
    BY <1>11 DEF Clean, E, F
  <2>2. /\ PathIsSafe(e.path)
        /\ \A x \in E : x.path # e.path
        /\ e.type \in {"file", "directory"} \/ (e.type = "link" /\ SkipsLinks)
        /\ e.type # "file" => e.size = 0
        /\ e.type = "file" => e.size <= MaxFile
        /\ \A f \in F : f.path \notin ParentsOf(e.path)
        /\ e.type = "file" => \A x \in E : e.path \notin ParentsOf(x.path)
        /\ e.type = "file" => EntryTotal(F) + e.size <= MaxExpanded
        /\ Cardinality(E) + 1 <= MaxEntries
    BY <1>11 DEF Admits, E, F
  <2>3. e \notin E /\ e \notin F
    BY <1>9, <2>2
  <2>4. Cardinality(E \cup {e}) <= MaxEntries
    BY <1>7, <2>2, <2>3
  <2>5. EntryTotal(F \cup (IF isfile THEN {e} ELSE {})) <= MaxExpanded
    <3>1. CASE isfile
      BY <1>8, <2>2, <2>3, <3>1
    <3>2. CASE ~isfile
      <4>1. F \cup (IF isfile THEN {e} ELSE {}) = F
        BY <3>2
      <4> QED
        BY <2>1, <4>1
    <3> QED
      BY <3>1, <3>2
  <2>6. \A i \in DOMAIN b : b[i].type = "pax" => b[i].path = <<"pax_global_header">>
    <3>1. \A i \in DOMAIN b : i = Len(a) + 1 \/ (i \in DOMAIN a /\ b[i] = a[i])
      BY <1>2
    <3> QED
      BY <1>2, <2>1, <3>1
  <2>7. ASSUME NEW i \in DOMAIN b, NEW j \in DOMAIN b, i # j, b[i].type # "pax", b[j].type # "pax"
        PROVE  b[i].path # b[j].path
    <3>1. \A k \in DOMAIN b : k = Len(a) + 1 \/ (k \in DOMAIN a /\ b[k] = a[k])
      BY <1>2
    <3>2. \A k \in DOMAIN a : a[k].type # "pax" => a[k] \in E
      BY <1>2, <1>3
    <3>3. CASE i = Len(a) + 1
      <4>1. j \in DOMAIN a /\ b[j] = a[j] /\ a[j] \in E
        BY <2>7, <3>1, <3>2, <3>3
      <4> QED
        BY <1>2, <2>2, <3>3, <4>1
    <3>4. CASE j = Len(a) + 1
      <4>1. i \in DOMAIN a /\ b[i] = a[i] /\ a[i] \in E
        BY <2>7, <3>1, <3>2, <3>4
      <4> QED
        BY <1>2, <2>2, <3>4, <4>1
    <3>5. CASE i # Len(a) + 1 /\ j # Len(a) + 1
      <4>1. i \in DOMAIN a /\ j \in DOMAIN a /\ b[i] = a[i] /\ b[j] = a[j]
        BY <3>1, <3>5
      <4>2. "pax" \notin {a[i].type, a[j].type}
        BY <2>7, <4>1
      <4> QED
        BY <2>1, <2>7, <4>1, <4>2
    <3> QED
      BY <3>3, <3>4, <3>5
  <2>8. ASSUME NEW x \in E \cup {e}
        PROVE  /\ PathIsSafe(x.path)
               /\ x.type \in {"file", "directory"} \/ (x.type = "link" /\ SkipsLinks)
               /\ x.type # "file" => x.size = 0
               /\ x.type = "file" => x.size <= MaxFile
               /\ \A f \in F \cup (IF isfile THEN {e} ELSE {}) : f.path \notin ParentsOf(x.path)
    <3>1. CASE x \in E
      BY <2>1, <2>2, <3>1
    <3>2. CASE x = e
      BY <1>5, <2>2, <3>2
    <3> QED
      BY <3>1, <3>2
  <2>9. \A i, j \in DOMAIN b :
              (i # j /\ "pax" \notin {b[i].type, b[j].type}) => b[i].path # b[j].path
    BY <2>7
  <2> HIDE DEF isfile
  <2> QED
    BY <1>1, <2>4, <2>5, <2>6, <2>8, <2>9 DEF Clean
<1>12. Clean(a) \in BOOLEAN /\ Clean(b) \in BOOLEAN /\ Admits(a, e) \in BOOLEAN
  BY DEF Clean, Admits
<1> QED
  BY <1>10, <1>11, <1>12

\* A header has to be git's.
LEMMA CleanWithHeader ==
    ASSUME NEW a \in Archive, NEW e \in Entry, e.type = "pax", NEW b, Follows(b, a, e)
    PROVE  Clean(b) = (Clean(a) /\ e.path = <<"pax_global_header">>)
<1>1. Entries(b) = Entries(a) /\ FilesOf(b) = FilesOf(a)
  <2>1. Entries(b) = Entries(a) \cup (IF e.type = "pax" THEN {} ELSE {e})
    BY EntriesGrow
  <2>2. Entries(b) = Entries(a)
    BY <2>1
  <2> QED
    BY <2>2 DEF FilesOf
<1>2. /\ Len(a) \in Nat /\ DOMAIN a = 1..Len(a) /\ DOMAIN b = 1..(Len(a) + 1)
      /\ b[Len(a) + 1] = e /\ \A i \in 1..Len(a) : b[i] = a[i]
  BY DEF Follows, Archive
<1>3. /\ \A i \in DOMAIN b : i = Len(a) + 1 \/ (i \in DOMAIN a /\ b[i] = a[i])
      /\ \A i \in DOMAIN a : i \in DOMAIN b /\ b[i] = a[i]
      /\ Len(a) + 1 \in DOMAIN b /\ b[Len(a) + 1] = e
  BY <1>2
<1>4. (\A i \in DOMAIN b : b[i].type = "pax" => b[i].path = <<"pax_global_header">>)
        <=> /\ \A i \in DOMAIN a : a[i].type = "pax" => a[i].path = <<"pax_global_header">>
            /\ e.path = <<"pax_global_header">>
  BY <1>3
<1>5. (\A i, j \in DOMAIN b :
              (i # j /\ "pax" \notin {b[i].type, b[j].type}) => b[i].path # b[j].path)
        <=> (\A i, j \in DOMAIN a :
              (i # j /\ "pax" \notin {a[i].type, a[j].type}) => a[i].path # a[j].path)
  BY <1>3
<1> QED
  BY <1>1, <1>4, <1>5 DEF Clean

\* What is refused is what IsAcceptable does not admit.
LEMMA RefusesIsNotAdmits ==
    ASSUME Limits, NEW a \in Archive, NEW s, Reads(s, a), ~s.refused, NEW e \in Entry, e.type # "pax"
    PROVE  Refuses(s, e) = ~Admits(a, e)
<1>1. /\ s \in State /\ IsFiniteSet(Entries(a)) /\ Clean(a)
      /\ s.explicit = {x.path : x \in Entries(a)}
      /\ Cardinality(s.explicit) = Cardinality(Entries(a))
      /\ IsTreeOf(s.tree, a)
      /\ s.expanded = EntryTotal(FilesOf(a))
  BY DEF Reads
<1>2. Cardinality(Entries(a)) \in Nat /\ Cardinality(Entries(a)) <= MaxEntries /\ MaxEntries \in Nat
  BY <1>1, FS_CardinalityType DEF Clean, Limits
<1>3. s.expanded \in Nat /\ e.size \in Nat /\ MaxFile \in Nat /\ MaxExpanded \in Nat
  BY <1>1 DEF State, Entry, Limits
<1>4. /\ DOMAIN s.tree = DirectoryPaths(a) \cup FilePaths(a)
      /\ \A p \in DirectoryPaths(a) : s.tree[p].kind = "directory"
      /\ \A f \in FilesOf(a) : s.tree[f.path].kind = "file"
  <2>1. /\ DOMAIN s.tree = DirectoryPaths(a) \cup FilePaths(a)
        /\ \A p \in DirectoryPaths(a) : s.tree[p] = Directory
        /\ \A f \in FilesOf(a) : s.tree[f.path] = File(f.mode, f.size, f.data)
    BY <1>1 DEF IsTreeOf
  <2>2. Directory.kind = "directory" /\ \A f : File(f.mode, f.size, f.data).kind = "file"
    BY DEF Directory, File
  <2> QED
    BY <2>1, <2>2
<1>5. \A p : p \in FilePaths(a) <=> \E f \in FilesOf(a) : f.path = p
  BY DEF FilePaths
<1>6. \A f \in FilesOf(a) : f \in Entries(a)
  BY DEF FilesOf
<1>7. e.path \in s.explicit <=> ~\A x \in Entries(a) : x.path # e.path
  BY <1>1
<1>8. Cardinality(s.explicit) = MaxEntries <=> ~(Cardinality(Entries(a)) + 1 <= MaxEntries)
  BY <1>1, <1>2
<1>9. (\E p \in ParentsOf(e.path) \cap DOMAIN s.tree : s.tree[p].kind = "file")
        <=> ~\A f \in FilesOf(a) : f.path \notin ParentsOf(e.path)
  BY <1>4, <1>5
<1>10. ASSUME e.path \notin s.explicit
       PROVE  /\ e.path \in DOMAIN s.tree <=> ~\A x \in Entries(a) : e.path \notin ParentsOf(x.path)
              /\ ~(e.path \in DOMAIN s.tree /\ s.tree[e.path].kind = "file")
  <2>1. \A x \in Entries(a) : x.path # e.path
    BY <1>7, <1>10
  <2>2. e.path \notin FilePaths(a)
    BY <1>5, <1>6, <2>1
  <2>3. e.path \in DirectoryPaths(a) <=> \E x \in Entries(a) : e.path \in ParentsOf(x.path)
    BY <2>1 DEF DirectoryPaths
  <2> QED
    BY <1>4, <2>2, <2>3
<1>11. /\ e.size > MaxFile <=> ~(e.size <= MaxFile)
       /\ s.expanded + e.size > MaxExpanded <=> ~(EntryTotal(FilesOf(a)) + e.size <= MaxExpanded)
  BY <1>1, <1>3
<1>12. SkipsLinks \in BOOLEAN
  BY DEF Limits
<1>13. Refuses(s, e) <=> ~Admits(a, e)
  <2>1. CASE e.path \in s.explicit
    BY <1>7, <2>1 DEF Refuses, Admits
  <2>2. CASE e.path \notin s.explicit
    <3>1. CASE e.type = "file"
      BY <1>7, <1>8, <1>9, <1>10, <1>11, <2>2, <3>1 DEF Refuses, Admits
    <3>2. CASE e.type = "directory"
      BY <1>7, <1>8, <1>9, <1>10, <2>2, <3>2 DEF Refuses, Admits
    <3>3. CASE e.type = "link"
      BY <1>7, <1>8, <1>9, <1>12, <2>2, <3>3 DEF Refuses, Admits
    <3>4. CASE e.type \notin {"file", "directory", "link"}
      BY <3>4 DEF Refuses, Admits
    <3> QED
      BY <3>1, <3>2, <3>3, <3>4
  <2> QED
    BY <2>1, <2>2
<1> QED
  BY <1>13 DEF Refuses, Admits

\* The tree that is made of an entry that is taken.
LEMMA TreeGrows ==
    ASSUME NEW a \in Archive, NEW s, Reads(s, a), ~s.refused, NEW e \in Entry, e.type # "pax",
           Admits(a, e), ~Refuses(s, e), NEW b, Follows(b, a, e), NEW t, Takes(s, e, t)
    PROVE  IsTreeOf(t.tree, b)
<1>1. /\ DOMAIN s.tree = DirectoryPaths(a) \cup FilePaths(a)
      /\ \A p \in DirectoryPaths(a) : s.tree[p] = Directory
      /\ \A f \in FilesOf(a) : s.tree[f.path] = File(f.mode, f.size, f.data)
  BY DEF Reads, IsTreeOf
<1>2. /\ FilesOf(b) = FilesOf(a) \cup (IF e.type = "file" THEN {e} ELSE {})
      /\ FilePaths(b) = FilePaths(a) \cup (IF e.type = "file" THEN {e.path} ELSE {})
      /\ DirectoryPaths(b) = DirectoryPaths(a)
            \cup (IF e.type = "directory" THEN {e.path} ELSE {}) \cup ParentsOf(e.path)
  BY EntriesGrow
<1>3. e.type \in {"file", "directory", "link"}
  BY DEF Admits
<1>4. /\ \A x \in Entries(a) : x.path # e.path
      /\ \A f \in FilesOf(a) : f.path \notin ParentsOf(e.path)
      /\ e.type = "file" => \A x \in Entries(a) : e.path \notin ParentsOf(x.path)
      /\ \A f \in FilesOf(a) : f \in Entries(a) /\ f.path # e.path /\ f.path \in FilePaths(a)
  BY DEF Admits, FilesOf, FilePaths
<1>5. /\ DOMAIN t.tree = DOMAIN s.tree \cup ParentsOf(e.path)
                         \cup (IF e.type = "link" THEN {} ELSE {e.path})
      /\ \A p \in ParentsOf(e.path) : t.tree[p] = Directory
      /\ e.type = "directory" => t.tree[e.path] = Directory
      /\ e.type = "file" => t.tree[e.path] = File(e.mode, e.size, e.data)
      /\ \A p \in DOMAIN s.tree \ (ParentsOf(e.path) \cup {e.path}) : t.tree[p] = s.tree[p]
      /\ e.type = "link" /\ e.path \in DOMAIN s.tree => t.tree[e.path] = s.tree[e.path]
  BY DEF Takes
<1>6. DOMAIN t.tree = DirectoryPaths(b) \cup FilePaths(b)
  BY <1>1, <1>2, <1>3, <1>5
<1>7. ASSUME NEW p \in DirectoryPaths(b) PROVE t.tree[p] = Directory
  <2>1. CASE p \in ParentsOf(e.path)
    BY <1>5, <2>1
  <2>2. CASE p \notin ParentsOf(e.path) /\ p = e.path
    <3>1. CASE e.type = "directory"
      BY <1>5, <2>2, <3>1
    <3>2. CASE e.type # "directory"
      <4>1. p \in DirectoryPaths(a)
        BY <1>2, <1>7, <2>2, <3>2
      <4>2. \E x \in Entries(a) : e.path \in ParentsOf(x.path)
        BY <1>4, <2>2, <4>1 DEF DirectoryPaths
      <4>3. e.type = "link"
        BY <1>3, <1>4, <3>2, <4>2
      <4> QED
        BY <1>1, <1>5, <2>2, <4>1, <4>3
    <3> QED
      BY <3>1, <3>2
  <2>3. CASE p \notin ParentsOf(e.path) /\ p # e.path
    <3>1. p \in DirectoryPaths(a)
      BY <1>2, <1>7, <2>3
    <3> QED
      BY <1>1, <1>5, <2>3, <3>1
  <2> QED
    BY <2>1, <2>2, <2>3
<1>8. ASSUME NEW f \in FilesOf(b) PROVE t.tree[f.path] = File(f.mode, f.size, f.data)
  <2>1. CASE f \in FilesOf(a)
    BY <1>1, <1>4, <1>5, <2>1
  <2>2. CASE f \notin FilesOf(a)
    <3>1. f = e /\ e.type = "file"
      BY <1>2, <1>8, <2>2
    <3> QED
      BY <1>5, <3>1
  <2> QED
    BY <2>1, <2>2
<1> QED
  BY <1>6, <1>7, <1>8 DEF IsTreeOf

\* What was read stays what the entries are worth, with every entry.
LEMMA ReadsOneMore ==
    ASSUME Limits, NEW a \in Archive, NEW s, Reads(s, a), NEW e \in Entry, NEW b, Follows(b, a, e)
    PROVE  Reads(ReadEntry(s, e), b)
<1> DEFINE t == ReadEntry(s, e)
<1>1. s \in State /\ IsFiniteSet(Entries(a)) /\ s.refused = ~Clean(a)
  BY DEF Reads
<1>2. /\ Entries(a) \in SUBSET Entry
      /\ Entries(b) = Entries(a) \cup (IF e.type = "pax" THEN {} ELSE {e})
      /\ FilesOf(b) = FilesOf(a) \cup (IF e.type = "file" THEN {e} ELSE {})
      /\ FilePaths(b) = FilePaths(a) \cup (IF e.type = "file" THEN {e.path} ELSE {})
      /\ DirectoryPaths(b) = DirectoryPaths(a)
           \cup (IF e.type = "directory" THEN {e.path} ELSE {})
           \cup (IF e.type = "pax" THEN {} ELSE ParentsOf(e.path))
  BY EntriesGrow
<1>3. \A c : Clean(c) \in BOOLEAN
  BY DEF Clean
<1>4. \E u : u = t
  OBVIOUS
<1>5. PICK u : u = t
  BY <1>4
<1>6. CASE e.type = "pax"
  <2>1. /\ u \in State
        /\ u.refused = (s.refused \/ e.path # <<"pax_global_header">>)
        /\ ~u.refused => u = s
    BY <1>1, <1>5, <1>6, HeaderRead
  <2>2. Clean(b) = (Clean(a) /\ e.path = <<"pax_global_header">>)
    BY <1>6, CleanWithHeader
  <2>3. u.refused = ~Clean(b)
    BY <1>1, <1>3, <2>1, <2>2
  <2>4. /\ Entries(b) = Entries(a) /\ FilesOf(b) = FilesOf(a) /\ FilePaths(b) = FilePaths(a)
        /\ DirectoryPaths(b) = DirectoryPaths(a)
    BY <1>2, <1>6
  <2>5. ~u.refused => ~s.refused /\ u = s
    BY <2>1
  <2>6. Reads(u, b)
    BY <1>1, <2>1, <2>3, <2>4, <2>5 DEF Reads, IsTreeOf
  <2> QED
    BY <1>5, <2>6
<1>7. CASE e.type # "pax"
  <2>1. u \in State /\ u.refused = Refuses(s, e) /\ (~u.refused => Takes(s, e, u))
    BY <1>1, <1>5, <1>7, EntryRead
  <2>2. Clean(b) = (Clean(a) /\ Admits(a, e))
    BY <1>1, <1>7, CleanGrows
  <2>3. u.refused = ~Clean(b)
    <3>1. CASE s.refused
      <4>1. Refuses(s, e)
        BY <3>1 DEF Refuses
      <4> QED
        BY <1>1, <1>3, <2>1, <2>2, <3>1, <4>1
    <3>2. CASE ~s.refused
      <4>1. Refuses(s, e) = ~Admits(a, e)
        BY <1>7, <3>2, RefusesIsNotAdmits
      <4>2. Admits(a, e) \in BOOLEAN
        BY DEF Admits
      <4> QED
        BY <1>1, <1>3, <2>1, <2>2, <3>2, <4>1, <4>2
    <3> QED
      BY <3>1, <3>2
  <2>4. IsFiniteSet(Entries(b))
    BY <1>1, <1>2, <1>7, FS_AddElement
  <2>5. ASSUME ~u.refused
        PROVE  /\ u.explicit = {x.path : x \in Entries(b)}
               /\ IsFiniteSet(u.explicit) /\ Cardinality(u.explicit) = Cardinality(Entries(b))
               /\ IsTreeOf(u.tree, b) /\ IsFiniteSet(DOMAIN u.tree)
               /\ u.expanded = EntryTotal(FilesOf(b))
               /\ u.expanded = DiskTotal(u.tree, FilePaths(b))
    <3>1. Takes(s, e, u) /\ ~Refuses(s, e) /\ Clean(a) /\ Admits(a, e)
      BY <1>3, <2>1, <2>2, <2>3, <2>5
    <3>2. ~s.refused
      BY <1>1, <3>1
    <3>3. /\ s.explicit = {x.path : x \in Entries(a)}
          /\ IsFiniteSet(s.explicit) /\ Cardinality(s.explicit) = Cardinality(Entries(a))
          /\ IsTreeOf(s.tree, a) /\ IsFiniteSet(DOMAIN s.tree)
          /\ s.expanded = EntryTotal(FilesOf(a))
          /\ s.expanded = DiskTotal(s.tree, FilePaths(a))
      BY <3>2 DEF Reads
    <3>4. /\ u.explicit = s.explicit \cup {e.path}
          /\ u.expanded = s.expanded + (IF e.type = "file" THEN e.size ELSE 0)
          /\ DOMAIN u.tree = DOMAIN s.tree \cup ParentsOf(e.path)
                             \cup (IF e.type = "link" THEN {} ELSE {e.path})
          /\ e.type = "file" => u.tree[e.path] = File(e.mode, e.size, e.data)
      BY <3>1 DEF Takes
    <3>5. IsTreeOf(u.tree, b)
      BY <1>7, <3>1, <3>2, TreeGrows
    <3>6. (\A x \in Entries(a) : x.path # e.path) /\ e \notin Entries(a) /\ e.path \notin s.explicit
      BY <3>1, <3>3 DEF Admits
    <3>7. u.explicit = {x.path : x \in Entries(b)}
      BY <1>2, <1>7, <3>3, <3>4
    <3>8. IsFiniteSet(u.explicit) /\ Cardinality(u.explicit) = Cardinality(Entries(b))
      <4>1. /\ IsFiniteSet(u.explicit)
            /\ Cardinality(u.explicit) = Cardinality(s.explicit) + 1
        <5> DEFINE S == s.explicit
                   x == e.path
        <5>1. IsFiniteSet(S) /\ x \notin S
          BY <3>3, <3>6
        <5> HIDE DEF S, x
        <5>2. IsFiniteSet(S \cup {x}) /\ Cardinality(S \cup {x}) = Cardinality(S) + 1
          BY <5>1, FS_AddElement
        <5> QED
          BY <3>4, <5>2 DEF S, x
      <4>2. Cardinality(Entries(b)) = Cardinality(Entries(a)) + 1
        BY <1>1, <1>2, <1>7, <3>6, FS_AddElement
      <4> QED
        BY <3>3, <4>1, <4>2
    <3>9. IsFiniteSet(DOMAIN u.tree)
      <4>1. IsFiniteSet(ParentsOf(e.path))
        BY ParentsAreFinite DEF Entry
      <4>2. IsFiniteSet(DOMAIN s.tree \cup ParentsOf(e.path))
        BY <3>3, <4>1, FS_Union
      <4>3. IsFiniteSet((DOMAIN s.tree \cup ParentsOf(e.path)) \cup {e.path})
        BY <4>2, FS_AddElement
      <4> QED
        BY <3>4, <4>2, <4>3
    <3>10. CASE e.type = "file"
      <4>1. FilesOf(b) = FilesOf(a) \cup {e} /\ FilePaths(b) = FilePaths(a) \cup {e.path}
        BY <1>2, <3>10
      <4>2. FilesOf(a) \in SUBSET Entries(a) /\ FilePaths(a) \in SUBSET s.explicit
        BY <3>3 DEF FilesOf, FilePaths
      <4>3. IsFiniteSet(FilesOf(a)) /\ IsFiniteSet(FilePaths(a)) /\ FilesOf(a) \in SUBSET Entry
        BY <1>1, <1>2, <3>3, <4>2, FS_Subset
      <4>4. e \notin FilesOf(a) /\ e.path \notin FilePaths(a)
        BY <3>6, <4>2
      <4>5. EntryTotal(FilesOf(b)) = EntryTotal(FilesOf(a)) + e.size
        BY <4>1, <4>3, <4>4, TotalsGrow
      <4>6. \A p \in FilePaths(a) : \E f \in FilesOf(a) : p = f.path
        BY DEF FilePaths
      <4>7. \A f : File(f.mode, f.size, f.data).size = f.size
        BY DEF File
      <4>8. /\ \A f \in FilesOf(a) : s.tree[f.path].size = f.size /\ f.size \in Nat
            /\ \A f \in FilesOf(b) : u.tree[f.path].size = f.size
            /\ e.size \in Nat
        <5>1. \A x \in Entry : x.size \in Nat
          BY DEF Entry
        <5>2. \A f \in FilesOf(a) : s.tree[f.path] = File(f.mode, f.size, f.data)
          BY <3>3 DEF IsTreeOf
        <5>3. \A f \in FilesOf(b) : u.tree[f.path] = File(f.mode, f.size, f.data)
          BY <3>5 DEF IsTreeOf
        <5> QED
          BY <4>3, <4>7, <5>1, <5>2, <5>3
      <4>9. /\ \A p \in FilePaths(a) : u.tree[p].size \in Nat /\ u.tree[p].size = s.tree[p].size
            /\ \A p \in FilePaths(a) \cup {e.path} : u.tree[p].size \in Nat
            /\ u.tree[e.path].size = e.size
        BY <4>1, <4>6, <4>8
      <4>10. DiskTotal(u.tree, FilePaths(a)) = DiskTotal(s.tree, FilePaths(a))
        <5> DEFINE v == u.tree
                   w == s.tree
                   P == FilePaths(a)
        <5>1. \A p \in P : v[p].size \in Nat /\ v[p].size = w[p].size
          BY <4>9
        <5>2. IsFiniteSet(P)
          BY <4>3
        <5> HIDE DEF v, w, P
        <5>3. DiskTotal(v, P) = DiskTotal(w, P)
          BY <5>1, <5>2, DiskSumIsOfSizes
        <5> QED
          BY <5>3 DEF v, w, P
      <4>11. DiskTotal(u.tree, FilePaths(b)) = DiskTotal(u.tree, FilePaths(a)) + e.size
        <5> DEFINE v == u.tree
                   P == FilePaths(a)
                   x == e.path
        <5>1. (\A p \in P \cup {x} : v[p].size \in Nat) /\ x \notin P /\ IsFiniteSet(P)
          BY <4>3, <4>4, <4>9
        <5> HIDE DEF v, P, x
        <5>2. DiskTotal(v, P \cup {x}) = DiskTotal(v, P) + v[x].size
          BY <5>1, DiskSumAdds
        <5> QED
          BY <4>1, <4>9, <5>2 DEF v, P, x
      <4>12. u.expanded = s.expanded + e.size
        BY <3>4, <3>10
      <4> QED
        BY <3>3, <3>5, <3>7, <3>8, <3>9, <4>5, <4>10, <4>11, <4>12
    <3>11. CASE e.type # "file"
      <4>1. FilesOf(b) = FilesOf(a) /\ FilePaths(b) = FilePaths(a)
        BY <1>2, <3>11
      <4>2. u.expanded = s.expanded
        BY <1>1, <3>4, <3>11 DEF State
      <4>3. \A p \in FilePaths(a) : u.tree[p].size \in Nat /\ u.tree[p].size = s.tree[p].size
        <5>1. \A f \in FilesOf(a) : /\ s.tree[f.path] = File(f.mode, f.size, f.data)
                                    /\ u.tree[f.path] = File(f.mode, f.size, f.data)
          BY <3>3, <3>5, <4>1 DEF IsTreeOf
        <5>2. \A p \in FilePaths(a) : \E f \in FilesOf(a) : p = f.path
          BY DEF FilePaths
        <5>3. \A f \in FilesOf(a) : File(f.mode, f.size, f.data).size \in Nat
          BY <1>2 DEF File, FilesOf, Entry
        <5> QED
          BY <5>1, <5>2, <5>3
      <4>4. IsFiniteSet(FilePaths(a))
        <5>1. FilePaths(a) \in SUBSET s.explicit
          BY <3>3 DEF FilesOf, FilePaths
        <5> QED
          BY <3>3, <5>1, FS_Subset
      <4>5. DiskTotal(u.tree, FilePaths(a)) = DiskTotal(s.tree, FilePaths(a))
        <5> DEFINE v == u.tree
                   w == s.tree
                   P == FilePaths(a)
        <5>1. \A p \in P : v[p].size \in Nat /\ v[p].size = w[p].size
          BY <4>3
        <5>2. IsFiniteSet(P)
          BY <4>4
        <5> HIDE DEF v, w, P
        <5>3. DiskTotal(v, P) = DiskTotal(w, P)
          BY <5>1, <5>2, DiskSumIsOfSizes
        <5> QED
          BY <5>3 DEF v, w, P
      <4> QED
        BY <3>3, <3>5, <3>7, <3>8, <3>9, <4>1, <4>2, <4>5
    <3> QED
      BY <3>10, <3>11
  <2>6. Reads(u, b)
    BY <2>1, <2>3, <2>4, <2>5 DEF Reads
  <2> QED
    BY <1>5, <2>6
<1> QED
  BY <1>6, <1>7

\* Nothing was read of no entries.
LEMMA ReadsNothing ==
    ASSUME Limits
    PROVE  Reads(NothingRead, <<>>)
<1> DEFINE a == <<>>
<1>1. DOMAIN a = {}
  OBVIOUS
<1> HIDE DEF a
<1>2. Entries(a) = {}
  BY <1>1 DEF Entries
<1>3. FilesOf(a) = {} /\ FilePaths(a) = {} /\ DirectoryPaths(a) = {}
  BY <1>2 DEF FilesOf, FilePaths, DirectoryPaths
<1>4. IsFiniteSet({}) /\ Cardinality({}) = 0
  BY FS_EmptySet
<1>5. EntryTotal({}) = 0
  BY SumsOfNothing
<1> DEFINE tree == NothingRead.tree
<1>6. /\ NothingRead.refused = FALSE /\ NothingRead.explicit = {} /\ NothingRead.expanded = 0
      /\ DOMAIN tree = {} /\ tree \in [{} -> Node]
  BY DEF NothingRead
<1>7. NothingRead \in State
  <2>1. << >> \in Tree
    <3>1. {} \in SUBSET Path /\ << >> \in [{} -> Node]
      OBVIOUS
    <3> QED
      BY <3>1 DEF Tree
  <2> HIDE DEF tree
  <2> QED
    BY <2>1 DEF NothingRead, State
<1> HIDE DEF tree
<1>8. DiskTotal(tree, {}) = 0
  BY SumsOfNothing
<1>9. Clean(a)
  BY <1>1, <1>2, <1>3, <1>4, <1>5 DEF Clean, Limits
<1>10. IsTreeOf(tree, a)
  BY <1>3, <1>6 DEF IsTreeOf
<1>11. {e.path : e \in Entries(a)} = {}
  BY <1>2
<1>12. Reads(NothingRead, a)
  BY <1>2, <1>3, <1>4, <1>5, <1>6, <1>7, <1>8, <1>9, <1>10, <1>11 DEF Reads, tree
<1> QED
  BY <1>12 DEF a

-----------------------------------------------------------------------------
(* What the tree is worth, and what is read of the object made of it.      *)

\* The tree of the entries is the one that IsAcceptable means.
LEMMA TreeIsWhole ==
    ASSUME NEW a, NEW D, NEW t \in [D -> Node], IsTreeOf(t, a)
    PROVE  t = WholeTree(a)
<1> DEFINE d == [p \in DirectoryPaths(a) |-> Directory]
           of(p) == CHOOSE e \in FilesOf(a) : e.path = p
           f == [p \in FilePaths(a) |-> File(of(p).mode, of(p).size, of(p).data)]
<1>1. WholeTree(a) = With(d, f)
  BY DEF WholeTree, DirectoryPaths, FilePaths
<1>2. WholeTree(a) = [p \in DirectoryPaths(a) \cup FilePaths(a) |->
                        IF p \in DirectoryPaths(a) THEN Directory
                        ELSE File(of(p).mode, of(p).size, of(p).data)]
  <2> HIDE DEF of
  <2> QED
    BY <1>1 DEF With
<1>3. /\ DOMAIN t = DirectoryPaths(a) \cup FilePaths(a)
      /\ \A p \in DirectoryPaths(a) : t[p] = Directory
      /\ \A e \in FilesOf(a) : t[e.path] = File(e.mode, e.size, e.data)
  BY DEF IsTreeOf
<1>4. ASSUME NEW p \in FilePaths(a) PROVE t[p] = File(of(p).mode, of(p).size, of(p).data)
  <2>1. \E e \in FilesOf(a) : e.path = p
    BY DEF FilePaths
  <2>2. of(p) \in FilesOf(a) /\ of(p).path = p
    BY <2>1
  <2> HIDE DEF of
  <2> QED
    BY <1>3, <2>2
<1>5. t = [p \in DOMAIN t |-> t[p]]
  OBVIOUS
<1> HIDE DEF of
<1> QED
  BY <1>2, <1>3, <1>4, <1>5

\* The paths of a tree are safe, as those of the entries are.
LEMMA TreePathsAreSafe ==
    ASSUME NEW a \in Archive, Clean(a), NEW D, NEW tree \in [D -> Node], IsTreeOf(tree, a)
    PROVE  \A p \in D : PathIsSafe(p)
<1> SUFFICES ASSUME NEW p \in D PROVE PathIsSafe(p)
  OBVIOUS
<1>1. D = DirectoryPaths(a) \cup FilePaths(a)
  BY DEF IsTreeOf
<1>2. \A e \in Entries(a) : PathIsSafe(e.path) /\ e.path \in Path
  <2>1. Entries(a) \in SUBSET Entry
    BY DEF Entries, Archive
  <2> QED
    BY <2>1 DEF Clean, Entry
<1>3. \E e \in Entries(a) : p = e.path \/ p \in ParentsOf(e.path)
  BY <1>1 DEF DirectoryPaths, FilePaths, FilesOf
<1> QED
  BY <1>2, <1>3, ParentsArePaths

\* An archive has finitely many entries.
LEMMA EntriesAreFinite == ASSUME NEW a \in Archive PROVE IsFiniteSet(Entries(a))
<1> DEFINE D == {i \in DOMAIN a : a[i].type # "pax"}
<1>1. a \in [1..Len(a) -> Entry] /\ Len(a) \in Nat
  BY DEF Archive
<1>2. IsFiniteSet(1..Len(a))
  BY <1>1, FS_Interval
<1>3. D \in SUBSET (1..Len(a))
  BY <1>1
<1>4. IsFiniteSet(D)
  BY <1>2, <1>3, FS_Subset
<1> HIDE DEF D
<1>5. IsFiniteSet({a[i] : i \in D})
  <2> DEFINE f == [i \in D |-> a[i]]
  <2>1. f \in Surjection(D, {a[i] : i \in D})
    BY DEF Surjection
  <2> QED
    BY <1>4, <2>1, FS_Surjection
<1> QED
  BY <1>5 DEF Entries, D

\* What is read of a tree that was written and sealed is that tree.
LEMMA ObjectIsRead ==
    ASSUME Limits, NEW a \in Archive, Clean(a), NEW D \in SUBSET Path, NEW tree \in [D -> Node],
           IsTreeOf(tree, a), IsFiniteSet(DOMAIN tree),
           EntryTotal(FilesOf(a)) = DiskTotal(tree, FilePaths(a)),
           Cardinality(DOMAIN tree) <= MaxEntries,
           NEW leftover, NEW excluded, LiesBeside(leftover, excluded),
           excluded \cap DOMAIN WholeTree(a) = {}
    PROVE  PlanDirectory(With(Materialize(tree), leftover), excluded) = [refused |-> FALSE, tree |-> tree]
<1> DEFINE disk == With(Materialize(tree), leftover)
           visited == {p \in DOMAIN disk : \A i \in DOMAIN p : p[i] \notin Reserved}
           planned == visited \ excluded
           files == {p \in planned : disk[p].kind = "file"}
<1>1. /\ DOMAIN tree = D /\ D = DirectoryPaths(a) \cup FilePaths(a)
      /\ \A p \in DirectoryPaths(a) : tree[p] = Directory
      /\ \A e \in FilesOf(a) : tree[e.path] = File(e.mode, e.size, e.data)
  BY DEF IsTreeOf
<1>0. \A e \in FilesOf(a) : tree[e.path].kind = "file" /\ tree[e.path].size = e.size
  <2>1. \A e : File(e.mode, e.size, e.data).kind = "file" /\ File(e.mode, e.size, e.data).size = e.size
    BY DEF File
  <2> QED
    BY <1>1, <2>1
<1>2. /\ DOMAIN disk = D \cup DOMAIN leftover
      /\ \A p \in D : disk[p] = Materialize(tree)[p]
      /\ \A p \in DOMAIN leftover \ D : disk[p] = leftover[p]
  BY <1>1 DEF With, Materialize
<1>3. tree = WholeTree(a)
  BY TreeIsWhole
<1>4. ASSUME NEW p \in D PROVE PathIsSafe(p) /\ p \notin excluded
  <2>1. p \notin excluded
    BY <1>1, <1>3
  <2> QED
    BY <2>1, TreePathsAreSafe
<1>5. ASSUME NEW p \in D
      PROVE  /\ disk[p].kind = tree[p].kind /\ disk[p].size = tree[p].size
             /\ disk[p].data = tree[p].data /\ tree[p].size \in Nat
             /\ tree[p].kind \in {"file", "directory"}
             /\ disk[p].mode = IF tree[p].kind = "directory" \/ IsExecutable(tree[p].mode)
                               THEN "555" ELSE "444"
  <2>1. tree[p] \in Node
    OBVIOUS
  <2>2. disk[p] = [tree[p] EXCEPT !.mode = IF tree[p].kind = "directory" \/ IsExecutable(tree[p].mode)
                                           THEN "555" ELSE "444"]
    BY <1>1, <1>2 DEF Materialize
  <2> HIDE DEF disk
  <2> QED
    BY <2>1, <2>2 DEF Node
<1>6. ASSUME NEW p \in DOMAIN disk, p \notin D
      PROVE  \/ \E i \in DOMAIN p : p[i] \in Reserved
             \/ p \in excluded /\ PathIsSafe(p) /\ disk[p].kind = "file"
  BY <1>2, <1>6 DEF LiesBeside
<1> HIDE DEF disk
<1>7. \A p \in D : \A i \in DOMAIN p : p[i] \notin Reserved
  BY <1>4 DEF PathIsSafe
<1>8. planned = D
  BY <1>2, <1>4, <1>6, <1>7
<1>9. /\ \A p \in visited : PathIsSafe(p)
      /\ \A p \in visited \cap excluded : disk[p].kind = "file"
  BY <1>4, <1>6
<1>10. files = FilePaths(a)
  <2>1. ASSUME NEW p \in FilePaths(a) PROVE p \in files
    <3>1. PICK e \in FilesOf(a) : p = e.path
      BY DEF FilePaths
    <3>2. tree[p].kind = "file"
      BY <1>0, <3>1
    <3> QED
      BY <1>1, <1>5, <1>8, <3>2
  <2>2. ASSUME NEW p \in files PROVE p \in FilePaths(a)
    <3>1. p \in D /\ tree[p].kind = "file"
      BY <1>5, <1>8, <2>2
    <3>2. p \notin DirectoryPaths(a)
      BY <1>1, <3>1 DEF Directory
    <3> QED
      BY <1>1, <3>1, <3>2
  <2> HIDE DEF files
  <2> QED
    BY <2>1, <2>2
<1>11. ASSUME NEW p \in files
       PROVE  disk[p].size \in Nat /\ disk[p].size = tree[p].size /\ ~(disk[p].size > MaxFile)
  <2>1. PICK e \in FilesOf(a) : p = e.path
    BY <1>10, <1>11 DEF FilePaths
  <2>2. p \in D
    BY <1>8, <1>11
  <2>3. e \in Entries(a) /\ e.type = "file"
    BY DEF FilesOf
  <2>4. e.size <= MaxFile
    BY <2>3 DEF Clean
  <2>5. tree[p].size = e.size
    BY <1>0, <2>1
  <2>6. disk[p].size = e.size /\ e.size \in Nat /\ MaxFile \in Nat
    BY <1>5, <2>2, <2>5 DEF Limits
  <2> QED
    BY <2>4, <2>5, <2>6
<1>12. ~(MapThenSumSet(LAMBDA p : disk[p].size, files) > MaxExpanded)
  <2>1. IsFiniteSet(files)
    <3>1. files \in SUBSET DOMAIN tree
      BY <1>1, <1>10
    <3> QED
      BY <3>1, FS_Subset
  <2> HIDE DEF files
  <2>2. DiskTotal(disk, files) = DiskTotal(tree, files)
    BY <1>11, <2>1, DiskSumIsOfSizes
  <2>3. DiskTotal(disk, files) = EntryTotal(FilesOf(a))
    BY <1>10, <2>2
  <2>4. EntryTotal(FilesOf(a)) <= MaxExpanded /\ MaxExpanded \in Nat
    BY DEF Clean, Limits
  <2>5. EntryTotal(FilesOf(a)) \in Nat
    <3>1. IsFiniteSet(FilesOf(a)) /\ FilesOf(a) \in SUBSET Entry
      <4>1. Entries(a) \in SUBSET Entry /\ FilesOf(a) \in SUBSET Entries(a)
        BY DEF Entries, Archive, FilesOf
      <4>2. IsFiniteSet(Entries(a))
        BY EntriesAreFinite
      <4> QED
        BY <4>1, <4>2, FS_Subset
    <3>2. CASE FilesOf(a) = {}
      BY <3>2, SumsOfNothing
    <3>3. CASE FilesOf(a) # {}
      <4>1. PICK e \in FilesOf(a) : TRUE
        BY <3>3
      <4> QED
        BY <3>1, <4>1, TotalsGrow
    <3> QED
      BY <3>2, <3>3
  <2> QED
    BY <2>3, <2>4, <2>5 DEF DiskTotal
<1>13. ~(Cardinality(planned) > MaxEntries)
  <2>1. Cardinality(D) \in Nat /\ MaxEntries \in Nat
    BY <1>1, FS_CardinalityType DEF Limits
  <2>2. Cardinality(D) <= MaxEntries
    BY <1>1
  <2>3. Cardinality(planned) = Cardinality(D)
    BY <1>8
  <2> HIDE DEF planned
  <2> QED
    BY <2>1, <2>2, <2>3
<1>14. [p \in planned |-> IF disk[p].kind = "file" THEN File(disk[p].mode, disk[p].size, disk[p].data)
                          ELSE Directory] = tree
  <2>1. ASSUME NEW p \in D
        PROVE  (IF disk[p].kind = "file" THEN File(disk[p].mode, disk[p].size, disk[p].data)
                ELSE Directory) = tree[p]
    <3>1. CASE tree[p].kind = "file"
      <4>1. p \in FilePaths(a)
        BY <1>1, <3>1 DEF Directory
      <4>2. PICK e \in FilesOf(a) : p = e.path
        BY <4>1 DEF FilePaths
      <4>3. tree[p] = File(e.mode, e.size, e.data)
        BY <1>1, <4>2
      <4>4. /\ tree[p] = [kind |-> "file", mode |-> tree[p].mode,
                          size |-> tree[p].size, data |-> tree[p].data]
            /\ tree[p].mode \in {"755", "644"}
        BY <4>3 DEF File
      <4>5. tree[p].mode = IF IsExecutable(disk[p].mode) THEN "755" ELSE "644"
        BY <1>5, <3>1, <4>4 DEF IsExecutable
      <4> QED
        BY <1>5, <3>1, <4>4, <4>5 DEF File
    <3>2. CASE tree[p].kind = "directory"
      <4>1. p \notin FilePaths(a)
        BY <1>0, <3>2 DEF FilePaths
      <4> QED
        BY <1>1, <1>5, <3>2, <4>1
    <3> QED
      BY <1>5, <3>1, <3>2
  <2>2. tree = [p \in D |-> tree[p]]
    OBVIOUS
  <2> QED
    BY <1>8, <2>1, <2>2
<1>15. PlanDirectory(disk, excluded) =
        [refused |->
            \/ \E p \in visited : ~PathIsSafe(p)
            \/ \E p \in visited \cap excluded : disk[p].kind # "file"
            \/ \E p \in planned : disk[p].kind \notin {"file", "directory"}
            \/ \E p \in files : disk[p].size > MaxFile
            \/ MapThenSumSet(LAMBDA p : disk[p].size, files) > MaxExpanded
            \/ Cardinality(planned) > MaxEntries,
         tree |-> [p \in planned |->
                    IF disk[p].kind = "file"
                    THEN File(disk[p].mode, disk[p].size, disk[p].data) ELSE Directory]]
  BY DEF PlanDirectory
<1>16. \A p \in planned : disk[p].kind \in {"file", "directory"}
  BY <1>5, <1>8
<1>17. (\/ \E p \in visited : ~PathIsSafe(p)
        \/ \E p \in visited \cap excluded : disk[p].kind # "file"
        \/ \E p \in planned : disk[p].kind \notin {"file", "directory"}
        \/ \E p \in files : disk[p].size > MaxFile
        \/ MapThenSumSet(LAMBDA p : disk[p].size, files) > MaxExpanded
        \/ Cardinality(planned) > MaxEntries) = FALSE
  <2> HIDE DEF visited, planned, files
  <2> QED
    BY <1>9, <1>11, <1>12, <1>13, <1>16
<1> HIDE DEF visited, planned, files
<1>18. PlanDirectory(disk, excluded) = [refused |-> FALSE, tree |-> tree]
  BY <1>14, <1>15, <1>17
<1> QED
  BY <1>18 DEF disk

-----------------------------------------------------------------------------
(* An archive that is parsed entry by entry.                               *)

Prefix(a, i) == [j \in 1..i |-> a[j]]

\* The first entries of an archive are an archive.
LEMMA PrefixGrows ==
    ASSUME NEW a \in Archive, NEW i \in 1..Len(a)
    PROVE  /\ Prefix(a, i - 1) \in Archive /\ a[i] \in Entry
           /\ Follows(Prefix(a, i), Prefix(a, i - 1), a[i])
<1> DEFINE b == Prefix(a, i)
           c == Prefix(a, i - 1)
<1>1. i \in Nat /\ i - 1 \in Nat /\ \A j \in 1..i : a[j] \in Entry
  BY DEF Archive
<1>2. b \in Seq(Entry) /\ Len(b) = i /\ c \in Seq(Entry) /\ Len(c) = i - 1
  BY <1>1 DEF Prefix
<1>3. b[i] = a[i] /\ \A j \in 1..(i - 1) : b[j] = c[j]
  BY <1>1 DEF Prefix
<1> HIDE DEF b, c
<1>4. c \in Archive /\ a[i] \in Entry /\ Follows(b, c, a[i])
  BY <1>1, <1>2, <1>3 DEF Follows, Archive
<1> QED
  BY <1>4 DEF b, c

\* It begins with none of them and ends with all.
LEMMA PrefixEnds ==
    ASSUME NEW a \in Archive
    PROVE  Prefix(a, 0) = <<>> /\ Prefix(a, Len(a)) = a /\ Len(a) \in Nat
<1>1. a \in Seq(Entry)
  BY DEF Archive
<1> QED
  BY <1>1 DEF Prefix

\* Parsing may end at the first entry that is refused: the archive is not clean.
LEMMA RefusedEarly ==
    ASSUME Limits, NEW a \in Archive, NEW n \in 0..Len(a), NEW s,
           Reads(s, Prefix(a, n)), s.refused
    PROVE  ~Clean(a)
<1> DEFINE I == {k \in Nat : \E u : Reads(u, Prefix(a, n + k)) /\ u.refused}
           m == Len(a) - n
<1>1. Len(a) \in Nat /\ n \in Nat /\ m \in Nat /\ n + m = Len(a) /\ n + 0 = n
  BY PrefixEnds
<1>2. 0 \in I
  BY <1>1
<1>3. ASSUME NEW k \in 1..m, k - 1 \in I PROVE k \in I
  <2>1. PICK u : Reads(u, Prefix(a, n + (k - 1))) /\ u.refused
    BY <1>3
  <2> DEFINE i == n + k
             t == ReadEntry(u, a[i])
  <2>2. i \in 1..Len(a) /\ n + (k - 1) = i - 1 /\ k \in Nat
    BY <1>1
  <2>3. Reads(u, Prefix(a, i - 1))
    BY <2>1, <2>2
  <2> HIDE DEF i
  <2>4. Reads(t, Prefix(a, i))
    BY <2>2, <2>3, PrefixGrows, ReadsOneMore
  <2>5. t.refused
    <3>1. u \in State /\ t = Refuse(u)
      BY <2>1 DEF Reads, ReadEntry
    <3> QED
      BY <3>1, Refused
  <2> QED
    BY <2>2, <2>4, <2>5 DEF i
<1>4. m \in I
  <2> HIDE DEF I, m
  <2>1. 0..m \subseteq I
    BY <1>1, <1>2, <1>3, Inductive
  <2> QED
    BY <1>1, <2>1
<1>5. PICK u : Reads(u, Prefix(a, n + m)) /\ u.refused
  BY <1>4
<1>6. Reads(u, a)
  BY <1>1, <1>5, PrefixEnds
<1> QED
  BY <1>5, <1>6 DEF Reads

\* A tree that is read of an archive that is accepted.
Accepted(tree, a) ==
    /\ IsAcceptable(a) /\ Clean(a) /\ tree = WholeTree(a) /\ IsTreeOf(tree, a)
    /\ \E D \in SUBSET Path : tree \in [D -> Node]
    /\ IsFiniteSet(DOMAIN tree) /\ Cardinality(DOMAIN tree) <= MaxEntries
    /\ EntryTotal(FilesOf(a)) = DiskTotal(tree, FilePaths(a))

\* An archive that is not clean is not acceptable.
LEMMA AcceptableIsClean ==
    ASSUME NEW a
    PROVE  IsAcceptable(a) = (Clean(a) /\ Cardinality(DOMAIN WholeTree(a)) <= MaxEntries)
BY DEF IsAcceptable, Clean, EntryTotal

\* What is refused at the end of it is what IsAcceptable refuses.
LEMMA ReadIsAccepted ==
    ASSUME Limits, NEW a \in Archive, NEW s, Reads(s, a)
    PROVE  /\ ReadToTheEnd(s).refused => ~IsAcceptable(a)
           /\ ~ReadToTheEnd(s).refused => ReadToTheEnd(s) = s /\ Accepted(s.tree, a)
<1> DEFINE t == ReadToTheEnd(s)
<1>1. t = IF Cardinality(DOMAIN s.tree) > MaxEntries THEN Refuse(s) ELSE s
  BY DEF ReadToTheEnd
<1>2. s \in State /\ s.refused = ~Clean(a)
  BY DEF Reads
<1>3. Refuse(s).refused
  BY <1>2, Refused
<1>4. PICK D \in SUBSET Path : s.tree \in [D -> Node]
  BY <1>2 DEF State, Tree
<1> HIDE DEF t
<1>5. CASE s.refused
  <2>1. t.refused /\ ~IsAcceptable(a)
    BY <1>1, <1>2, <1>3, <1>5, AcceptableIsClean
  <2> QED
    BY <2>1 DEF t
<1>6. CASE ~s.refused
  <2>1. /\ IsTreeOf(s.tree, a) /\ IsFiniteSet(DOMAIN s.tree)
        /\ EntryTotal(FilesOf(a)) = DiskTotal(s.tree, FilePaths(a))
        /\ Clean(a)
    <3>1. Clean(a) \in BOOLEAN
      BY DEF Clean
    <3> QED
      BY <1>2, <1>6, <3>1 DEF Reads
  <2>2. s.tree = WholeTree(a)
    BY <1>4, <2>1, TreeIsWhole
  <2>3. Cardinality(DOMAIN s.tree) \in Nat /\ MaxEntries \in Nat
    BY <2>1, FS_CardinalityType DEF Limits
  <2>4. CASE Cardinality(DOMAIN s.tree) > MaxEntries
    <3>1. t.refused
      BY <1>1, <1>3, <2>4
    <3>2. ~IsAcceptable(a)
      <4>1. ~(Cardinality(DOMAIN s.tree) <= MaxEntries)
        BY <2>3, <2>4
      <4> QED
        BY <2>2, <4>1, AcceptableIsClean
    <3> QED
      BY <3>1, <3>2 DEF t
  <2>5. CASE ~(Cardinality(DOMAIN s.tree) > MaxEntries)
    <3>1. t = s /\ Cardinality(DOMAIN s.tree) <= MaxEntries
      BY <1>1, <2>3, <2>5
    <3>2. IsAcceptable(a)
      BY <2>1, <2>2, <3>1, AcceptableIsClean
    <3>3. Accepted(s.tree, a)
      BY <1>4, <2>1, <2>2, <3>1, <3>2 DEF Accepted
    <3> QED
      BY <1>6, <3>1, <3>3 DEF t
  <2> QED
    BY <2>4, <2>5
<1> QED
  BY <1>5, <1>6

-----------------------------------------------------------------------------
(* Every behaviour.                                                        *)

\* The tree that was written, and what tools left beside it.
Left(disk, tree) ==
    \E leftover : LiesBeside(leftover, Excluded) /\ disk = With(Materialize(tree), leftover)

\* What was parsed is read, what was read is accepted, what was accepted is on disk.
TreeInv ==
    /\ archive \in Archives
    /\ parsed \in 0..Len(archive)
    /\ phase \in {"parse", "planned", "refused", "sealed"}
    /\ phase = "parse" => Reads(read, Prefix(archive, parsed))
    /\ phase = "refused" => ~IsAcceptable(archive)
    /\ phase \in {"planned", "sealed"} => Accepted(read.tree, archive)
    /\ phase = "sealed" => Left(onDisk, read.tree)
    /\ \A verdict \in verdicts :
          verdict = [refused |-> FALSE, tree |-> WholeTree(archive)]

\* It holds of every archive before it is parsed.
LEMMA TreeInitInv == TreeInit => TreeInv
<1> SUFFICES ASSUME TreeInit PROVE TreeInv
  OBVIOUS
<1>1. archive \in Archive /\ Limits
  BY TreeAssumption DEF TreeInit
<1>2. Reads(read, Prefix(archive, parsed)) /\ parsed \in 0..Len(archive)
  BY <1>1, ReadsNothing, PrefixEnds DEF TreeInit
<1> QED
  BY <1>2 DEF TreeInit, TreeInv

\* One entry more is read.
LEMMA ParseEntryInv == TreeInv /\ ParseEntry => TreeInv'
<1> SUFFICES ASSUME TreeInv, ParseEntry PROVE TreeInv'
  OBVIOUS
<1> DEFINE i == parsed + 1
<1>1. archive \in Archive /\ Limits /\ Len(archive) \in Nat
  BY TreeAssumption, PrefixEnds DEF TreeInv
<1>2. i \in 1..Len(archive) /\ i - 1 = parsed /\ i \in 0..Len(archive)
  BY <1>1 DEF TreeInv, ParseEntry
<1>3. Reads(read, Prefix(archive, i - 1))
  BY <1>2 DEF TreeInv, ParseEntry
<1>4. parsed' = i /\ read' = ReadEntry(read, archive[i])
  BY DEF ParseEntry
<1> HIDE DEF i
<1>5. Reads(read', Prefix(archive, i))
  BY <1>1, <1>2, <1>3, <1>4, PrefixGrows, ReadsOneMore
<1> QED
  BY <1>2, <1>4, <1>5 DEF TreeInv, ParseEntry

\* The archive is accepted or refused.
LEMMA ParseEndsInv == TreeInv /\ ParseEnds => TreeInv'
<1> SUFFICES ASSUME TreeInv, ParseEnds PROVE TreeInv'
  OBVIOUS
<1>1. archive \in Archive /\ Limits /\ parsed \in 0..Len(archive)
  BY TreeAssumption DEF TreeInv
<1>2. Reads(read, Prefix(archive, parsed))
  BY DEF TreeInv, ParseEnds
<1>3. /\ read'.refused => ~IsAcceptable(archive)
      /\ ~read'.refused => Accepted(read'.tree, archive)
  <2>1. read' = ReadToTheEnd(read)
    BY DEF ParseEnds
  <2>2. CASE parsed = Len(archive)
    <3>1. Reads(read, archive)
      BY <1>1, <1>2, <2>2, PrefixEnds
    <3> QED
      BY <1>1, <2>1, <3>1, ReadIsAccepted
  <2>3. CASE read.refused
    <3>1. ~IsAcceptable(archive)
      BY <1>1, <1>2, <2>3, RefusedEarly, AcceptableIsClean
    <3>2. read'.refused
      <4>1. read \in State
        BY <1>2 DEF Reads
      <4>2. Refuse(read).refused
        BY <4>1, Refused
      <4> QED
        BY <2>1, <2>3, <4>2 DEF ReadToTheEnd
    <3> QED
      BY <3>1, <3>2
  <2> QED
    BY <2>2, <2>3 DEF ParseEnds
<1> QED
  BY <1>3 DEF TreeInv, ParseEnds

\* An archive that is fetched again is read from its first entry.
LEMMA FetchAgainInv == TreeInv /\ FetchAgain => TreeInv'
<1> SUFFICES ASSUME TreeInv, FetchAgain PROVE TreeInv'
  OBVIOUS
<1>1. archive \in Archive /\ Limits
  BY TreeAssumption DEF TreeInv
<1>2. Reads(read', Prefix(archive, parsed')) /\ parsed' \in 0..Len(archive)
  BY <1>1, ReadsNothing, PrefixEnds DEF FetchAgain
<1> QED
  BY <1>2 DEF TreeInv, FetchAgain

\* Nothing lies beside a tree that was just written.
LEMMA WriteTreeInv == TreeInv /\ WriteTree => TreeInv'
<1> SUFFICES ASSUME TreeInv, WriteTree PROVE TreeInv'
  OBVIOUS
<1>1. onDisk' = With(Materialize(read.tree), << >>)
  <2>1. onDisk' = Materialize(read.tree)
    BY DEF WriteTree
  <2>2. DOMAIN << >> = {}
    OBVIOUS
  <2> QED
    BY <2>1, <2>2 DEF With, Materialize
<1>2. LiesBeside(<< >>, Excluded)
  BY DEF LiesBeside
<1>3. Left(onDisk, read.tree)'
  BY <1>1, <1>2 DEF Left, WriteTree
<1> QED
  BY <1>3 DEF TreeInv, WriteTree

\* What tools leave is beside the tree, and may replace what they left before.
LEMMA ToolsWorkInv == TreeInv /\ ToolsWork => TreeInv'
<1> SUFFICES ASSUME TreeInv, ToolsWork PROVE TreeInv'
  OBVIOUS
<1> DEFINE written == Materialize(read.tree)
<1>1. PICK new \in Leftovers : onDisk' = With(new, onDisk)
  BY DEF ToolsWork
<1>2. PICK old : LiesBeside(old, Excluded) /\ onDisk = With(written, old)
  BY DEF TreeInv, ToolsWork, Left
<1>3. LiesBeside(new, Excluded)
  BY TreeAssumption
<1>4. \A p \in DOMAIN written : p \notin DOMAIN new
  <2>1. /\ Accepted(read.tree, archive) /\ archive \in Archive
        /\ Excluded \cap DOMAIN WholeTree(archive) = {}
    BY TreeAssumption DEF TreeInv, ToolsWork
  <2>2. PICK D \in SUBSET Path : read.tree \in [D -> Node]
    BY <2>1 DEF Accepted
  <2>3. \A p \in D : PathIsSafe(p)
    BY <2>1, <2>2, TreePathsAreSafe DEF Accepted
  <2>4. DOMAIN written = D /\ D = DOMAIN WholeTree(archive)
    BY <2>1, <2>2 DEF Accepted, Materialize
  <2>5. \A p \in D : p \notin Excluded /\ \A i \in DOMAIN p : p[i] \notin Reserved
    BY <2>1, <2>3, <2>4 DEF PathIsSafe
  <2> QED
    BY <1>3, <2>4, <2>5 DEF LiesBeside
<1> HIDE DEF written
<1>5. onDisk' = With(written, With(new, old))
  <2>1. onDisk' = With(new, With(written, old))
    BY <1>1, <1>2
  <2> QED
    BY <1>4, <2>1 DEF With
<1>6. LiesBeside(With(new, old), Excluded)
  BY <1>2, <1>3 DEF LiesBeside, With
<1>7. Left(onDisk, read.tree)'
  BY <1>5, <1>6 DEF Left, ToolsWork, written
<1> QED
  BY <1>7 DEF TreeInv, ToolsWork

\* A verification finds the tree that was accepted.
LEMMA VerifyTreeInv == TreeInv /\ VerifyTree => TreeInv'
<1> SUFFICES ASSUME TreeInv, VerifyTree PROVE TreeInv'
  OBVIOUS
<1> DEFINE tree == read.tree
<1>1. /\ Accepted(tree, archive) /\ archive \in Archive /\ Limits
      /\ Excluded \cap DOMAIN WholeTree(archive) = {}
  BY TreeAssumption DEF TreeInv, VerifyTree
<1>2. PICK leftover : /\ LiesBeside(leftover, Excluded)
                      /\ onDisk = With(Materialize(tree), leftover)
  BY DEF TreeInv, VerifyTree, Left
<1> HIDE DEF tree
<1>3. PICK D \in SUBSET Path : tree \in [D -> Node]
  BY <1>1 DEF Accepted
<1>4. PlanDirectory(With(Materialize(tree), leftover), Excluded)
        = [refused |-> FALSE, tree |-> tree]
  BY <1>1, <1>2, <1>3, ObjectIsRead DEF Accepted
<1>5. PlanDirectory(onDisk, Excluded) = [refused |-> FALSE, tree |-> WholeTree(archive)]
  BY <1>1, <1>2, <1>4 DEF Accepted
<1> QED
  BY <1>5 DEF TreeInv, VerifyTree

\* Every step keeps it.
LEMMA TreeNextInv == TreeInv /\ [TreeNext]_treeVars => TreeInv'
<1> SUFFICES ASSUME TreeInv, [TreeNext]_treeVars PROVE TreeInv'
  OBVIOUS
<1>1. CASE UNCHANGED treeVars
  BY <1>1 DEF treeVars, TreeInv, Left
<1> QED
  BY <1>1, ParseEntryInv, ParseEndsInv, FetchAgainInv,
     WriteTreeInv, ToolsWorkInv, VerifyTreeInv DEF TreeNext

\* An archive is accepted, and read as one tree, by what its entries say and not
\* by the order they come in, for archives of any length and any limits; and the
\* tree that is written of it is verified as that tree however often, whatever
\* tools leave beside it.
THEOREM ArchivesAreNormalized == TreeSpec => []ArchiveIsNormalized
<1>1. TreeInv => ArchiveIsNormalized
  BY DEF TreeInv, ArchiveIsNormalized, Accepted
<1>2. QED
  BY <1>1, TreeInitInv, TreeNextInv, PTL DEF TreeSpec
=============================================================================
