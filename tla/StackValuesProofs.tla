-------------------------- MODULE StackValuesProofs --------------------------
(***************************************************************************)
(* Proofs about StackValues, for blocks of any length: a value whose load  *)
(* is not counted is kept alive by its local for as long as the stack      *)
(* holds it, what is handed over is owned, and the unwinder releases       *)
(* nothing twice.                                                          *)
(*                                                                         *)
(* The invariant keeps what the backward pass knew at every unit, h, which *)
(* the code forgets as it goes: while the block is emitted and run it says *)
(* until when each value on the stack is needed.                           *)
(***************************************************************************)
EXTENDS StackValues, FiniteSetTheorems, WellFoundedInduction, TLAPS

-----------------------------------------------------------------------------
(* Counting.                                                               *)

LEMMA Smallest ==
  ASSUME NEW S \in SUBSET Nat, S # {}
  PROVE  \E x \in S : \A y \in S : x <= y
<1> DEFINE less == {p \in Nat \X Nat : p[1] < p[2]}
<1>1. IsWellFoundedOn(less, Nat)
  BY NatLessThanWellFounded DEF OpToRel
<1>2. \E x \in S : \A y \in S : <<y, x>> \notin less
  <2> HIDE DEF less
  <2> QED BY <1>1, WFMin
<1>3. \A x, y \in Nat : <<y, x>> \notin less => x <= y
  OBVIOUS
<1> QED BY <1>2, <1>3

\* Induction up to m, with a set for the induction hypothesis.
LEMMA Induct ==
  ASSUME NEW m \in Nat, NEW G, 0 \in G, \A n \in 1 .. m : n - 1 \in G => n \in G
  PROVE  \A n \in 0 .. m : n \in G
<1> DEFINE bad == {n \in 0 .. m : n \notin G}
<1>1. bad \in SUBSET Nat
  OBVIOUS
<1>2. ASSUME bad # {} PROVE FALSE
  <2>1. PICK k \in bad : \A j \in bad : k <= j
    <3> HIDE DEF bad
    <3> QED BY <1>1, <1>2, Smallest
  <2>2. k \in 1 .. m /\ k - 1 \in 0 .. m /\ k - 1 < k
    BY <2>1
  <2>3. k - 1 \in G
    BY <2>1, <2>2
  <2> QED BY <2>1, <2>2, <2>3
<1> QED BY <1>2

Positive == Nat \ {0}

LEMMA PositiveAre ==
  ASSUME NEW S \in SUBSET Positive
  PROVE  \A i \in S : i \in Nat /\ i >= 1
BY DEF Positive

LEMMA UpToType ==
  ASSUME NEW S \in SUBSET Positive, NEW k \in Nat
  PROVE  /\ IsFiniteSet({i \in S : i <= k}) /\ UpTo(S, k) \in Nat
         /\ UpTo(S, 0) = 0
<1>1. {i \in S : i <= k} \in SUBSET (1 .. k) /\ IsFiniteSet(1 .. k)
  BY FS_Interval, PositiveAre
<1>2. {i \in S : i <= 0} = {}
  BY PositiveAre
<1> QED BY <1>1, <1>2, FS_Subset, FS_CardinalityType, FS_EmptySet DEF UpTo

One(S, k) == IF k \in S THEN 1 ELSE 0

LEMMA UpToNext ==
  ASSUME NEW S \in SUBSET Positive, NEW k \in Nat
  PROVE  UpTo(S, k + 1) = UpTo(S, k) + One(S, k + 1)
<1> DEFINE low == {i \in S : i <= k}
           all == {i \in S : i <= k + 1}
<1>1. IsFiniteSet(low)
  BY UpToType
<1>2. CASE k + 1 \in S
  <2>1. all = low \cup {k + 1} /\ k + 1 \notin low
    BY <1>2, PositiveAre
  <2> HIDE DEF low, all
  <2>2. Cardinality(all) = Cardinality(low) + 1
    BY <1>1, <2>1, FS_AddElement
  <2> QED BY <1>2, <2>2 DEF UpTo, One, low, all
<1>3. CASE k + 1 \notin S
  <2>1. all = low
    BY <1>3, PositiveAre
  <2>2. UpTo(S, k + 1) = UpTo(S, k) /\ UpTo(S, k) \in Nat
    BY <2>1, UpToType DEF UpTo
  <2> QED BY <1>3, <2>2 DEF One
<1> QED BY <1>2, <1>3

LEMMA UpToSame ==
  ASSUME NEW S \in SUBSET Positive, NEW T \in SUBSET Positive, NEW k \in Nat,
         \A i \in 1 .. k : i \in S <=> i \in T
  PROVE  UpTo(S, k) = UpTo(T, k)
<1>1. {i \in S : i <= k} = {i \in T : i <= k}
  BY PositiveAre
<1> QED BY <1>1 DEF UpTo

LEMMA UpToAll ==
  ASSUME NEW k \in Nat, NEW S \in SUBSET (1 .. k)
  PROVE  UpTo(S, k) = Cardinality(S) /\ IsFiniteSet(S)
<1>1. \A i \in S : i \in Nat /\ i # 0 /\ i <= k
  OBVIOUS
<1>2. {i \in S : i <= k} = S /\ S \in SUBSET Positive
  BY <1>1 DEF Positive
<1> QED BY <1>2, UpToType DEF UpTo

\* T continues S after m.
LEMMA UpToShift ==
  ASSUME NEW S \in SUBSET Positive, NEW T \in SUBSET Positive, NEW m \in Nat, NEW k \in Nat,
         \A i \in 1 .. k : m + i \in S <=> i \in T
  PROVE  UpTo(S, m + k) = UpTo(S, m) + UpTo(T, k)
<1> DEFINE G == {n \in 0 .. k : UpTo(S, m + n) = UpTo(S, m) + UpTo(T, n)}
<1>1. 0 \in G
  <2>1. UpTo(S, m) \in Nat
    BY UpToType
  <2>2. UpTo(T, 0) = 0
    BY UpToType, m \in Nat
  <2> QED BY <2>1, <2>2
<1>2. ASSUME NEW n \in 1 .. k, n - 1 \in G PROVE n \in G
  <2>1. PICK l \in Nat : l = n - 1
    OBVIOUS
  <2>2. UpTo(S, m + l) = UpTo(S, m) + UpTo(T, l)
    BY <1>2, <2>1
  <2>3. PICK j \in Nat : j = m + l
    OBVIOUS
  <2>4. UpTo(S, j + 1) = UpTo(S, j) + One(S, j + 1)
    BY UpToNext
  <2>5. UpTo(T, l + 1) = UpTo(T, l) + One(T, l + 1)
    BY UpToNext
  <2>6. One(S, j + 1) = One(T, l + 1)
    <3>1. l + 1 \in 1 .. k /\ m + (l + 1) = j + 1
      BY <2>1, <2>3
    <3> QED BY <3>1 DEF One
  <2>7. UpTo(S, m) \in Nat /\ UpTo(T, l) \in Nat /\ One(T, l + 1) \in Nat
    BY UpToType DEF One
  <2>8. n = l + 1 /\ m + n = j + 1
    BY <2>1, <2>3
  <2>9. UpTo(S, m + n) = UpTo(S, m) + UpTo(T, n)
    BY <2>2, <2>3, <2>4, <2>5, <2>6, <2>7, <2>8
  <2> QED BY <2>9
<1>3. \A n \in 0 .. k : n \in G
  <2> HIDE DEF G
  <2> QED BY <1>1, <1>2, Induct
<1> QED BY <1>3

LEMMA UpToGrows ==
  ASSUME NEW S \in SUBSET Positive, NEW j \in Nat, NEW k \in Nat, j <= k
  PROVE  /\ UpTo(S, j) <= UpTo(S, k)
         /\ j < k /\ k \in S => UpTo(S, j) < UpTo(S, k)
         /\ UpTo(S, k) - UpTo(S, j) <= k - j
<1>1. PICK d \in Nat : k = j + d
  <2>1. k - j \in Nat /\ k = j + (k - j)
    OBVIOUS
  <2> QED BY <2>1
<1> DEFINE T == {i \in 1 .. d : j + i \in S}
<1>2. T \in SUBSET (1 .. d) /\ T \in SUBSET Positive /\ \A i \in 1 .. d : j + i \in S <=> i \in T
  BY DEF Positive
<1>3. j < k /\ k \in S => d \in T
  BY <1>1
<1> HIDE DEF T
<1>4. UpTo(S, k) = UpTo(S, j) + UpTo(T, d)
  BY <1>1, <1>2, UpToShift
<1>5. UpTo(T, d) = Cardinality(T) /\ IsFiniteSet(T)
  BY <1>2, UpToAll
<1>6. Cardinality(1 .. d) = d /\ IsFiniteSet(1 .. d)
  BY FS_Interval
<1>7. Cardinality(T) <= d /\ Cardinality(T) \in Nat
  BY <1>2, <1>5, <1>6, FS_Subset, FS_CardinalityType
<1>8. j < k /\ k \in S => Cardinality(T) # 0
  BY <1>3, <1>5, FS_EmptySet
<1>9. UpTo(S, j) \in Nat
  BY UpToType
<1> QED BY <1>1, <1>4, <1>5, <1>7, <1>8, <1>9

-----------------------------------------------------------------------------
(* The values of a stack and the slots of the frame.                       *)

Indexed(s) == Len(s) \in Nat /\ DOMAIN s = 1 .. Len(s)

\* Where the stack owns o, and where the frame has it.
Mine(s, o)    == {i \in Owned(s) : s[i].value = o}
Holding(f, o) == {i \in DOMAIN f : f[i] = o}

LEMMA OwnedIs ==
  ASSUME NEW s, Indexed(s), NEW o
  PROVE  /\ Owned(s) \in SUBSET (1 .. Len(s)) /\ Owned(s) \in SUBSET Positive
         /\ Mine(s, o) \in SUBSET (1 .. Len(s)) /\ Mine(s, o) \in SUBSET Positive
         /\ \A k \in Nat : UpTo(Owned(s), k) \in Nat /\ UpTo(Mine(s, o), k) \in Nat
         /\ UpTo(Owned(s), 0) = 0 /\ UpTo(Mine(s, o), 0) = 0
<1>1. Owned(s) \in SUBSET (1 .. Len(s)) /\ Mine(s, o) \in SUBSET (1 .. Len(s))
  BY DEF Owned, Mine, Indexed
<1>2. Owned(s) \in SUBSET Positive /\ Mine(s, o) \in SUBSET Positive
  <2>1. \A i \in 1 .. Len(s) : i \in Nat /\ i # 0
    BY DEF Indexed
  <2> QED BY <1>1, <2>1 DEF Positive
<1>3. \A k \in Nat : UpTo(Owned(s), k) \in Nat /\ UpTo(Mine(s, o), k) \in Nat
  BY <1>2, UpToType
<1>4. UpTo(Owned(s), 0) = 0
  BY <1>2, UpToType, 0 \in Nat
<1>5. UpTo(Mine(s, o), 0) = 0
  BY <1>2, UpToType, 0 \in Nat
<1> QED BY <1>1, <1>2, <1>3, <1>4, <1>5

\* a is s up to m with t on top.
Joined(a, s, m, t) ==
  /\ Indexed(a) /\ Indexed(s) /\ Indexed(t)
  /\ m \in 0 .. Len(s) /\ Len(a) = m + Len(t)
  /\ \A i \in 1 .. m : a[i] = s[i]
  /\ \A i \in 1 .. Len(t) : a[m + i] = t[i]

LEMMA JoinedWhere ==
  ASSUME NEW a, NEW s, NEW m, NEW t, Joined(a, s, m, t), NEW o
  PROVE  /\ m \in Nat
         /\ \A i \in 1 .. m : /\ i \in Owned(a) <=> i \in Owned(s)
                              /\ i \in Mine(a, o) <=> i \in Mine(s, o)
         /\ \A i \in 1 .. Len(t) : /\ m + i \in Owned(a) <=> i \in Owned(t)
                                   /\ m + i \in Mine(a, o) <=> i \in Mine(t, o)
<1>1. m \in Nat /\ \A i \in 1 .. m : i \in DOMAIN a /\ i \in DOMAIN s /\ a[i] = s[i]
  BY DEF Joined, Indexed
<1>2. \A i \in 1 .. Len(t) : m + i \in DOMAIN a /\ i \in DOMAIN t /\ a[m + i] = t[i]
  BY DEF Joined, Indexed
<1> QED BY <1>1, <1>2 DEF Owned, Mine

LEMMA JoinedCounts ==
  ASSUME NEW a, NEW s, NEW m, NEW t, Joined(a, s, m, t), NEW o
  PROVE  /\ m \in Nat
         /\ \A i \in 0 .. m : /\ UpTo(Owned(a), i) = UpTo(Owned(s), i)
                              /\ UpTo(Mine(a, o), i) = UpTo(Mine(s, o), i)
         /\ \A k \in 0 .. Len(t) :
              /\ UpTo(Owned(a), m + k) = UpTo(Owned(s), m) + UpTo(Owned(t), k)
              /\ UpTo(Mine(a, o), m + k) = UpTo(Mine(s, o), m) + UpTo(Mine(t, o), k)
<1>1. /\ m \in Nat
      /\ \A i \in 1 .. m : /\ i \in Owned(a) <=> i \in Owned(s)
                           /\ i \in Mine(a, o) <=> i \in Mine(s, o)
      /\ \A i \in 1 .. Len(t) : /\ m + i \in Owned(a) <=> i \in Owned(t)
                                /\ m + i \in Mine(a, o) <=> i \in Mine(t, o)
  BY JoinedWhere
<1>2. /\ Owned(a) \in SUBSET Positive /\ Mine(a, o) \in SUBSET Positive
      /\ Owned(s) \in SUBSET Positive /\ Mine(s, o) \in SUBSET Positive
      /\ Owned(t) \in SUBSET Positive /\ Mine(t, o) \in SUBSET Positive
      /\ Len(t) \in Nat
  BY OwnedIs DEF Joined, Indexed
<1>3. ASSUME NEW i \in 0 .. m
      PROVE  /\ UpTo(Owned(a), i) = UpTo(Owned(s), i)
             /\ UpTo(Mine(a, o), i) = UpTo(Mine(s, o), i)
  <2>1. i \in Nat /\ \A j \in 1 .. i : j \in 1 .. m
    BY <1>1, <1>3
  <2>2. UpTo(Owned(a), i) = UpTo(Owned(s), i)
    BY <1>1, <1>2, <2>1, UpToSame
  <2>3. UpTo(Mine(a, o), i) = UpTo(Mine(s, o), i)
    BY <1>1, <1>2, <2>1, UpToSame
  <2> QED BY <2>2, <2>3
<1>4. ASSUME NEW k \in 0 .. Len(t)
      PROVE  /\ UpTo(Owned(a), m + k) = UpTo(Owned(s), m) + UpTo(Owned(t), k)
             /\ UpTo(Mine(a, o), m + k) = UpTo(Mine(s, o), m) + UpTo(Mine(t, o), k)
  <2>1. k \in Nat /\ m \in 0 .. m /\ \A j \in 1 .. k : j \in 1 .. Len(t)
    BY <1>1, <1>2, <1>4
  <2>2. UpTo(Owned(a), m + k) = UpTo(Owned(a), m) + UpTo(Owned(t), k)
    BY <1>1, <1>2, <2>1, UpToShift
  <2>3. UpTo(Mine(a, o), m + k) = UpTo(Mine(a, o), m) + UpTo(Mine(t, o), k)
    BY <1>1, <1>2, <2>1, UpToShift
  <2> QED BY <1>3, <2>1, <2>2, <2>3
<1> QED BY <1>1, <1>3, <1>4

\* The values the stack owns are in the slots of the frame, in their order.
Placed(s, f) == \A i \in Owned(s) : f[UpTo(Owned(s), i)] = s[i].value

LEMMA PlaceIs ==
  ASSUME NEW s, Indexed(s), NEW i \in Owned(s)
  PROVE  /\ i \in 1 .. Len(s) /\ i - 1 \in Nat
         /\ UpTo(Owned(s), i) \in Nat /\ UpTo(Owned(s), i - 1) \in Nat
         /\ UpTo(Owned(s), i) = UpTo(Owned(s), i - 1) + 1
         /\ \A k \in Nat : i <= k => UpTo(Owned(s), i) \in 1 .. UpTo(Owned(s), k)
<1>1. Owned(s) \in SUBSET Positive /\ i \in 1 .. Len(s)
  BY OwnedIs
<1>2. PICK j \in Nat : j = i - 1
  BY <1>1 DEF Indexed
<1>3. i \in Nat /\ j + 1 = i
  BY <1>1, <1>2 DEF Indexed
<1>4. UpTo(Owned(s), j + 1) = UpTo(Owned(s), j) + One(Owned(s), j + 1)
  BY <1>1, UpToNext
<1>5. One(Owned(s), i) = 1
  BY DEF One
<1>6. UpTo(Owned(s), j) \in Nat
  BY <1>1, UpToType
<1>7. UpTo(Owned(s), i) = UpTo(Owned(s), j) + 1
  BY <1>3, <1>4, <1>5
<1>8. ASSUME NEW k \in Nat, i <= k PROVE UpTo(Owned(s), i) \in 1 .. UpTo(Owned(s), k)
  <2>1. UpTo(Owned(s), i) <= UpTo(Owned(s), k)
    BY <1>1, <1>3, <1>8, UpToGrows
  <2>2. UpTo(Owned(s), k) \in Nat
    BY <1>1, UpToType
  <2> QED BY <1>6, <1>7, <2>1, <2>2
<1> QED BY <1>1, <1>2, <1>6, <1>7, <1>8

LEMMA PlacedJoined ==
  ASSUME NEW a, NEW s, NEW m, NEW t, Joined(a, s, m, t), NEW f, NEW g, Placed(s, f),
         \A i \in 1 .. UpTo(Owned(s), m) : g[i] = f[i],
         \A k \in Owned(t) : g[UpTo(Owned(s), m) + UpTo(Owned(t), k)] = t[k].value
  PROVE  Placed(a, g)
<1>1. Indexed(a) /\ Indexed(s) /\ Indexed(t) /\ Len(a) = m + Len(t) /\ m \in Nat
  BY JoinedWhere DEF Joined
<1>2. SUFFICES ASSUME NEW i \in Owned(a) PROVE g[UpTo(Owned(a), i)] = a[i].value
  BY DEF Placed
<1>3. i \in 1 .. Len(a)
  BY <1>1, PlaceIs
<1>4. CASE i <= m
  <2>1. i \in 1 .. m /\ i \in 0 .. m /\ a[i] = s[i]
    BY <1>1, <1>3, <1>4 DEF Joined
  <2>2. i \in Owned(s)
    BY <2>1, JoinedWhere
  <2>3. UpTo(Owned(a), i) = UpTo(Owned(s), i)
    BY <2>1, JoinedCounts
  <2>4. UpTo(Owned(s), i) \in 1 .. UpTo(Owned(s), m)
    BY <1>1, <1>4, <2>2, PlaceIs
  <2> QED BY <2>1, <2>2, <2>3, <2>4 DEF Placed
<1>5. CASE i > m
  <2>1. PICK k \in 1 .. Len(t) : i = m + k
    <3>1. PICK n \in Nat : n = Len(t)
      BY <1>1 DEF Indexed
    <3>2. i \in 1 .. m + n
      BY <1>1, <1>3, <3>1
    <3>3. i - m \in 1 .. n /\ i = m + (i - m)
      BY <1>1, <1>5, <3>2
    <3> QED BY <3>1, <3>3
  <2>2. k \in Owned(t)
    BY <2>1, JoinedWhere
  <2>3. a[i] = t[k]
    BY <2>1 DEF Joined
  <2>4. k \in 0 .. Len(t)
    BY <1>1, <2>1 DEF Indexed
  <2>5. UpTo(Owned(a), i) = UpTo(Owned(s), m) + UpTo(Owned(t), k)
    BY <2>1, <2>4, JoinedCounts
  <2> QED BY <2>2, <2>3, <2>5
<1> QED BY <1>1, <1>3, <1>4, <1>5 DEF Indexed

\* The slots of the values up to k hold an object as often as the stack owns it
\* up to there.
LEMMA SlotsHold ==
  ASSUME NEW s, Indexed(s), NEW f, NEW M \in Nat, DOMAIN f = 1 .. M, Len(s) <= M,
         Placed(s, f), NEW o
  PROVE  \A k \in 0 .. Len(s) : UpTo(Holding(f, o), UpTo(Owned(s), k)) = UpTo(Mine(s, o), k)
<1> DEFINE G == {k \in 0 .. Len(s) :
                   UpTo(Holding(f, o), UpTo(Owned(s), k)) = UpTo(Mine(s, o), k)}
<1>1. /\ Owned(s) \in SUBSET Positive /\ Mine(s, o) \in SUBSET Positive
      /\ UpTo(Owned(s), 0) = 0 /\ UpTo(Mine(s, o), 0) = 0
      /\ \A k \in Nat : UpTo(Owned(s), k) \in Nat
      /\ Len(s) \in Nat
  BY OwnedIs DEF Indexed
<1>2. Holding(f, o) \in SUBSET Positive
  BY DEF Holding, Positive
<1>3. 0 \in G
  <2>1. UpTo(Holding(f, o), 0) = 0
    BY <1>2, UpToType, 0 \in Nat
  <2>2. UpTo(Holding(f, o), UpTo(Owned(s), 0)) = UpTo(Mine(s, o), 0)
    BY <1>1, <2>1
  <2>3. 0 \in 0 .. Len(s)
    BY <1>1
  <2> QED BY <2>2, <2>3
<1>4. ASSUME NEW n \in 1 .. Len(s), n - 1 \in G PROVE n \in G
  <2>1. PICK l \in Nat : l = n - 1
    BY <1>1
  <2>2. UpTo(Holding(f, o), UpTo(Owned(s), l)) = UpTo(Mine(s, o), l)
    BY <1>4, <2>1
  <2>3. n = l + 1 /\ n \in Nat
    BY <1>1, <2>1
  <2>4. UpTo(Owned(s), l + 1) = UpTo(Owned(s), l) + One(Owned(s), l + 1)
    BY <1>1, UpToNext
  <2>5. UpTo(Mine(s, o), l + 1) = UpTo(Mine(s, o), l) + One(Mine(s, o), l + 1)
    BY <1>1, UpToNext
  <2>6. PICK h \in Nat : h = UpTo(Owned(s), l)
    BY <1>1
  <2>7. CASE n \in Owned(s)
    <3>1. UpTo(Owned(s), n) = h + 1
      BY <2>3, <2>4, <2>6, <2>7 DEF One
    <3>2. f[h + 1] = s[n].value
      BY <2>7, <3>1 DEF Placed
    <3>3. h + 1 \in 1 .. M
      <4>1. 0 <= n /\ 0 \in Nat
        BY <2>3
      <4>2. UpTo(Owned(s), n) - UpTo(Owned(s), 0) <= n - 0
        BY <1>1, <2>3, <4>1, UpToGrows
      <4>3. h + 1 <= n
        BY <1>1, <2>3, <2>6, <3>1, <4>2
      <4> QED BY <1>1, <4>3
    <3>4. UpTo(Holding(f, o), h + 1) = UpTo(Holding(f, o), h) + One(Holding(f, o), h + 1)
      BY <1>2, UpToNext
    <3>5. One(Holding(f, o), h + 1) = One(Mine(s, o), n)
      BY <2>7, <3>2, <3>3 DEF One, Holding, Mine
    <3> QED BY <2>2, <2>3, <2>5, <2>6, <3>1, <3>4, <3>5
  <2>8. CASE n \notin Owned(s)
    <3>1. UpTo(Owned(s), n) = h
      BY <2>3, <2>4, <2>6, <2>8 DEF One
    <3>2. n \notin Mine(s, o)
      BY <2>8 DEF Mine
    <3>3. UpTo(Mine(s, o), l) \in Nat
      BY <1>1, UpToType
    <3>4. One(Mine(s, o), l + 1) = 0
      BY <2>3, <3>2 DEF One
    <3>5. UpTo(Mine(s, o), n) = UpTo(Mine(s, o), l)
      BY <2>3, <2>5, <3>3, <3>4
    <3> QED BY <2>2, <2>6, <3>1, <3>5
  <2> QED BY <2>7, <2>8
<1>5. \A n \in 0 .. Len(s) : n \in G
  <2> HIDE DEF G
  <2> QED BY <1>1, <1>3, <1>4, Induct
<1> QED BY <1>5

-----------------------------------------------------------------------------
(* The two tables.                                                         *)

\* A sequence of n marks, all in T.
Marks(marks, n, T) == marks \in Seq(Nat) /\ Len(marks) = n /\ \A i \in 1 .. n : marks[i] \in T

\* What the backward pass assumes of an opcode at v and what is emitted for it fit:
\* the values it pops last until v, those it hands over in place, for ever.
Match(op, row, e, v) ==
  /\ e.pop \in Nat /\ e.take \in Nat /\ e.keep \in Nat /\ e.push \in Nat /\ e.lost \in Nat
  /\ row.undo = e.push
  /\ Marks(row.marks, e.pop + e.take + e.keep,
           IF op = "POP_TOP" THEN Nat
           ELSE IF e.take > 0 /\ op # "POP_EXCEPT" THEN {Forever} ELSE {v, Forever})
  /\ e.take = 0 \/ e.pop + e.keep = 0
  /\ e.early = FALSE /\ e.borrowed = FALSE
  /\ e.blind = IF op = "SETUP_WITH" THEN TRUE ELSE FALSE
  /\ e.always = 0 \/ (op = "CALL_FUNCTION_EX" /\ e.always = 1 /\ e.pop = 3 /\ e.keep = 0)

LEMMA MarksAre ==
  ASSUME NEW v \in Nat
  PROVE  /\ Marks(<<>>, 0, {v}) /\ Marks(<<v>>, 1, {v}) /\ Marks(<<v, v>>, 2, {v})
         /\ Marks(<<v, v, v>>, 3, {v})
         /\ Marks(<<v, Forever>>, 2, {v, Forever})
         /\ \A n \in Nat : Marks(Times(n, v), n, {v})
<1>1. ASSUME NEW n \in Nat PROVE Marks(Times(n, v), n, {v})
  <2>1. Times(n, v) \in Seq(Nat) /\ Len(Times(n, v)) = n /\ \A i \in 1 .. n : Times(n, v)[i] = v
    BY DEF Times
  <2> QED BY <2>1 DEF Marks
<1>2. Marks(<<>>, 0, {v}) /\ Marks(<<v>>, 1, {v})
  BY DEF Marks
<1>3. Marks(<<v, v>>, 2, {v})
  BY DEF Marks
<1>4. Marks(<<v, v, v>>, 3, {v})
  BY DEF Marks
<1>5. Marks(<<v, Forever>>, 2, {v, Forever})
  BY NumbersAssumption DEF Marks
<1> QED BY <1>1, <1>2, <1>3, <1>4, <1>5

LEMMA MarksIn ==
  ASSUME NEW marks, NEW n, NEW S, NEW T, S \subseteq T, Marks(marks, n, S)
  PROVE  Marks(marks, n, T)
BY DEF Marks

\* What is emitted pops p values, hands t over, gives k to other holders and pushes q.
Emit(e, p, t, k, q) ==
  /\ e.pop = p /\ e.take = t /\ e.keep = k /\ e.push = q
  /\ e.lost \in Nat /\ e.always = 0
  /\ e.early = FALSE /\ e.borrowed = FALSE /\ e.blind = FALSE

LEMMA MatchIs ==
  ASSUME NEW op, op # "POP_TOP", op # "SETUP_WITH", NEW row, NEW e, NEW v \in Nat,
         NEW p \in Nat, NEW t \in Nat, NEW k \in Nat, NEW q \in Nat, Emit(e, p, t, k, q),
         row.undo = q, NEW n, n = p + t + k,
         Marks(row.marks, n, {v}) \/ Marks(row.marks, n, {Forever})
           \/ Marks(row.marks, n, {v, Forever}),
         t = 0 \/ (p = 0 /\ k = 0 /\ (op = "POP_EXCEPT" \/ Marks(row.marks, n, {Forever})))
  PROVE  Match(op, row, e, v)
<1> DEFINE T == IF op = "POP_TOP" THEN Nat
                ELSE IF e.take > 0 /\ op # "POP_EXCEPT" THEN {Forever} ELSE {v, Forever}
<1>1. e.pop = p /\ e.take = t /\ e.keep = k /\ e.push = q
  BY DEF Emit
<1>2. Marks(row.marks, e.pop + e.take + e.keep, T)
  <2>1. e.pop + e.take + e.keep = n
    BY <1>1
  <2>2. CASE e.take > 0 /\ op # "POP_EXCEPT"
    <3>1. Marks(row.marks, n, {Forever}) /\ T = {Forever}
      BY <1>1, <2>2
    <3> QED BY <2>1, <3>1
  <2>3. CASE ~(e.take > 0 /\ op # "POP_EXCEPT")
    <3>1. T = {v, Forever} /\ {v} \subseteq {v, Forever} /\ {Forever} \subseteq {v, Forever}
      BY <2>3
    <3>2. Marks(row.marks, n, {v, Forever})
      BY <3>1, MarksIn
    <3> QED BY <2>1, <3>1, <3>2
  <2> QED BY <2>2, <2>3
<1>3. e.take = 0 \/ e.pop + e.keep = 0
  BY <1>1
<1> QED BY <1>1, <1>2, <1>3 DEF Match, Emit

LEMMA NamesMatch ==
  ASSUME NEW op \in NameOps, NEW v \in Nat
  PROVE  Match(op, AssumesName(op, v), EmitsName(op), v)
<1> SUFFICES ASSUME NEW row, row = AssumesName(op, v), NEW e, e = EmitsName(op)
             PROVE  Match(op, row, e, v)
  OBVIOUS
<1>0. op # "POP_TOP" /\ op # "SETUP_WITH"
  BY DEF NameOps
<1>1. CASE op \in {"LOAD_DEREF", "LOAD_CLASSDEREF", "LOAD_GLOBAL", "LOAD_NAME"}
  <2>1. row.undo = 1 /\ row.marks = <<>> /\ Emit(e, 0, 0, 0, 1)
    BY <1>1 DEF AssumesName, EmitsName,
           Row, Emit, Plain, Pop, Take, Safely
  <2>2. Marks(row.marks, 0, {v})
    BY <2>1, MarksAre, NumbersAssumption
  <2>3. 0 = 0 + 0 + 0 /\ 0 \in Nat /\ 1 \in Nat
    BY <1>0
  <2> QED BY <1>0, <2>1, <2>2, <2>3, MatchIs
<1>2. CASE op = "STORE_DEREF"
  <2>1. row.undo = 0 /\ row.marks = <<v>> /\ Emit(e, 0, 0, 1, 0)
    BY <1>2 DEF AssumesName, EmitsName,
           Row, Emit, Plain, Pop, Take, Safely
  <2>2. Marks(row.marks, 1, {v})
    BY <2>1, MarksAre, NumbersAssumption
  <2>3. 1 = 0 + 0 + 1 /\ 0 \in Nat /\ 1 \in Nat
    BY <1>0
  <2> QED BY <1>0, <2>1, <2>2, <2>3, MatchIs
<1>3. CASE op \in {"STORE_GLOBAL", "STORE_NAME", "DELETE_ATTR"}
  <2>1. row.undo = 0 /\ row.marks = <<v>> /\ Emit(e, 1, 0, 0, 0)
    BY <1>3 DEF AssumesName, EmitsName,
           Row, Emit, Plain, Pop, Take, Safely
  <2>2. Marks(row.marks, 1, {v})
    BY <2>1, MarksAre, NumbersAssumption
  <2>3. 1 = 1 + 0 + 0 /\ 0 \in Nat /\ 1 \in Nat
    BY <1>0
  <2> QED BY <1>0, <2>1, <2>2, <2>3, MatchIs
<1>4. CASE op \in {"DELETE_DEREF", "DELETE_GLOBAL", "DELETE_NAME"}
  <2>1. row.undo = 0 /\ row.marks = <<>> /\ Emit(e, 0, 0, 0, 0)
    BY <1>4 DEF AssumesName, EmitsName,
           Row, Emit, Plain, Pop, Take, Safely
  <2>2. Marks(row.marks, 0, {v})
    BY <2>1, MarksAre, NumbersAssumption
  <2>3. 0 = 0 + 0 + 0 /\ 0 \in Nat
    BY <1>0
  <2> QED BY <1>0, <2>1, <2>2, <2>3, MatchIs
<1>5. CASE op = "LOAD_ATTR"
  <2>1. row.undo = 1 /\ row.marks = <<v>> /\ Emit(e, 1, 0, 0, 1)
    BY <1>5 DEF AssumesName, EmitsName,
           Row, Emit, Plain, Pop, Take, Safely
  <2>2. Marks(row.marks, 1, {v})
    BY <2>1, MarksAre, NumbersAssumption
  <2>3. 1 = 1 + 0 + 0 /\ 0 \in Nat /\ 1 \in Nat
    BY <1>0
  <2> QED BY <1>0, <2>1, <2>2, <2>3, MatchIs
<1>6. CASE op = "LOAD_METHOD"
  <2>1. row.undo = 2 /\ row.marks = <<Forever>> /\ Emit(e, 0, 1, 0, 2)
    BY <1>6 DEF AssumesName, EmitsName,
           Row, Emit, Plain, Pop, Take, Safely
  <2>2. Marks(row.marks, 1, {Forever})
    BY <2>1, MarksAre, NumbersAssumption
  <2>3. 1 = 0 + 1 + 0 /\ 0 \in Nat /\ 1 \in Nat /\ 2 \in Nat
    BY <1>0
  <2> QED BY <1>0, <2>1, <2>2, <2>3, MatchIs
<1>7. CASE op = "STORE_ATTR"
  <2>1. row.undo = 0 /\ row.marks = <<v, v>> /\ Emit(e, 2, 0, 0, 0)
    BY <1>7 DEF AssumesName, EmitsName,
           Row, Emit, Plain, Pop, Take, Safely
  <2>2. Marks(row.marks, 2, {v})
    BY <2>1, MarksAre, NumbersAssumption
  <2>3. 2 = 2 + 0 + 0 /\ 0 \in Nat /\ 2 \in Nat
    BY <1>0
  <2> QED BY <1>0, <2>1, <2>2, <2>3, MatchIs
<1> QED BY <1>1, <1>2, <1>3, <1>4, <1>5, <1>6, <1>7 DEF NameOps

LEMMA OperatorsMatch ==
  ASSUME NEW op \in OperatorOps, op # "IS_OP", op # "CONTAINS_OP", NEW v \in Nat
  PROVE  Match(op, AssumesOperator(op, v), EmitsOperator(op), v)
<1> SUFFICES ASSUME NEW row, row = AssumesOperator(op, v), NEW e, e = EmitsOperator(op)
             PROVE  Match(op, row, e, v)
  OBVIOUS
<1>0. op # "POP_TOP" /\ op # "SETUP_WITH"
  BY DEF OperatorOps, UnaryOps, BinaryOps
<1>1. CASE op \in UnaryOps
  <2>1. row.undo = 1 /\ row.marks = <<v>> /\ Emit(e, 1, 0, 0, 1)
    BY <1>1 DEF AssumesOperator, EmitsOperator,
           Row, Emit, Plain, Pop, Take, Safely, UnaryOps
  <2>2. Marks(row.marks, 1, {v})
    BY <2>1, MarksAre, NumbersAssumption
  <2>3. 1 = 1 + 0 + 0 /\ 0 \in Nat /\ 1 \in Nat
    BY <1>0
  <2> QED BY <1>0, <2>1, <2>2, <2>3, MatchIs
<1>2. CASE op = "STORE_SUBSCR"
  <2>1. row.undo = 0 /\ row.marks = <<v, v, v>> /\ Emit(e, 3, 0, 0, 0)
    BY <1>2 DEF AssumesOperator, EmitsOperator,
           Row, Emit, Plain, Pop, Take, Safely, UnaryOps
  <2>2. Marks(row.marks, 3, {v})
    BY <2>1, MarksAre, NumbersAssumption
  <2>3. 3 = 3 + 0 + 0 /\ 0 \in Nat /\ 3 \in Nat
    BY <1>0
  <2> QED BY <1>0, <2>1, <2>2, <2>3, MatchIs
<1>3. CASE op = "DELETE_SUBSCR"
  <2>1. row.undo = 0 /\ row.marks = <<v, v>> /\ Emit(e, 2, 0, 0, 0)
    BY <1>3 DEF AssumesOperator, EmitsOperator,
           Row, Emit, Plain, Pop, Take, Safely, UnaryOps
  <2>2. Marks(row.marks, 2, {v})
    BY <2>1, MarksAre, NumbersAssumption
  <2>3. 2 = 2 + 0 + 0 /\ 0 \in Nat /\ 2 \in Nat
    BY <1>0
  <2> QED BY <1>0, <2>1, <2>2, <2>3, MatchIs
<1>4. CASE op \notin UnaryOps \cup {"STORE_SUBSCR", "DELETE_SUBSCR"}
  <2>1. row.undo = 1 /\ row.marks = <<v, v>> /\ Emit(e, 2, 0, 0, 1)
    BY <1>4 DEF AssumesOperator, EmitsOperator,
           Row, Emit, Plain, Pop, Take, Safely, UnaryOps
  <2>2. Marks(row.marks, 2, {v})
    BY <2>1, MarksAre, NumbersAssumption
  <2>3. 2 = 2 + 0 + 0 /\ 0 \in Nat /\ 1 \in Nat /\ 2 \in Nat
    BY <1>0
  <2> QED BY <1>0, <2>1, <2>2, <2>3, MatchIs
<1> QED BY <1>1, <1>2, <1>3, <1>4 DEF OperatorOps, UnaryOps, BinaryOps

LEMMA JumpsMatch ==
  ASSUME NEW op \in JumpOps, op \notin OrPopJumps, NEW v \in Nat
  PROVE  Match(op, AssumesJump(op, v), EmitsJump(op), v)
<1> SUFFICES ASSUME NEW row, row = AssumesJump(op, v), NEW e, e = EmitsJump(op)
             PROVE  Match(op, row, e, v)
  OBVIOUS
<1>0. op # "POP_TOP" /\ op # "SETUP_WITH"
  BY DEF JumpOps, PopJumps, OrPopJumps
<1>1. CASE op \in {"JUMP_FORWARD", "JUMP_ABSOLUTE"}
  <2>1. row.undo = 0 /\ row.marks = <<>> /\ Emit(e, 0, 0, 0, 0)
    BY <1>1 DEF AssumesJump, EmitsJump,
           Row, Emit, Plain, Pop, Take, Safely, PopJumps, OrPopJumps
  <2>2. Marks(row.marks, 0, {v})
    BY <2>1, MarksAre, NumbersAssumption
  <2>3. 0 = 0 + 0 + 0 /\ 0 \in Nat
    BY <1>0
  <2> QED BY <1>0, <2>1, <2>2, <2>3, MatchIs
<1>2. CASE op \in PopJumps
  <2>1. row.undo = 0 /\ row.marks = <<v>> /\ Emit(e, 1, 0, 0, 0)
    BY <1>2 DEF AssumesJump, EmitsJump,
           Row, Emit, Plain, Pop, Take, Safely, PopJumps, OrPopJumps
  <2>2. Marks(row.marks, 1, {v})
    BY <2>1, MarksAre, NumbersAssumption
  <2>3. 1 = 1 + 0 + 0 /\ 0 \in Nat /\ 1 \in Nat
    BY <1>0
  <2> QED BY <1>0, <2>1, <2>2, <2>3, MatchIs
<1>3. CASE op = "GET_ITER"
  <2>1. row.undo = 1 /\ row.marks = <<v>> /\ Emit(e, 1, 0, 0, 1)
    BY <1>3 DEF AssumesJump, EmitsJump,
           Row, Emit, Plain, Pop, Take, Safely, PopJumps, OrPopJumps
  <2>2. Marks(row.marks, 1, {v})
    BY <2>1, MarksAre, NumbersAssumption
  <2>3. 1 = 1 + 0 + 0 /\ 0 \in Nat /\ 1 \in Nat
    BY <1>0
  <2> QED BY <1>0, <2>1, <2>2, <2>3, MatchIs
<1>4. CASE op = "FOR_ITER"
  <2>1. row.undo = 1 /\ row.marks = <<>> /\ Emit(e, 0, 0, 0, 1)
    BY <1>4 DEF AssumesJump, EmitsJump,
           Row, Emit, Plain, Pop, Take, Safely, PopJumps, OrPopJumps
  <2>2. Marks(row.marks, 0, {v})
    BY <2>1, MarksAre, NumbersAssumption
  <2>3. 0 = 0 + 0 + 0 /\ 0 \in Nat /\ 1 \in Nat
    BY <1>0
  <2> QED BY <1>0, <2>1, <2>2, <2>3, MatchIs
<1> QED BY <1>1, <1>2, <1>3, <1>4 DEF JumpOps, PopJumps, OrPopJumps

LEMMA BuildsMatch ==
  ASSUME NEW op \in BuildOps, NEW n \in Nat, NEW v \in Nat
  PROVE  Match(op, AssumesBuild(op, n, v), EmitsBuild(op, n), v)
<1> SUFFICES ASSUME NEW row, row = AssumesBuild(op, n, v), NEW e, e = EmitsBuild(op, n)
             PROVE  Match(op, row, e, v)
  OBVIOUS
<1>0. op # "POP_TOP" /\ op # "SETUP_WITH"
  BY DEF BuildOps, Building, AddingTo
<1>a. Bit(n, 4) \in Nat
  BY DEF Bit
<1>1. CASE op \in Building
  <2>1. row.undo = 1 /\ row.marks = Times(n, Forever) /\ Emit(e, 0, n, 0, 1)
    BY <1>1 DEF AssumesBuild, EmitsBuild,
           Row, Emit, Plain, Pop, Take, Safely, Building, AddingTo
  <2>2. Marks(row.marks, n, {Forever})
    BY <2>1, MarksAre, NumbersAssumption
  <2>3. n = 0 + n + 0 /\ 0 \in Nat /\ 1 \in Nat /\ n \in Nat
    BY <1>0
  <2> QED BY <1>0, <2>1, <2>2, <2>3, MatchIs
<1>2. CASE op = "BUILD_MAP"
  <2>0. PICK m \in Nat : m = 2 * n
    BY <1>0
  <2>1. row.undo = 1 /\ row.marks = Times(m, Forever) /\ Emit(e, 0, m, 0, 1)
    BY <1>2, <2>0 DEF AssumesBuild, EmitsBuild,
           Row, Emit, Plain, Pop, Take, Safely, Building, AddingTo
  <2>2. Marks(row.marks, m, {Forever})
    BY <2>1, MarksAre, NumbersAssumption, <2>0
  <2>3. m = 0 + m + 0 /\ 0 \in Nat /\ 1 \in Nat /\ m \in Nat
    BY <1>0, <2>0
  <2> QED BY <1>0, <2>1, <2>2, <2>3, MatchIs, <2>0
<1>3. CASE op = "BUILD_CONST_KEY_MAP"
  <2>0. PICK m \in Nat : m = n + 1
    BY <1>0
  <2>1. row.undo = 1 /\ row.marks = Times(m, Forever) /\ Emit(e, 0, m, 0, 1)
    BY <1>3, <2>0 DEF AssumesBuild, EmitsBuild,
           Row, Emit, Plain, Pop, Take, Safely, Building, AddingTo
  <2>2. Marks(row.marks, m, {Forever})
    BY <2>1, MarksAre, NumbersAssumption, <2>0
  <2>3. m = 0 + m + 0 /\ 0 \in Nat /\ 1 \in Nat /\ m \in Nat
    BY <1>0, <2>0
  <2> QED BY <1>0, <2>1, <2>2, <2>3, MatchIs, <2>0
<1>4. CASE op \in AddingTo \cup {"PRINT_EXPR"}
  <2>1. row.undo = 0 /\ row.marks = <<v>> /\ Emit(e, 1, 0, 0, 0)
    BY <1>4 DEF AssumesBuild, EmitsBuild,
           Row, Emit, Plain, Pop, Take, Safely, Building, AddingTo
  <2>2. Marks(row.marks, 1, {v})
    BY <2>1, MarksAre, NumbersAssumption
  <2>3. 1 = 1 + 0 + 0 /\ 0 \in Nat /\ 1 \in Nat
    BY <1>0
  <2> QED BY <1>0, <2>1, <2>2, <2>3, MatchIs
<1>5. CASE op = "MAP_ADD"
  <2>1. row.undo = 0 /\ row.marks = <<v, v>> /\ Emit(e, 2, 0, 0, 0)
    BY <1>5 DEF AssumesBuild, EmitsBuild,
           Row, Emit, Plain, Pop, Take, Safely, Building, AddingTo
  <2>2. Marks(row.marks, 2, {v})
    BY <2>1, MarksAre, NumbersAssumption
  <2>3. 2 = 2 + 0 + 0 /\ 0 \in Nat /\ 2 \in Nat
    BY <1>0
  <2> QED BY <1>0, <2>1, <2>2, <2>3, MatchIs
<1>6. CASE op = "LIST_TO_TUPLE"
  <2>1. row.undo = 1 /\ row.marks = <<v>> /\ Emit(e, 1, 0, 0, 1)
    BY <1>6 DEF AssumesBuild, EmitsBuild,
           Row, Emit, Plain, Pop, Take, Safely, Building, AddingTo
  <2>2. Marks(row.marks, 1, {v})
    BY <2>1, MarksAre, NumbersAssumption
  <2>3. 1 = 1 + 0 + 0 /\ 0 \in Nat /\ 1 \in Nat
    BY <1>0
  <2> QED BY <1>0, <2>1, <2>2, <2>3, MatchIs
<1>7. CASE op = "FORMAT_VALUE"
  <2>0. PICK m \in Nat : m = 1 + Bit(n, 4)
    BY <1>a
  <2>1. row.undo = 1 /\ row.marks = Times(m, v) /\ Emit(e, m, 0, 0, 1)
    BY <1>7, <2>0, <1>a DEF AssumesBuild, EmitsBuild,
           Row, Emit, Plain, Pop, Take, Safely, Building, AddingTo
  <2>2. Marks(row.marks, m, {v})
    BY <2>1, MarksAre, NumbersAssumption, <2>0, <1>a
  <2>3. m = m + 0 + 0 /\ 0 \in Nat /\ 1 \in Nat /\ m \in Nat
    BY <1>0, <2>0, <1>a
  <2> QED BY <1>0, <2>1, <2>2, <2>3, MatchIs, <2>0, <1>a
<1>8. CASE op = "BUILD_SLICE"
  <2>1. row.undo = 1 /\ row.marks = Times(n, v) /\ Emit(e, n, 0, 0, 1)
    BY <1>8 DEF AssumesBuild, EmitsBuild,
           Row, Emit, Plain, Pop, Take, Safely, Building, AddingTo
  <2>2. Marks(row.marks, n, {v})
    BY <2>1, MarksAre, NumbersAssumption
  <2>3. n = n + 0 + 0 /\ 0 \in Nat /\ 1 \in Nat /\ n \in Nat
    BY <1>0
  <2> QED BY <1>0, <2>1, <2>2, <2>3, MatchIs
<1>9. CASE op = "LOAD_ASSERTION_ERROR"
  <2>1. row.undo = 1 /\ row.marks = <<>> /\ Emit(e, 0, 0, 0, 1)
    BY <1>9 DEF AssumesBuild, EmitsBuild,
           Row, Emit, Plain, Pop, Take, Safely, Building, AddingTo
  <2>2. Marks(row.marks, 0, {v})
    BY <2>1, MarksAre, NumbersAssumption
  <2>3. 0 = 0 + 0 + 0 /\ 0 \in Nat /\ 1 \in Nat
    BY <1>0
  <2> QED BY <1>0, <2>1, <2>2, <2>3, MatchIs
<1>10. CASE op = "RAISE_VARARGS"
  <2>1. row.undo = 0 /\ row.marks = Times(n, v) /\ Emit(e, n, 0, 0, 0)
    BY <1>10 DEF AssumesBuild, EmitsBuild,
           Row, Emit, Plain, Pop, Take, Safely, Building, AddingTo
  <2>2. Marks(row.marks, n, {v})
    BY <2>1, MarksAre, NumbersAssumption
  <2>3. n = n + 0 + 0 /\ 0 \in Nat /\ n \in Nat
    BY <1>0
  <2> QED BY <1>0, <2>1, <2>2, <2>3, MatchIs
<1>11. CASE op = "SETUP_ANNOTATIONS"
  <2>1. row.undo = 0 /\ row.marks = <<>> /\ Emit(e, 0, 0, 0, 0)
    BY <1>11 DEF AssumesBuild, EmitsBuild,
           Row, Emit, Plain, Pop, Take, Safely, Building, AddingTo
  <2>2. Marks(row.marks, 0, {v})
    BY <2>1, MarksAre, NumbersAssumption
  <2>3. 0 = 0 + 0 + 0 /\ 0 \in Nat
    BY <1>0
  <2> QED BY <1>0, <2>1, <2>2, <2>3, MatchIs
<1> QED BY <1>1, <1>2, <1>3, <1>4, <1>5, <1>6, <1>7, <1>8, <1>9, <1>10, <1>11
        DEF BuildOps, Building, AddingTo

LEMMA PatternsMatch ==
  ASSUME NEW op \in PatternOps, op # "MATCH_CLASS", NEW n \in Nat, NEW v \in Nat
  PROVE  Match(op, AssumesPattern(op, n, v), EmitsPattern(op, n), v)
<1> SUFFICES ASSUME NEW row, row = AssumesPattern(op, n, v), NEW e, e = EmitsPattern(op, n)
             PROVE  Match(op, row, e, v)
  OBVIOUS
<1>0. op # "POP_TOP" /\ op # "SETUP_WITH"
  BY DEF PatternOps
<1>a. Unpacked(n) \in Nat
  BY DEF Unpacked
<1>1. CASE op = "UNPACK_SEQUENCE"
  <2>1. row.undo = n /\ row.marks = <<v>> /\ Emit(e, 1, 0, 0, n)
    BY <1>1 DEF AssumesPattern, EmitsPattern,
           Row, Emit, Plain, Pop, Take, Safely
  <2>2. Marks(row.marks, 1, {v})
    BY <2>1, MarksAre, NumbersAssumption
  <2>3. 1 = 1 + 0 + 0 /\ 0 \in Nat /\ 1 \in Nat /\ n \in Nat
    BY <1>0
  <2> QED BY <1>0, <2>1, <2>2, <2>3, MatchIs
<1>2. CASE op = "UNPACK_EX"
  <2>1. row.undo = Unpacked(n) /\ row.marks = <<v>> /\ Emit(e, 1, 0, 0, Unpacked(n))
    BY <1>2, <1>a DEF AssumesPattern, EmitsPattern,
           Row, Emit, Plain, Pop, Take, Safely
  <2>2. Marks(row.marks, 1, {v})
    BY <2>1, MarksAre, NumbersAssumption, <1>a
  <2>3. 1 = 1 + 0 + 0 /\ 0 \in Nat /\ 1 \in Nat /\ Unpacked(n) \in Nat
    BY <1>0, <1>a
  <2> QED BY <1>0, <2>1, <2>2, <2>3, MatchIs, <1>a
<1>3. CASE op \in {"GET_LEN", "MATCH_MAPPING", "MATCH_SEQUENCE"}
  <2>1. row.undo = 1 /\ row.marks = <<>> /\ Emit(e, 0, 0, 0, 1)
    BY <1>3 DEF AssumesPattern, EmitsPattern,
           Row, Emit, Plain, Pop, Take, Safely
  <2>2. Marks(row.marks, 0, {v})
    BY <2>1, MarksAre, NumbersAssumption
  <2>3. 0 = 0 + 0 + 0 /\ 0 \in Nat /\ 1 \in Nat
    BY <1>0
  <2> QED BY <1>0, <2>1, <2>2, <2>3, MatchIs
<1>4. CASE op = "MATCH_KEYS"
  <2>1. row.undo = 2 /\ row.marks = <<>> /\ Emit(e, 0, 0, 0, 2)
    BY <1>4 DEF AssumesPattern, EmitsPattern,
           Row, Emit, Plain, Pop, Take, Safely
  <2>2. Marks(row.marks, 0, {v})
    BY <2>1, MarksAre, NumbersAssumption
  <2>3. 0 = 0 + 0 + 0 /\ 0 \in Nat /\ 2 \in Nat
    BY <1>0
  <2> QED BY <1>0, <2>1, <2>2, <2>3, MatchIs
<1>5. CASE op = "COPY_DICT_WITHOUT_KEYS"
  <2>1. row.undo = 1 /\ row.marks = <<v>> /\ Emit(e, 1, 0, 0, 1)
    BY <1>5 DEF AssumesPattern, EmitsPattern,
           Row, Emit, Plain, Pop, Take, Safely
  <2>2. Marks(row.marks, 1, {v})
    BY <2>1, MarksAre, NumbersAssumption
  <2>3. 1 = 1 + 0 + 0 /\ 0 \in Nat /\ 1 \in Nat
    BY <1>0
  <2> QED BY <1>0, <2>1, <2>2, <2>3, MatchIs
<1> QED BY <1>1, <1>2, <1>3, <1>4, <1>5 DEF PatternOps

LEMMA GeneratorsMatch ==
  ASSUME NEW op \in GeneratorOps, op # "GEN_START", op # "BEFORE_ASYNC_WITH",
         NEW n \in Nat, NEW v \in Nat
  PROVE  Match(op, AssumesGenerator(op, v), EmitsGenerator(op, n), v)
<1> SUFFICES ASSUME NEW row, row = AssumesGenerator(op, v), NEW e, e = EmitsGenerator(op, n)
             PROVE  Match(op, row, e, v)
  OBVIOUS
<1>0. op # "POP_TOP" /\ op # "SETUP_WITH"
  BY DEF GeneratorOps
<1>1. CASE op = "YIELD_VALUE" /\ n = 0
  <2>1. row.undo = 1 /\ row.marks = <<v>> /\ Emit(e, 0, 0, 1, 1)
    BY <1>1 DEF AssumesGenerator, EmitsGenerator,
           Row, Emit, Plain, Pop, Take, Safely
  <2>2. Marks(row.marks, 1, {v})
    BY <2>1, MarksAre, NumbersAssumption
  <2>3. 1 = 0 + 0 + 1 /\ 0 \in Nat /\ 1 \in Nat
    BY <1>0
  <2> QED BY <1>0, <2>1, <2>2, <2>3, MatchIs
<1>2. CASE op = "YIELD_VALUE" /\ n # 0
  <2>1. row.undo = 1 /\ row.marks = <<v>> /\ Emit(e, 1, 0, 0, 1)
    BY <1>2 DEF AssumesGenerator, EmitsGenerator,
           Row, Emit, Plain, Pop, Take, Safely
  <2>2. Marks(row.marks, 1, {v})
    BY <2>1, MarksAre, NumbersAssumption
  <2>3. 1 = 1 + 0 + 0 /\ 0 \in Nat /\ 1 \in Nat
    BY <1>0
  <2> QED BY <1>0, <2>1, <2>2, <2>3, MatchIs
<1>3. CASE op \in {"GET_YIELD_FROM_ITER", "GET_AWAITABLE", "GET_AITER"}
  <2>1. row.undo = 1 /\ row.marks = <<v>> /\ Emit(e, 1, 0, 0, 1)
    BY <1>3 DEF AssumesGenerator, EmitsGenerator,
           Row, Emit, Plain, Pop, Take, Safely
  <2>2. Marks(row.marks, 1, {v})
    BY <2>1, MarksAre, NumbersAssumption
  <2>3. 1 = 1 + 0 + 0 /\ 0 \in Nat /\ 1 \in Nat
    BY <1>0
  <2> QED BY <1>0, <2>1, <2>2, <2>3, MatchIs
<1>4. CASE op = "YIELD_FROM"
  <2>1. row.undo = 1 /\ row.marks = <<v, Forever>> /\ Emit(e, 2, 0, 0, 1)
    BY <1>4 DEF AssumesGenerator, EmitsGenerator,
           Row, Emit, Plain, Pop, Take, Safely
  <2>2. Marks(row.marks, 2, {v, Forever})
    BY <2>1, MarksAre, NumbersAssumption
  <2>3. 2 = 2 + 0 + 0 /\ 0 \in Nat /\ 1 \in Nat /\ 2 \in Nat
    BY <1>0
  <2> QED BY <1>0, <2>1, <2>2, <2>3, MatchIs
<1>5. CASE op = "GET_ANEXT"
  <2>1. row.undo = 1 /\ row.marks = <<>> /\ Emit(e, 0, 0, 0, 1)
    BY <1>5 DEF AssumesGenerator, EmitsGenerator,
           Row, Emit, Plain, Pop, Take, Safely
  <2>2. Marks(row.marks, 0, {v})
    BY <2>1, MarksAre, NumbersAssumption
  <2>3. 0 = 0 + 0 + 0 /\ 0 \in Nat /\ 1 \in Nat
    BY <1>0
  <2> QED BY <1>0, <2>1, <2>2, <2>3, MatchIs
<1>6. CASE op = "END_ASYNC_FOR"
  <2>0. PICK m \in Nat : m = 7
    BY <1>0
  <2>1. row.undo = 0 /\ row.marks = Times(m, Forever) /\ Emit(e, 0, m, 0, 0)
    BY <1>6, <2>0 DEF AssumesGenerator, EmitsGenerator,
           Row, Emit, Plain, Pop, Take, Safely
  <2>2. Marks(row.marks, m, {Forever})
    BY <2>1, MarksAre, NumbersAssumption, <2>0
  <2>3. m = 0 + m + 0 /\ 0 \in Nat /\ m \in Nat
    BY <1>0, <2>0
  <2> QED BY <1>0, <2>1, <2>2, <2>3, MatchIs, <2>0, ZenonT(60)
<1>7. CASE op = "SETUP_ASYNC_WITH"
  <2>1. row.undo = 0 /\ row.marks = <<>> /\ Emit(e, 0, 0, 0, 0)
    BY <1>7 DEF AssumesGenerator, EmitsGenerator,
           Row, Emit, Plain, Pop, Take, Safely
  <2>2. Marks(row.marks, 0, {v})
    BY <2>1, MarksAre, NumbersAssumption
  <2>3. 0 = 0 + 0 + 0 /\ 0 \in Nat
    BY <1>0
  <2> QED BY <1>0, <2>1, <2>2, <2>3, MatchIs
<1> QED BY <1>1, <1>2, <1>3, <1>4, <1>5, <1>6, <1>7 DEF GeneratorOps

LEMMA HandlersMatch ==
  ASSUME NEW op \in HandlerOps, op # "RERAISE", op # "SETUP_WITH", NEW v \in Nat
  PROVE  Match(op, AssumesHandler(op, v), EmitsHandler(op), v)
<1> SUFFICES ASSUME NEW row, row = AssumesHandler(op, v), NEW e, e = EmitsHandler(op)
             PROVE  Match(op, row, e, v)
  OBVIOUS
<1>0. op # "POP_TOP" /\ op # "SETUP_WITH"
  BY DEF HandlerOps
<1>1. CASE op \in {"SETUP_FINALLY", "POP_BLOCK"}
  <2>1. row.undo = 0 /\ row.marks = <<>> /\ Emit(e, 0, 0, 0, 0)
    BY <1>1 DEF AssumesHandler, EmitsHandler,
           Row, Emit, Plain, Pop, Take, Safely
  <2>2. Marks(row.marks, 0, {v})
    BY <2>1, MarksAre, NumbersAssumption
  <2>3. 0 = 0 + 0 + 0 /\ 0 \in Nat
    BY <1>0
  <2> QED BY <1>0, <2>1, <2>2, <2>3, MatchIs
<1>2. CASE op = "POP_EXCEPT"
  <2>1. row.undo = 0 /\ row.marks = <<v, v, v>> /\ Emit(e, 0, 3, 0, 0)
    BY <1>2 DEF AssumesHandler, EmitsHandler,
           Row, Emit, Plain, Pop, Take, Safely
  <2>2. Marks(row.marks, 3, {v})
    BY <2>1, MarksAre, NumbersAssumption
  <2>3. 3 = 0 + 3 + 0 /\ 0 \in Nat /\ 3 \in Nat
    BY <1>0
  <2> QED BY <1>0, <1>2, <2>1, <2>2, <2>3, MatchIs
<1>3. CASE op = "JUMP_IF_NOT_EXC_MATCH"
  <2>1. row.undo = 0 /\ row.marks = <<v, v>> /\ Emit(e, 2, 0, 0, 0)
    BY <1>3 DEF AssumesHandler, EmitsHandler,
           Row, Emit, Plain, Pop, Take, Safely
  <2>2. Marks(row.marks, 2, {v})
    BY <2>1, MarksAre, NumbersAssumption
  <2>3. 2 = 2 + 0 + 0 /\ 0 \in Nat /\ 2 \in Nat
    BY <1>0
  <2> QED BY <1>0, <2>1, <2>2, <2>3, MatchIs
<1>4. CASE op = "WITH_EXCEPT_START"
  <2>1. row.undo = 1 /\ row.marks = <<>> /\ Emit(e, 0, 0, 0, 1)
    BY <1>4 DEF AssumesHandler, EmitsHandler,
           Row, Emit, Plain, Pop, Take, Safely
  <2>2. Marks(row.marks, 0, {v})
    BY <2>1, MarksAre, NumbersAssumption
  <2>3. 0 = 0 + 0 + 0 /\ 0 \in Nat /\ 1 \in Nat
    BY <1>0
  <2> QED BY <1>0, <2>1, <2>2, <2>3, MatchIs
<1> QED BY <1>1, <1>2, <1>3, <1>4 DEF HandlerOps

LEMMA CallsMatch ==
  ASSUME NEW op \in CallOps, NEW n \in Nat, op # "CALL_FUNCTION_EX", NEW v \in Nat
  PROVE  Match(op, AssumesCall(op, n, v), EmitsCall(op, n), v)
<1> SUFFICES ASSUME NEW row, row = AssumesCall(op, n, v), NEW e, e = EmitsCall(op, n)
             PROVE  Match(op, row, e, v)
  OBVIOUS
<1>0. op # "POP_TOP" /\ op # "SETUP_WITH"
  BY DEF CallOps
<1>a. Extras(n) \in Nat
  BY DEF Extras, Bit
<1>1. CASE op = "RETURN_VALUE"
  <2>1. row.undo = 0 /\ row.marks = <<v>> /\ Emit(e, 0, 0, 1, 0)
    BY <1>1 DEF AssumesCall, EmitsCall,
           Row, Emit, Plain, Pop, Take, Safely
  <2>2. Marks(row.marks, 1, {v})
    BY <2>1, MarksAre, NumbersAssumption
  <2>3. 1 = 0 + 0 + 1 /\ 0 \in Nat /\ 1 \in Nat
    BY <1>0
  <2> QED BY <1>0, <2>1, <2>2, <2>3, MatchIs
<1>2. CASE op = "IMPORT_STAR"
  <2>1. row.undo = 0 /\ row.marks = <<v>> /\ Emit(e, 1, 0, 0, 0)
    BY <1>2 DEF AssumesCall, EmitsCall,
           Row, Emit, Plain, Pop, Take, Safely
  <2>2. Marks(row.marks, 1, {v})
    BY <2>1, MarksAre, NumbersAssumption
  <2>3. 1 = 1 + 0 + 0 /\ 0 \in Nat /\ 1 \in Nat
    BY <1>0
  <2> QED BY <1>0, <2>1, <2>2, <2>3, MatchIs
<1>3. CASE op = "CALL_FUNCTION"
  <2>0. PICK m \in Nat : m = n + 1
    BY <1>0
  <2>1. row.undo = 1 /\ row.marks = Times(m, Forever) /\ Emit(e, 0, m, 0, 1)
    BY <1>3, <2>0 DEF AssumesCall, EmitsCall,
           Row, Emit, Plain, Pop, Take, Safely
  <2>2. Marks(row.marks, m, {Forever})
    BY <2>1, MarksAre, NumbersAssumption, <2>0
  <2>3. m = 0 + m + 0 /\ 0 \in Nat /\ 1 \in Nat /\ m \in Nat
    BY <1>0, <2>0
  <2> QED BY <1>0, <2>1, <2>2, <2>3, MatchIs, <2>0
<1>4. CASE op \in {"CALL_METHOD", "CALL_FUNCTION_KW"}
  <2>0. PICK m \in Nat : m = n + 2
    BY <1>0
  <2>1. row.undo = 1 /\ row.marks = Times(m, Forever) /\ Emit(e, 0, m, 0, 1)
    BY <1>4, <2>0 DEF AssumesCall, EmitsCall,
           Row, Emit, Plain, Pop, Take, Safely
  <2>2. Marks(row.marks, m, {Forever})
    BY <2>1, MarksAre, NumbersAssumption, <2>0
  <2>3. m = 0 + m + 0 /\ 0 \in Nat /\ 1 \in Nat /\ m \in Nat
    BY <1>0, <2>0
  <2> QED BY <1>0, <2>1, <2>2, <2>3, MatchIs, <2>0
<1>5. CASE op = "MAKE_FUNCTION"
  <2>0. PICK m \in Nat : m = 2 + Extras(n)
    BY <1>a
  <2>1. row.undo = 1 /\ row.marks = Times(m, Forever) /\ Emit(e, 2, 0, Extras(n), 1)
    BY <1>5, <2>0, <1>a DEF AssumesCall, EmitsCall,
           Row, Emit, Plain, Pop, Take, Safely
  <2>2. Marks(row.marks, m, {Forever})
    BY <2>1, MarksAre, NumbersAssumption, <2>0, <1>a
  <2>3. m = 2 + 0 + Extras(n) /\ 0 \in Nat /\ 1 \in Nat /\ 2 \in Nat /\ Extras(n) \in Nat
    BY <1>0, <2>0, <1>a
  <2> QED BY <1>0, <2>1, <2>2, <2>3, MatchIs, <2>0, <1>a
<1>6. CASE op \in {"LOAD_CLOSURE", "LOAD_BUILD_CLASS", "IMPORT_FROM"}
  <2>1. row.undo = 1 /\ row.marks = <<>> /\ Emit(e, 0, 0, 0, 1)
    BY <1>6 DEF AssumesCall, EmitsCall,
           Row, Emit, Plain, Pop, Take, Safely
  <2>2. Marks(row.marks, 0, {v})
    BY <2>1, MarksAre, NumbersAssumption
  <2>3. 0 = 0 + 0 + 0 /\ 0 \in Nat /\ 1 \in Nat
    BY <1>0
  <2> QED BY <1>0, <2>1, <2>2, <2>3, MatchIs
<1>7. CASE op = "IMPORT_NAME"
  <2>1. row.undo = 1 /\ row.marks = <<v, v>> /\ Emit(e, 2, 0, 0, 1)
    BY <1>7 DEF AssumesCall, EmitsCall,
           Row, Emit, Plain, Pop, Take, Safely
  <2>2. Marks(row.marks, 2, {v})
    BY <2>1, MarksAre, NumbersAssumption
  <2>3. 2 = 2 + 0 + 0 /\ 0 \in Nat /\ 1 \in Nat /\ 2 \in Nat
    BY <1>0
  <2> QED BY <1>0, <2>1, <2>2, <2>3, MatchIs
<1> QED BY <1>1, <1>2, <1>3, <1>4, <1>5, <1>6, <1>7 DEF CallOps

LEMMA MappingCallMatch ==
  ASSUME NEW n \in Nat, NEW v \in Nat
  PROVE  Match("CALL_FUNCTION_EX", AssumesCall("CALL_FUNCTION_EX", n, v),
               EmitsCall("CALL_FUNCTION_EX", n), v)
<1> SUFFICES ASSUME NEW op, op = "CALL_FUNCTION_EX", NEW row, row = AssumesCall(op, n, v),
                    NEW e, e = EmitsCall(op, n)
             PROVE  Match(op, row, e, v)
  OBVIOUS
<1>0. PICK p \in {2, 3} : p = 2 + Bit(n, 1) /\ Bit(n, 1) \in {0, 1}
  BY DEF Bit
<1>1. row.undo = 1 /\ row.marks = Times(p, v)
  BY <1>0 DEF AssumesCall, Row
<1>2. /\ e.pop = p /\ e.take = 0 /\ e.keep = 0 /\ e.push = 1 /\ e.lost = 0
      /\ e.always = Bit(n, 1) /\ e.early = FALSE /\ e.borrowed = FALSE /\ e.blind = FALSE
  BY <1>0 DEF EmitsCall, Pop, Plain
<1>3. Marks(row.marks, p, {v})
  BY <1>0, <1>1, MarksAre
<1>4. Marks(row.marks, p, {v, Forever})
  BY <1>3, MarksIn
<1>5. Marks(row.marks, e.pop + e.take + e.keep,
            IF op = "POP_TOP" THEN Nat
            ELSE IF e.take > 0 /\ op # "POP_EXCEPT" THEN {Forever} ELSE {v, Forever})
  BY <1>0, <1>2, <1>4
<1>6. e.always = 0 \/ (op = "CALL_FUNCTION_EX" /\ e.always = 1 /\ e.pop = 3 /\ e.keep = 0)
  BY <1>0, <1>2
<1>7. op # "SETUP_WITH"
  OBVIOUS
<1>8. e.take = 0 \/ e.pop + e.keep = 0
  BY <1>2
<1>9. /\ e.pop \in Nat /\ e.take \in Nat /\ e.keep \in Nat /\ e.push \in Nat /\ e.lost \in Nat
      /\ row.undo = e.push
  BY <1>0, <1>1, <1>2
<1>10. e.blind = IF op = "SETUP_WITH" THEN TRUE ELSE FALSE
  BY <1>2, <1>7
<1> HIDE DEF Match
<1> QED BY ONLY <1>2, <1>5, <1>6, <1>8, <1>9, <1>10 DEF Match

LEMMA SetupWithMatch ==
  ASSUME NEW v \in Nat
  PROVE  Match("SETUP_WITH", AssumesHandler("SETUP_WITH", v), EmitsHandler("SETUP_WITH"), v)
<1> SUFFICES ASSUME NEW op, op = "SETUP_WITH", NEW row, row = AssumesHandler(op, v),
                    NEW e, e = EmitsHandler(op)
             PROVE  Match(op, row, e, v)
  OBVIOUS
<1>1. row.undo = 2 /\ row.marks = <<Forever>>
  BY DEF AssumesHandler, Row
<1>2. /\ e.pop = 0 /\ e.take = 1 /\ e.keep = 0 /\ e.push = 2 /\ e.lost = 0 /\ e.always = 0
      /\ e.early = FALSE /\ e.borrowed = FALSE /\ e.blind = TRUE
  BY DEF EmitsHandler, Take, Plain
<1>3. Marks(row.marks, 1, {Forever})
  BY <1>1, MarksAre, NumbersAssumption
<1>4. Marks(row.marks, e.pop + e.take + e.keep,
            IF op = "POP_TOP" THEN Nat
            ELSE IF e.take > 0 /\ op # "POP_EXCEPT" THEN {Forever} ELSE {v, Forever})
  BY <1>2, <1>3
<1>8. e.take = 0 \/ e.pop + e.keep = 0
  BY <1>2
<1>9. /\ e.pop \in Nat /\ e.take \in Nat /\ e.keep \in Nat /\ e.push \in Nat /\ e.lost \in Nat
      /\ row.undo = e.push /\ e.always = 0
  BY <1>1, <1>2
<1>10. e.blind = IF op = "SETUP_WITH" THEN TRUE ELSE FALSE
  BY <1>2
<1> QED BY ONLY <1>2, <1>4, <1>8, <1>9, <1>10 DEF Match

LEMMA PopTopMatch ==
  ASSUME NEW n, NEW u, NEW v \in Nat
  PROVE  Match("POP_TOP", AssumesMove("POP_TOP", n, u, v), EmitsMove("POP_TOP"), v)
<1> SUFFICES ASSUME NEW op, op = "POP_TOP", NEW row, row = AssumesMove(op, n, u, v),
                    NEW e, e = EmitsMove(op)
             PROVE  Match(op, row, e, v)
  OBVIOUS
<1>1. row.undo = 0 /\ row.marks = <<Anytime>>
  BY DEF AssumesMove, Row
<1>2. Emit(e, 1, 0, 0, 0)
  BY DEF EmitsMove, Pop, Plain, Safely, Emit
<1>3. Marks(row.marks, 1, {Anytime})
  BY <1>1, MarksAre, NumbersAssumption
<1>4. Marks(row.marks, 1, Nat)
  BY <1>3, MarksIn, NumbersAssumption
<1>5. Marks(row.marks, e.pop + e.take + e.keep,
            IF op = "POP_TOP" THEN Nat
            ELSE IF e.take > 0 /\ op # "POP_EXCEPT" THEN {Forever} ELSE {v, Forever})
  BY <1>2, <1>4 DEF Emit
<1>8. e.take = 0 \/ e.pop + e.keep = 0
  BY <1>2 DEF Emit
<1>9. /\ e.pop \in Nat /\ e.take \in Nat /\ e.keep \in Nat /\ e.push \in Nat /\ e.lost \in Nat
      /\ row.undo = e.push /\ e.always = 0 /\ e.early = FALSE /\ e.borrowed = FALSE
  BY <1>1, <1>2 DEF Emit
<1>10. e.blind = IF op = "SETUP_WITH" THEN TRUE ELSE FALSE
  BY <1>2 DEF Emit
<1> QED BY ONLY <1>5, <1>8, <1>9, <1>10 DEF Match

LEMMA NothingMatch ==
  ASSUME NEW op \in {"NOP", "EXTENDED_ARG"}, NEW n, NEW u, NEW v \in Nat
  PROVE  Match(op, AssumesMove(op, n, u, v), EmitsMove(op), v)
<1> SUFFICES ASSUME NEW row, row = AssumesMove(op, n, u, v), NEW e, e = EmitsMove(op)
             PROVE  Match(op, row, e, v)
  OBVIOUS
<1>0. op # "POP_TOP" /\ op # "SETUP_WITH"
  OBVIOUS
<1>1. row.undo = 0 /\ row.marks = <<>>
  BY DEF AssumesMove, Row
<1>2. Emit(e, 0, 0, 0, 0)
  BY DEF EmitsMove, Plain, Safely, Emit
<1>3. Marks(row.marks, 0, {v})
  BY <1>1, MarksAre
<1>4. 0 = 0 + 0 + 0 /\ 0 \in Nat
  OBVIOUS
<1> QED BY <1>0, <1>1, <1>2, <1>3, <1>4, MatchIs

Families == <<MoveOps, NameOps, OperatorOps, CallOps, JumpOps, BuildOps, PatternOps, HandlerOps,
              GeneratorOps>>

\* An opcode is in one family only.
LEMMA OneFamily ==
  ASSUME NEW op
  PROVE  \A i, j \in 1 .. 9 : op \in Families[i] /\ op \in Families[j] => i = j
BY SMTT(30) DEF Families, MoveOps, NameOps, OperatorOps, UnaryOps, BinaryOps, CallOps, JumpOps, PopJumps,
       OrPopJumps, BuildOps, Building, AddingTo, PatternOps, HandlerOps, GeneratorOps

\* Opcodes whose result comes from Emits, the row from Assumes.
LEMMA TablesMatch ==
  ASSUME NEW op \in Supported \ Moves, op # "RERAISE", NEW n \in Nat, NEW u, NEW v \in Nat
  PROVE  Match(op, Assumes(op, n, u, v), Emits(op, n), v)
<1>1. /\ op # "IS_OP" /\ op # "GEN_START" /\ op # "BEFORE_ASYNC_WITH" /\ op # "CONTAINS_OP"
      /\ op # "MATCH_CLASS" /\ op \notin OrPopJumps /\ \E i \in 1 .. 9 : op \in Families[i]
  <2>1. op \notin Wrong /\ op \in MoveOps \cup NameOps \cup OperatorOps \cup CallOps \cup JumpOps
          \cup BuildOps \cup PatternOps \cup HandlerOps \cup GeneratorOps
    BY DEF Supported
  <2> QED BY <2>1 DEF Wrong, Families
<1>3. \A i, j \in 1 .. 9 : op \in Families[i] /\ op \in Families[j] => i = j
  BY OneFamily
<1>4. CASE op \in MoveOps
  <2>1. Assumes(op, n, u, v) = AssumesMove(op, n, u, v) /\ Emits(op, n) = EmitsMove(op)
    <3>1. /\ op \notin NameOps /\ op \notin OperatorOps /\ op \notin CallOps /\ op \notin JumpOps
          /\ op \notin BuildOps /\ op \notin PatternOps /\ op \notin HandlerOps
          /\ op \notin GeneratorOps
      BY <1>3, <1>4 DEF Families
    <3> QED BY <1>4, <3>1 DEF Assumes, Emits
  <2>2. op \in {"NOP", "EXTENDED_ARG", "POP_TOP"}
    BY <1>4 DEF MoveOps, Moves
  <2> QED BY <2>1, <2>2, PopTopMatch, NothingMatch
<1>5. CASE op \in NameOps
  <2>1. Assumes(op, n, u, v) = AssumesName(op, v) /\ Emits(op, n) = EmitsName(op)
    BY <1>3, <1>5 DEF Assumes, Emits, Families
  <2> QED BY <1>5, <2>1, NamesMatch
<1>6. CASE op \in OperatorOps
  <2>1. Assumes(op, n, u, v) = AssumesOperator(op, v) /\ Emits(op, n) = EmitsOperator(op)
    BY <1>3, <1>6 DEF Assumes, Emits, Families
  <2> QED BY <1>1, <1>6, <2>1, OperatorsMatch
<1>7. CASE op \in CallOps
  <2>1. Assumes(op, n, u, v) = AssumesCall(op, n, v) /\ Emits(op, n) = EmitsCall(op, n)
    BY <1>3, <1>7 DEF Assumes, Emits, Families
  <2> QED BY <1>7, <2>1, CallsMatch, MappingCallMatch
<1>8. CASE op \in JumpOps
  <2>1. Assumes(op, n, u, v) = AssumesJump(op, v) /\ Emits(op, n) = EmitsJump(op)
    BY <1>3, <1>8 DEF Assumes, Emits, Families
  <2> QED BY <1>1, <1>8, <2>1, JumpsMatch
<1>9. CASE op \in BuildOps
  <2>1. Assumes(op, n, u, v) = AssumesBuild(op, n, v) /\ Emits(op, n) = EmitsBuild(op, n)
    BY <1>3, <1>9 DEF Assumes, Emits, Families
  <2> QED BY <1>9, <2>1, BuildsMatch
<1>10. CASE op \in PatternOps
  <2>1. Assumes(op, n, u, v) = AssumesPattern(op, n, v) /\ Emits(op, n) = EmitsPattern(op, n)
    BY <1>3, <1>10 DEF Assumes, Emits, Families
  <2> QED BY <1>1, <1>10, <2>1, PatternsMatch
<1>11. CASE op \in HandlerOps
  <2>1. Assumes(op, n, u, v) = AssumesHandler(op, v) /\ Emits(op, n) = EmitsHandler(op)
    BY <1>3, <1>11 DEF Assumes, Emits, Families
  <2> QED BY <1>11, <2>1, HandlersMatch, SetupWithMatch
<1>12. CASE op \in GeneratorOps
  <2>1. Assumes(op, n, u, v) = AssumesGenerator(op, v) /\ Emits(op, n) = EmitsGenerator(op, n)
    BY <1>3, <1>12 DEF Assumes, Emits, Families
  <2> QED BY <1>1, <1>12, <2>1, GeneratorsMatch
<1> QED BY <1>1, <1>4, <1>5, <1>6, <1>7, <1>8, <1>9, <1>10, <1>11, <1>12 DEF Families

-----------------------------------------------------------------------------
(* The invariant.                                                          *)

Size(c) == Cardinality(DOMAIN c)

Stores(c, x, v) == c[v].op = "STORE_FAST" /\ c[v].arg = x

\* When the i-th of len values on the stack is last used.
Due(u, len, i) == LET k == Len(u) - len + i IN IF k >= 1 THEN u[k] ELSE Forever

\* h[v] is what the backward pass knew once it had gone over the units from v on.
RowAt(c, h, v) == Assumes(c[v].op, c[v].arg, h[v + 1].until, v)

Analysed(c, h, from) ==
  /\ h[Size(c)].until = <<>> /\ h[Size(c)].effect = 0
  /\ \A v \in from .. Size(c) : h[v].until \in Seq(Nat) /\ h[v].effect \in Int
  /\ \A v \in from .. Size(c) - 1 :
       LET row == RowAt(c, h, v)
       IN  /\ row.undo \in Nat /\ row.marks \in Seq(Nat)
           /\ h[v].until = Without(h[v + 1].until, row.undo) \o row.marks
           /\ h[v].effect = h[v + 1].effect + row.undo - Len(row.marks)

\* A value the stack does not own is last used before the block ends, and until then
\* it is the constant, or its local holds it and is not stored to.
Lasting(c, value, t, v, fs) ==
  \/ value.really_pushed
  \/ /\ t < Size(c)
     /\ t >= v =>
          \/ value.value = Const
          \/ /\ value.local \in Local /\ fs[value.local] = value.value
             /\ \A w \in v .. t : ~Stores(c, value.local, w)

Lasts(c, s, u, v, fs) == \A i \in 1 .. Len(s) : Lasting(c, s[i], Due(u, Len(s), i), v, fs)

\* What the pass found out about loads.
LoadsKnown(c, h, loads, from) ==
  /\ \A v \in loads :
       LET t == Due(h[v + 1].until, 1, 1)
       IN  /\ v \in from .. Size(c) - 1 /\ t < Size(c)
           /\ \/ c[v].op = "LOAD_CONST"
              \/ c[v].op = "LOAD_FAST" /\ \A w \in v + 1 .. t : ~Stores(c, c[v].arg, w)
  /\ \A v \in from + 1 .. Size(c) - 1 : c[v].op = "UNPACK_SEQUENCE" => v - 1 \in loads

StoresKnown(c, next, from) ==
  \A x \in Local :
    /\ next[x] \in from .. Size(c) /\ (next[x] < Size(c) => Stores(c, x, next[x]))
    /\ \A w \in from .. Size(c) - 1 : Stores(c, x, w) => next[x] <= w

InLocals(fs, o) == Cardinality({x \in Local : fs[x] = o})
Own(o)          == IF o = Const THEN 1 ELSE 0

\* Objects are 1 .. N.  Every value the stack owns is in its slot, and counted.
Backed(s, f, fs, r, N) ==
  /\ N \in Nat /\ N >= 1 /\ DOMAIN r = 1 .. N
  /\ Indexed(s) /\ Len(s) <= MaxHeight /\ DOMAIN f = 1 .. MaxHeight /\ Placed(s, f)
  /\ \A i \in 1 .. Len(s) : s[i].value \in 1 .. N
  /\ DOMAIN fs = Local /\ \A x \in Local : fs[x] \in 0 .. N
  /\ \A o \in 1 .. N :
       r[o] \in Int /\ r[o] >= UpTo(Mine(s, o), Len(s)) + InLocals(fs, o) + Own(o)

\* The stack s before the unit v, of a block left with `total` values.
Before(c, h, s, v, f, fs, r, N, total) ==
  /\ Backed(s, f, fs, r, N) /\ Lasts(c, s, h[v].until, v, fs)
  /\ Len(s) + h[v].effect = total

Total == initial_stack_height + stack_effect

Known(h) == Analysed(code, h, 0) /\ LoadsKnown(code, h, redundant_loads, 0)

Analysing(h, N) ==
  /\ phase = "analyse" /\ vpc \in 1 .. Size(code)
  /\ Analysed(code, h, vpc) /\ LoadsKnown(code, h, redundant_loads, vpc)
  /\ StoresKnown(code, locals, vpc) /\ DOMAIN locals = Local
  /\ until = h[vpc].until /\ stack_effect = h[vpc].effect
  /\ Backed(abstract_stack, slot, fast, refs, N)
  /\ \A i \in 1 .. Len(abstract_stack) : abstract_stack[i].really_pushed
  /\ Len(abstract_stack) = initial_stack_height
  /\ stack_height = initial_stack_height /\ sp = initial_stack_height
  /\ operands = <<>> /\ taken = <<>>

BetweenUnits(h, N) ==
  /\ phase = "emit" /\ vpc \in 0 .. Size(code) - 1 /\ Known(h)
  /\ Before(code, h, abstract_stack, vpc, slot, fast, refs, N, Total)
  /\ stack_height = UpTo(Owned(abstract_stack), Len(abstract_stack)) /\ sp = stack_height
  /\ operands = <<>> /\ taken = <<>>
  /\ unit.op = "UNPACK_SEQUENCE" =>
       Len(abstract_stack) >= 1 /\ ~abstract_stack[Len(abstract_stack)].really_pushed

\* w is the stack the instruction was begun with.
Takes(w, e) ==
  LET L == Len(w)
  IN  /\ L >= e.pop + e.take + e.keep
      /\ Indexed(operands) /\ Len(operands) = e.pop
      /\ \A i \in 1 .. e.pop : operands[i] = w[L - e.pop + i]
      /\ Indexed(taken) /\ Len(taken) = e.take
      /\ \A i \in 1 .. e.take : taken[i] = w[L - e.pop - e.take + i] /\ taken[i].really_pushed
      /\ Indexed(abstract_stack)
      /\ Len(abstract_stack) = IF e.blind THEN L - e.pop ELSE L - e.pop - e.take
      /\ \A i \in 1 .. Len(abstract_stack) : abstract_stack[i] = w[i]
      /\ stack_height = UpTo(Owned(w), L - e.pop - e.take)
      /\ sp \in stack_height .. UpTo(Owned(w), L)

Checked(op, w, e) ==
  LET L == Len(w)
  IN  /\ L - (e.pop + e.take + e.keep) + e.push <= MaxHeight
      /\ e.always = 1 => w[L].really_pushed
      /\ op = "FOR_ITER" => L >= 1 /\ w[L].really_pushed
      /\ op = "YIELD_FROM" => w[L - 1].really_pushed
      /\ op = "UNPACK_SEQUENCE" => ~w[L].really_pushed /\ sp = stack_height

InUnit(h, N, w) ==
  /\ phase = "call" /\ vpc \in 0 .. Size(code) - 1 /\ Known(h) /\ unit.op \notin Moves
  /\ Before(code, h, w, vpc, slot, fast, refs, N, Total)
  /\ Takes(w, Emits(unit.op, unit.arg)) /\ Checked(unit.op, w, Emits(unit.op, unit.arg))

Left ==
  /\ phase \in {"fell", "branched", "returned", "raised"}
  /\ NothingReleasedTwice /\ TakenAreOwned /\ HeightsAgree

IInv ==
  /\ Compiled(code) /\ initial_stack_height \in 0 .. MaxHeight
  /\ \/ \E h, N : Analysing(h, N)
     \/ \E h, N : BetweenUnits(h, N)
     \/ \E h, N, w : InUnit(h, N, w)
     \/ Left

-----------------------------------------------------------------------------
(* Values in slots and in locals, counted.                                 *)

\* How many of the values up to k the stack owns.
LEMMA HeightIs ==
  ASSUME NEW s, Indexed(s)
  PROVE  \A k \in 0 .. Len(s) : /\ UpTo(Owned(s), k) \in 0 .. k
                                /\ UpTo(Owned(s), k) <= UpTo(Owned(s), Len(s))
<1> SUFFICES ASSUME NEW k \in 0 .. Len(s)
             PROVE  UpTo(Owned(s), k) \in 0 .. k /\ UpTo(Owned(s), k) <= UpTo(Owned(s), Len(s))
  OBVIOUS
<1>1. /\ k \in Nat /\ Len(s) \in Nat /\ k <= Len(s) /\ 0 \in Nat /\ 0 <= k
      /\ Owned(s) \in SUBSET Positive /\ UpTo(Owned(s), 0) = 0
  BY OwnedIs DEF Indexed
<1>2. UpTo(Owned(s), k) \in Nat
  BY <1>1, UpToType
<1>3. UpTo(Owned(s), k) - UpTo(Owned(s), 0) <= k - 0
  BY <1>1, UpToGrows
<1>4. UpTo(Owned(s), k) <= UpTo(Owned(s), Len(s))
  BY <1>1, UpToGrows
<1> QED BY <1>1, <1>2, <1>3, <1>4

LEMMA InLocalsType ==
  ASSUME NEW fs, NEW o
  PROVE  InLocals(fs, o) \in Nat /\ IsFiniteSet({x \in Local : fs[x] = o})
<1>1. IsFiniteSet({x \in Local : fs[x] = o})
  BY LocalAssumption, FS_Subset
<1> QED BY <1>1, FS_CardinalityType DEF InLocals

Assigned(ls, fs, x, a) == DOMAIN fs = Local /\ x \in Local /\ ls = [fs EXCEPT ![x] = a]

LEMMA InLocalsExcept ==
  ASSUME NEW fs, NEW x, NEW a, NEW ls, Assigned(ls, fs, x, a), NEW o
  PROVE  InLocals(ls, o)
           = InLocals(fs, o) - (IF fs[x] = o THEN 1 ELSE 0) + (IF a = o THEN 1 ELSE 0)
<1> USE DEF Assigned
<1> DEFINE new  == {y \in Local : ls[y] = o}
           old  == {y \in Local : fs[y] = o}
           rest == {y \in Local : y # x /\ fs[y] = o}
<1>1. new = IF a = o THEN rest \cup {x} ELSE rest
  OBVIOUS
<1>2. old = IF fs[x] = o THEN rest \cup {x} ELSE rest
  OBVIOUS
<1>3. IsFiniteSet(rest) /\ x \notin rest
  BY LocalAssumption, FS_Subset
<1>4. InLocals(ls, o) = Cardinality(new) /\ InLocals(fs, o) = Cardinality(old)
  BY DEF InLocals
<1> HIDE DEF new, old, rest
<1>5. Cardinality(rest \cup {x}) = Cardinality(rest) + 1 /\ Cardinality(rest) \in Nat
  BY <1>3, FS_AddElement, FS_CardinalityType
<1> QED BY <1>1, <1>2, <1>4, <1>5

\* A local that holds an object keeps it alive.
LEMMA InLocalsSome ==
  ASSUME NEW fs, NEW x \in Local
  PROVE  InLocals(fs, fs[x]) >= 1
<1>1. x \in {y \in Local : fs[y] = fs[x]} /\ IsFiniteSet({y \in Local : fs[y] = fs[x]})
  BY InLocalsType
<1>2. Cardinality({y \in Local : fs[y] = fs[x]}) # 0
  BY <1>1, FS_EmptySet
<1>3. InLocals(fs, fs[x]) \in Nat
  BY InLocalsType
<1> QED BY <1>2, <1>3 DEF InLocals

\* The objects of the slots up to d are counted.
LEMMA BackedCounts ==
  ASSUME NEW s, NEW f, NEW fs, NEW r, NEW N, Backed(s, f, fs, r, N),
         NEW d \in Nat, d <= UpTo(Owned(s), Len(s))
  PROVE  \A o \in DOMAIN r :
           r[o] >= Cardinality({i \in 1 .. d : f[i] = o}) + InLocals(fs, o) + Own(o)
<1> SUFFICES ASSUME NEW o \in 1 .. N
             PROVE  r[o] >= Cardinality({i \in 1 .. d : f[i] = o}) + InLocals(fs, o) + Own(o)
  BY DEF Backed
<1>1. /\ Indexed(s) /\ Len(s) <= MaxHeight /\ DOMAIN f = 1 .. MaxHeight /\ Placed(s, f)
      /\ r[o] \in Int /\ r[o] >= UpTo(Mine(s, o), Len(s)) + InLocals(fs, o) + Own(o)
  BY DEF Backed
<1>2. PICK k \in Nat : k = UpTo(Owned(s), Len(s))
  BY <1>1, OwnedIs DEF Indexed
<1>3. k <= Len(s) /\ Len(s) \in Nat /\ Len(s) \in 0 .. Len(s)
  <2>1. /\ Owned(s) \in SUBSET Positive /\ UpTo(Owned(s), 0) = 0
        /\ 0 \in Nat /\ Len(s) \in Nat /\ 0 <= Len(s)
    BY <1>1, OwnedIs DEF Indexed
  <2>2. UpTo(Owned(s), Len(s)) - UpTo(Owned(s), 0) <= Len(s) - 0
    BY <2>1, UpToGrows
  <2> QED BY <1>2, <2>1, <2>2
<1>4. UpTo(Holding(f, o), k) = UpTo(Mine(s, o), Len(s))
  BY <1>1, <1>2, <1>3, SlotsHold, NumbersAssumption
<1>5. Holding(f, o) \in SUBSET Positive
  BY <1>1 DEF Holding, Positive
<1>6. UpTo(Holding(f, o), d) <= UpTo(Holding(f, o), k)
  BY <1>2, <1>5, UpToGrows
<1>7. {i \in 1 .. d : f[i] = o} = {i \in Holding(f, o) : i <= d}
  <2>1. d <= MaxHeight /\ MaxHeight \in Nat
    BY <1>1, <1>2, <1>3, NumbersAssumption
  <2> QED BY <1>1, <2>1 DEF Holding
<1>8. Cardinality({i \in 1 .. d : f[i] = o}) = UpTo(Holding(f, o), d)
  BY <1>7 DEF UpTo
<1>9. InLocals(fs, o) \in Nat /\ Own(o) \in Nat /\ UpTo(Mine(s, o), Len(s)) \in Nat
  BY <1>1, <1>3, InLocalsType, OwnedIs DEF Own
<1>10. UpTo(Holding(f, o), d) \in Nat
  BY <1>5, UpToType
<1> QED BY <1>1, <1>4, <1>6, <1>8, <1>9, <1>10

\* Values t are put on s cut down to m: slots become g, locals ls, counts q, objects 1 .. M.
Rebacked(a, s, m, t, f, fs, r, N, g, ls, q, M) ==
  /\ Backed(s, f, fs, r, N) /\ Joined(a, s, m, t) /\ Len(a) <= MaxHeight
  /\ DOMAIN g = 1 .. MaxHeight /\ \A i \in 1 .. UpTo(Owned(s), m) : g[i] = f[i]
  /\ \A k \in Owned(t) : g[UpTo(Owned(s), m) + UpTo(Owned(t), k)] = t[k].value
  /\ M \in Nat /\ N <= M /\ DOMAIN q = 1 .. M
  /\ DOMAIN ls = Local /\ \A x \in Local : ls[x] \in 0 .. M
  /\ \A k \in 1 .. Len(t) : t[k].value \in 1 .. M
  /\ \A o \in 1 .. M :
       /\ q[o] \in Int
       /\ q[o] >= UpTo(Mine(s, o), m) + UpTo(Mine(t, o), Len(t)) + InLocals(ls, o) + Own(o)

LEMMA BackedJoined ==
  ASSUME NEW a, NEW s, NEW m, NEW t, NEW f, NEW fs, NEW r, NEW N, NEW g, NEW ls, NEW q, NEW M,
         Rebacked(a, s, m, t, f, fs, r, N, g, ls, q, M)
  PROVE  Backed(a, g, ls, q, M)
<1>. USE DEF Rebacked
<1>1. /\ N \in Nat /\ N >= 1 /\ Placed(s, f)
      /\ \A i \in 1 .. Len(s) : s[i].value \in 1 .. N
  BY DEF Backed
<1>2. /\ Indexed(a) /\ Indexed(s) /\ Indexed(t) /\ m \in Nat /\ Len(a) = m + Len(t)
      /\ m \in 0 .. Len(s) /\ Len(t) \in Nat /\ Len(s) \in Nat
  BY DEF Joined, Indexed
<1>0. /\ Joined(a, s, m, t) /\ \A i \in 1 .. UpTo(Owned(s), m) : g[i] = f[i]
      /\ M \in Nat /\ N <= M /\ \A k \in 1 .. Len(t) : t[k].value \in 1 .. M
      /\ \A k \in Owned(t) : g[UpTo(Owned(s), m) + UpTo(Owned(t), k)] = t[k].value
  OBVIOUS
<1>3. Placed(a, g)
  <2>1. Placed(s, f)
    BY <1>1
  <2> QED BY ONLY <1>0, <2>1, PlacedJoined
<1>4. ASSUME NEW i \in 1 .. Len(a) PROVE a[i].value \in 1 .. M
  <2>1. i \in 1 .. m + Len(t)
    BY <1>2
  <2>2. CASE i <= m
    <3>1. i \in 1 .. m /\ i \in 1 .. Len(s)
      BY <1>2, <2>1, <2>2
    <3>2. a[i] = s[i]
      BY <3>1 DEF Joined
    <3> QED BY <1>1, <3>1, <3>2
  <2>3. CASE i > m
    <3>1. PICK k \in 1 .. Len(t) : i = m + k
      <4>1. i - m \in 1 .. Len(t) /\ i = m + (i - m)
        BY <1>2, <2>1, <2>3
      <4> QED BY <4>1
    <3>2. a[i] = t[k]
      BY <3>1 DEF Joined
    <3> QED BY <3>2
  <2> QED BY <1>2, <2>1, <2>2, <2>3
<1>5. ASSUME NEW o \in 1 .. M
      PROVE  UpTo(Mine(a, o), Len(a)) = UpTo(Mine(s, o), m) + UpTo(Mine(t, o), Len(t))
  <2>1. Len(t) \in 0 .. Len(t)
    BY <1>2
  <2>2. UpTo(Mine(a, o), m + Len(t)) = UpTo(Mine(s, o), m) + UpTo(Mine(t, o), Len(t))
    BY <1>0, <2>1, JoinedCounts
  <2> QED BY <1>2, <2>2
<1>6. M >= 1
  BY <1>1
<1> QED BY <1>2, <1>3, <1>4, <1>5, <1>6 DEF Backed

-----------------------------------------------------------------------------
(* How long values are needed.                                             *)

LEMMA DueType ==
  ASSUME NEW u \in Seq(Nat), NEW len \in Nat, NEW i \in 1 .. len
  PROVE  Due(u, len, i) \in Nat
<1>1. CASE Len(u) - len + i >= 1
  <2>1. Len(u) - len + i \in 1 .. Len(u)
    BY <1>1
  <2>2. u[Len(u) - len + i] \in Nat
    BY <2>1
  <2> QED BY <1>1, <2>2 DEF Due
<1>2. CASE ~(Len(u) - len + i >= 1)
  BY <1>2, NumbersAssumption DEF Due
<1> QED BY <1>1, <1>2

LEMMA PlaceFromEnd ==
  ASSUME NEW lu \in Nat, NEW lm \in Nat, NEW L \in Nat, NEW undo \in Nat, NEW i \in Int,
         NEW lw \in Nat, lw = IF undo >= lu THEN 0 ELSE lu - undo,
         NEW k \in Int, k = lw + lm - L + i, k <= lw,
         NEW l \in Int, l = lu - (L - lm + undo) + i
  PROVE  (k >= 1 => l = k) /\ (k < 1 => l < 1)
<1>1. CASE undo >= lu
  <2>1. k < 1
    BY <1>1
  <2>2. l <= k
    BY <1>1
  <2> QED BY <2>1, <2>2
<1>2. CASE ~(undo >= lu)
  <2>1. l = k
    BY <1>2
  <2> QED BY <2>1
<1> QED BY <1>1, <1>2

\* Going backward over a unit: values it leaves alone are last used when they were,
\* those it takes at its marks.
LEMMA DuePassed ==
  ASSUME NEW u \in Seq(Nat), NEW undo \in Nat, NEW marks \in Seq(Nat),
         NEW L \in Nat, Len(marks) <= L
  PROVE  /\ \A i \in 1 .. L - Len(marks) :
              Due(Without(u, undo) \o marks, L, i) = Due(u, L - Len(marks) + undo, i)
         /\ \A j \in 1 .. Len(marks) :
              Due(Without(u, undo) \o marks, L, L - Len(marks) + j) = marks[j]
<1> DEFINE w == Without(u, undo)
           all == w \o marks
<1>0. Len(u) \in Nat /\ Len(marks) \in Nat
  OBVIOUS
<1>1. /\ w \in Seq(Nat) /\ Len(w) = (IF undo >= Len(u) THEN 0 ELSE Len(u) - undo)
      /\ \A k \in 1 .. Len(w) : w[k] = u[k]
  <2>1. CASE undo >= Len(u)
    BY <2>1, <1>0 DEF Without
  <2>2. CASE undo < Len(u)
    <3>1. PICK d \in Nat : d = Len(u) - undo
      BY <1>0, <2>2
    <3>2. d <= Len(u) /\ w = SubSeq(u, 1, d)
      BY <1>0, <2>2, <3>1 DEF Without
    <3>3. Len(SubSeq(u, 1, d)) = d /\ SubSeq(u, 1, d) \in Seq(Nat)
          /\ \A k \in 1 .. d : SubSeq(u, 1, d)[k] = u[k]
      BY <3>2
    <3>4. Len(w) = d /\ ~(undo >= Len(u))
      BY <1>0, <2>2, <3>2, <3>3
    <3>5. w \in Seq(Nat) /\ \A k \in 1 .. Len(w) : w[k] = u[k]
      BY <3>2, <3>3, <3>4
    <3> QED BY <3>1, <3>4, <3>5
  <2> QED BY <1>0, <2>1, <2>2
<1> HIDE DEF w
<1>2. /\ all \in Seq(Nat) /\ Len(all) = Len(w) + Len(marks) /\ Len(w) \in Nat
      /\ \A k \in 1 .. Len(w) : all[k] = w[k]
      /\ \A k \in 1 .. Len(marks) : all[Len(w) + k] = marks[k]
  <2>1. PICK x \in Seq(Nat) : x = w
    BY <1>1
  <2>2. PICK y \in Seq(Nat) : y = x \o marks
    <3>1. x \o marks \in Seq(Nat)
      OBVIOUS
    <3> QED BY <3>1
  <2>3. Len(y) = Len(x) + Len(marks) /\ Len(x) \in Nat
    BY <2>2
  <2>4. \A k \in 1 .. Len(x) : y[k] = x[k]
    BY <2>2
  <2>5. \A k \in 1 .. Len(marks) : y[Len(x) + k] = marks[k]
    BY <2>2
  <2> QED BY <2>1, <2>2, <2>3, <2>4, <2>5
<1> HIDE DEF all
<1>3. ASSUME NEW i \in 1 .. L - Len(marks)
      PROVE  Due(all, L, i) = Due(u, L - Len(marks) + undo, i)
  <2>1. PICK k \in Int : k = Len(all) - L + i
    BY <1>0, <1>2
  <2>2. k <= Len(w)
    BY <1>0, <1>2, <2>1
  <2>3. PICK l \in Int : l = Len(u) - (L - Len(marks) + undo) + i
    <3>1. Len(u) - (L - Len(marks) + undo) + i \in Int
      BY <1>0
    <3> QED BY <3>1
  <2>4. Due(all, L, i) = IF k >= 1 THEN all[k] ELSE Forever
    BY <2>1 DEF Due
  <2>5. Due(u, L - Len(marks) + undo, i) = IF l >= 1 THEN u[l] ELSE Forever
    BY <2>3 DEF Due
  <2>6. (k >= 1 => l = k) /\ (k < 1 => l < 1)
    <3>1. /\ Len(u) \in Nat /\ Len(marks) \in Nat /\ Len(w) \in Nat /\ i \in Int
          /\ Len(w) = IF undo >= Len(u) THEN 0 ELSE Len(u) - undo
      BY <1>0, <1>1, <1>2
    <3>2. k = Len(w) + Len(marks) - L + i
      BY <1>0, <1>2, <2>1
    <3> QED BY <2>2, <2>3, <3>1, <3>2, PlaceFromEnd
  <2>7. CASE k >= 1
    <3>1. k \in 1 .. Len(w)
      BY <1>2, <2>2, <2>7
    <3>2. all[k] = u[k]
      BY <1>1, <1>2, <3>1
    <3> QED BY <2>4, <2>5, <2>6, <2>7, <3>2
  <2>8. CASE k < 1
    BY <2>4, <2>5, <2>6, <2>8
  <2> QED BY <2>7, <2>8
<1>4. ASSUME NEW j \in 1 .. Len(marks)
      PROVE  Due(all, L, L - Len(marks) + j) = marks[j]
  <2>1. Len(all) - L + (L - Len(marks) + j) = Len(w) + j /\ Len(w) + j >= 1
    BY <1>0, <1>2
  <2> QED BY <1>2, <2>1 DEF Due
<1> QED BY <1>3, <1>4 DEF all, w

\* One unit later.
LEMMA LastingNext ==
  ASSUME NEW c, NEW val, NEW t \in Nat, NEW v \in Nat, NEW fs, Lasting(c, val, t, v, fs),
         Size(c) \in Nat, NEW t2 \in Nat, t2 <= t, NEW ls,
         \A x \in Local : ls[x] = fs[x] \/ Stores(c, x, v) \/ val.local # x
  PROVE  Lasting(c, val, t2, v + 1, ls)
<1>1. CASE val.really_pushed
  BY <1>1 DEF Lasting
<1>2. CASE ~val.really_pushed
  <2>1. t < Size(c) /\ t2 < Size(c)
    BY <1>2 DEF Lasting
  <2>2. ASSUME t2 >= v + 1, val.value # Const
        PROVE  /\ val.local \in Local /\ ls[val.local] = val.value
               /\ \A w \in v + 1 .. t2 : ~Stores(c, val.local, w)
    <3>1. t >= v
      BY <2>2
    <3>2. /\ val.local \in Local /\ fs[val.local] = val.value
          /\ \A w \in v .. t : ~Stores(c, val.local, w)
      BY <1>2, <2>2, <3>1 DEF Lasting
    <3>3. v \in v .. t /\ \A w \in v + 1 .. t2 : w \in v .. t
      BY <3>1
    <3> QED BY <3>2, <3>3
  <2> QED BY <2>1, <2>2 DEF Lasting
<1> QED BY <1>1, <1>2

\* What Analysed says of the unit v.
LEMMA AnalysedAt ==
  ASSUME NEW c, Size(c) \in Nat, NEW h, NEW from \in Nat, Analysed(c, h, from),
         NEW v \in from .. Size(c) - 1, NEW row, row = RowAt(c, h, v)
  PROVE  /\ h[v + 1].until \in Seq(Nat) /\ h[v + 1].effect \in Int
         /\ h[v].until \in Seq(Nat) /\ h[v].effect \in Int
         /\ row.undo \in Nat /\ row.marks \in Seq(Nat)
         /\ h[v].until = Without(h[v + 1].until, row.undo) \o row.marks
         /\ h[v].effect = h[v + 1].effect + row.undo - Len(row.marks)
<1>1. v \in from .. Size(c) /\ v + 1 \in from .. Size(c)
  OBVIOUS
<1> QED BY <1>1 DEF Analysed

\* The unit v takes what its row marks off s and puts t there, and the locals become ls.
Moved(c, h, v, row, a, s, m, t, fs, ls) ==
  /\ Size(c) \in Nat /\ Analysed(c, h, 0) /\ v \in 0 .. Size(c) - 1 /\ row = RowAt(c, h, v)
  /\ Joined(a, s, m, t) /\ Lasts(c, s, h[v].until, v, fs)
  /\ Len(s) = m + Len(row.marks) /\ Len(t) = row.undo
  /\ \A x \in Local : ls[x] = fs[x] \/ Stores(c, x, v) \/ \A i \in 1 .. m : s[i].local # x
  /\ \A j \in 1 .. Len(t) : Lasting(c, t[j], Due(h[v + 1].until, Len(t), j), v + 1, ls)

LEMMA LastsMoved ==
  ASSUME NEW c, NEW h, NEW v, NEW row, NEW a, NEW s, NEW m, NEW t, NEW fs, NEW ls,
         Moved(c, h, v, row, a, s, m, t, fs, ls)
  PROVE  /\ Lasts(c, a, h[v + 1].until, v + 1, ls)
         /\ Len(a) + h[v + 1].effect = Len(s) + h[v].effect
<1> USE DEF Moved
<1>1. /\ h[v + 1].until \in Seq(Nat) /\ row.undo \in Nat /\ row.marks \in Seq(Nat)
      /\ h[v].until = Without(h[v + 1].until, row.undo) \o row.marks /\ h[v].until \in Seq(Nat)
  <2>1. v \in 0 .. Size(c) /\ v + 1 \in 0 .. Size(c)
    OBVIOUS
  <2> QED BY <2>1 DEF Analysed
<1>2. /\ Indexed(a) /\ Indexed(s) /\ Indexed(t) /\ m \in Nat /\ Len(a) = m + Len(t)
      /\ m \in 0 .. Len(s) /\ Len(t) \in Nat /\ Len(s) \in Nat /\ v \in Nat
  BY DEF Joined, Indexed
<1>3. PICK u \in Seq(Nat) : u = h[v + 1].until
  BY <1>1
<1>4. Len(a) + h[v + 1].effect = Len(s) + h[v].effect
  <2>1. v \in 0 .. Size(c) /\ v + 1 \in 0 .. Size(c)
    OBVIOUS
  <2>2. h[v].effect = h[v + 1].effect + row.undo - Len(row.marks) /\ h[v + 1].effect \in Int
    BY <2>1 DEF Analysed
  <2>3. Len(s) = m + Len(row.marks) /\ Len(t) = row.undo /\ Len(row.marks) \in Nat
    BY <1>1
  <2> QED BY ONLY <1>1, <1>2, <2>2, <2>3, SMTT(30)
<1> SUFFICES ASSUME NEW i \in 1 .. Len(a)
             PROVE  Lasting(c, a[i], Due(u, Len(a), i), v + 1, ls)
  BY <1>3, <1>4 DEF Lasts
<1>5. CASE i <= m
  <2>1. i \in 1 .. m /\ i \in 1 .. Len(s) /\ i \in Nat /\ Len(a) \in Nat
    BY <1>2, <1>5
  <2>2. a[i] = s[i]
    BY <2>1 DEF Joined
  <2>3. m = Len(s) - Len(row.marks) /\ Len(row.marks) <= Len(s) /\ Len(row.marks) \in Nat
    BY <1>1, <1>2, SMTT(30)
  <2>4. Due(h[v].until, Len(s), i) = Due(u, Len(s) - Len(row.marks) + row.undo, i)
    <3>1. PICK marks \in Seq(Nat), undo \in Nat : marks = row.marks /\ undo = row.undo
      BY <1>1
    <3>2. PICK L \in Nat : L = Len(s)
      BY <1>2
    <3>3. i \in 1 .. L - Len(marks) /\ Len(marks) <= L
      BY <2>1, <2>3, <3>1, <3>2
    <3>4. Due(Without(u, undo) \o marks, L, i) = Due(u, L - Len(marks) + undo, i)
      BY <3>3, DuePassed
    <3> QED BY <1>1, <1>3, <3>1, <3>2, <3>4
  <2>5. Len(s) - Len(row.marks) + row.undo = Len(a)
    BY <1>2, <2>3
  <2>6. PICK due \in Nat : due = Due(u, Len(a), i)
    <3>1. i \in 1 .. Len(a)
      OBVIOUS
    <3> QED BY <2>1, <3>1, DueType
  <2>7. Lasting(c, s[i], due, v, fs)
    BY <2>1, <2>4, <2>5, <2>6 DEF Lasts
  <2>8. \A x \in Local : ls[x] = fs[x] \/ Stores(c, x, v) \/ s[i].local # x
    BY <2>1
  <2>9. due <= due
    OBVIOUS
  <2>10. Lasting(c, s[i], due, v + 1, ls)
    BY <1>2, <2>7, <2>8, <2>9, LastingNext
  <2> QED BY <2>2, <2>6, <2>10
<1>6. CASE i > m
  <2>1. PICK k \in 1 .. Len(t) : i = m + k
    <3>1. i - m \in 1 .. Len(t) /\ i = m + (i - m)
      BY <1>2, <1>6
    <3> QED BY <3>1
  <2>2. a[i] = t[k]
    BY <2>1 DEF Joined
  <2>3. Len(u) - Len(a) + i = Len(u) - Len(t) + k
    BY <1>2, <2>1
  <2>4. Due(u, Len(a), i) = Due(u, Len(t), k)
    BY <2>3 DEF Due
  <2> QED BY <1>3, <2>1, <2>2, <2>4
<1> QED BY <1>2, <1>5, <1>6

-----------------------------------------------------------------------------
(* How a unit is entered and left.                                         *)

LEMMA SizeIs ==
  ASSUME NEW c, Compiled(c)
  PROVE  /\ Size(c) \in Nat /\ Size(c) >= 1 /\ Size(c) < Forever /\ DOMAIN c = 0 .. Size(c) - 1
         /\ \A v \in 0 .. Size(c) - 1 :
              /\ c[v].op \in Supported /\ c[v].arg \in Nat
              /\ c[v].op \in {"LOAD_FAST", "STORE_FAST", "DELETE_FAST"} => c[v].arg \in Local
              /\ c[v].op = "ROT_N" => c[v].arg > 0
              /\ c[v].op = "UNPACK_SEQUENCE" => v > 0 /\ c[v - 1].op = "LOAD_FAST"
              /\ c[v].op \in Ending => v = Size(c) - 1
<1>1. Size(c) \in 1 .. Forever - 1 /\ DOMAIN c = 0 .. Size(c) - 1
  BY DEF Compiled, Size
<1>2. Size(c) \in Nat /\ Size(c) >= 1 /\ Size(c) < Forever
  BY <1>1, NumbersAssumption
<1> QED BY <1>1, <1>2 DEF Compiled, Size

\* At the end of the block the stack owns what is on it.
LEMMA AllOwned ==
  ASSUME NEW c, Compiled(c), NEW h, NEW from, Analysed(c, h, from), NEW s, Indexed(s), NEW fs,
         Lasts(c, s, h[Size(c)].until, Size(c), fs)
  PROVE  UpTo(Owned(s), Len(s)) = Len(s)
<1>1. Size(c) \in Nat /\ Size(c) < Forever /\ Len(s) \in Nat
  BY SizeIs DEF Indexed
<1>2. ASSUME NEW i \in 1 .. Len(s) PROVE s[i].really_pushed
  <2>1. h[Size(c)].until = <<>>
    BY DEF Analysed
  <2>2. Due(<<>>, Len(s), i) = Forever
    <3>1. Len(<<>>) = 0
      OBVIOUS
    <3>2. ~(Len(<<>>) - Len(s) + i >= 1)
      BY <1>1, <3>1
    <3> QED BY <3>2 DEF Due
  <2>3. Lasting(c, s[i], Forever, Size(c), fs)
    BY <2>1, <2>2 DEF Lasts
  <2> QED BY <1>1, <2>3, NumbersAssumption DEF Lasting
<1>3. Owned(s) = 1 .. Len(s)
  BY <1>2 DEF Owned, Indexed
<1>4. Owned(s) \in SUBSET (1 .. Len(s)) /\ UpTo(Owned(s), Len(s)) = Cardinality(Owned(s))
  BY <1>1, <1>3, UpToAll
<1>5. PICK d \in Nat : d = Len(s)
  BY <1>1
<1>6. Cardinality(1 .. d) = d
  BY FS_Interval
<1> QED BY <1>3, <1>4, <1>5, <1>6

\* The three properties of a block that was left.
LEMMA LeftIs ==
  ASSUME phase' \in {"fell", "branched", "returned", "raised"},
         NEW s, NEW N, Backed(s, slot', fast', refs', N),
         depth' \in Nat, depth' <= UpTo(Owned(s), Len(s)),
         TakenAreOwned', HeightsAgree'
  PROVE  Left'
<1>1. \A o \in DOMAIN refs' :
        refs'[o] >= Cardinality({i \in 1 .. depth' : slot'[i] = o}) + InLocals(fast', o) + Own(o)
  BY BackedCounts
<1>2. NothingReleasedTwice'
  BY <1>1 DEF NothingReleasedTwice, Holders, InLocals, Own
<1> QED BY <1>2 DEF Left

\* What an instruction emitted at once leaves is what the next one is emitted for.
LEMMA Arrives ==
  ASSUME Compiled(code), initial_stack_height \in 0 .. MaxHeight,
         NEW h, NEW N, BetweenUnits(h, N), NextUnit, UNCHANGED <<Kept, operands, taken>>,
         NEW M, Before(code, h, abstract_stack', vpc + 1, slot', fast', refs', M, Total),
         stack_height' = UpTo(Owned(abstract_stack'), Len(abstract_stack')),
         vpc + 1 < Size(code) /\ code[vpc + 1].op = "UNPACK_SEQUENCE" =>
           Len(abstract_stack') >= 1 /\ ~abstract_stack'[Len(abstract_stack')].really_pushed
  PROVE  IInv'
<1>1. /\ code' = code /\ initial_stack_height' = initial_stack_height
      /\ redundant_loads' = redundant_loads /\ stack_effect' = stack_effect
      /\ operands' = operands /\ taken' = taken
  BY DEF Kept, analysis
<1>2. /\ vpc \in 0 .. Size(code) - 1 /\ Known(h) /\ operands = <<>> /\ taken = <<>>
  BY DEF BetweenUnits
<1>3. Size(code) \in Nat /\ vpc \in Nat /\ code_instr_num = Size(code)
  BY <1>1, <1>2, SizeIs DEF Size, code_instr_num
<1>4. /\ vpc' = vpc + 1 /\ sp' = stack_height'
      /\ phase' = IF vpc + 1 = Size(code) THEN "fell" ELSE "emit"
  BY <1>3 DEF NextUnit
<1>5. Compiled(code)' /\ (initial_stack_height \in 0 .. MaxHeight)'
  BY <1>1
<1>6. CASE vpc + 1 # Size(code)
  <2>1. phase' = "emit" /\ vpc' \in 0 .. Size(code') - 1 /\ vpc + 1 < Size(code)
    BY <1>1, <1>2, <1>3, <1>4, <1>6
  <2>2. Known(h)'
    BY <1>1, <1>2 DEF Known
  <2>3. Before(code, h, abstract_stack, vpc, slot, fast, refs, M, Total)'
    BY <1>1, <1>4 DEF Total
  <2>4. unit' = code[vpc + 1]
    BY <1>1, <1>4 DEF unit
  <2>5. operands' = <<>> /\ taken' = <<>>
    BY <1>1, <1>2
  <2>6. BetweenUnits(h, M)'
    BY <1>4, <2>1, <2>2, <2>3, <2>4, <2>5 DEF BetweenUnits
  <2> QED BY <1>5, <2>6 DEF IInv
<1>7. CASE vpc + 1 = Size(code)
  <2>1. phase' = "fell"
    BY <1>4, <1>7
  <2>2. /\ Backed(abstract_stack', slot', fast', refs', M) /\ Indexed(abstract_stack')
        /\ Lasts(code, abstract_stack', h[Size(code)].until, Size(code), fast')
        /\ Len(abstract_stack') + h[Size(code)].effect = Total
    BY <1>7 DEF Before, Backed
  <2>3. Analysed(code, h, 0)
    BY <1>2 DEF Known
  <2>4. h[Size(code)].effect = 0
    BY <2>3 DEF Analysed
  <2>5. UpTo(Owned(abstract_stack'), Len(abstract_stack')) = Len(abstract_stack')
    BY <2>2, <2>3, AllOwned
  <2>6. Len(abstract_stack') \in Nat
    BY <2>2 DEF Indexed
  <2>7. stack_height' = Total
    BY <2>2, <2>4, <2>5, <2>6
  <2>8. HeightsAgree'
    BY <1>1, <2>1, <2>7 DEF HeightsAgree, Total
  <2>9. TakenAreOwned'
    BY <1>1, <1>2 DEF TakenAreOwned
  <2>10. depth' = stack_height' /\ stack_height' \in Nat
    BY <2>1, <2>5, <2>6 DEF depth
  <2>11. Left'
    BY <2>1, <2>2, <2>8, <2>9, <2>10, LeftIs
  <2> QED BY <1>5, <2>11 DEF IInv
<1> QED BY <1>6, <1>7

\* One value by itself.
LEMMA Single ==
  ASSUME NEW val, NEW t, t = <<val>>
  PROVE  /\ Indexed(t) /\ Len(t) = 1 /\ t[1] = val
         /\ Owned(t) = IF val.really_pushed THEN {1} ELSE {}
         /\ UpTo(Owned(t), 1) = IF val.really_pushed THEN 1 ELSE 0
         /\ \A o : UpTo(Mine(t, o), 1) = IF val.really_pushed /\ val.value = o THEN 1 ELSE 0
<1>1. Indexed(t) /\ Len(t) = 1 /\ t[1] = val /\ DOMAIN t = {1}
  BY DEF Indexed
<1>2. Owned(t) = IF val.really_pushed THEN {1} ELSE {}
  BY <1>1 DEF Owned
<1>3. UpTo({1}, 1) = 1 /\ UpTo({}, 1) = 0
  <2>1. {i \in {1} : i <= 1} = {1} /\ {i \in {} : i <= 1} = {}
    OBVIOUS
  <2>2. Cardinality({1}) = 1 /\ Cardinality({}) = 0
    BY FS_Singleton, FS_EmptySet
  <2> QED BY <2>1, <2>2 DEF UpTo
<1>4. ASSUME NEW o
      PROVE  UpTo(Mine(t, o), 1) = IF val.really_pushed /\ val.value = o THEN 1 ELSE 0
  <2>1. Mine(t, o) = IF val.really_pushed /\ val.value = o THEN {1} ELSE {}
    BY <1>1, <1>2 DEF Mine
  <2> QED BY <1>3, <2>1
<1>5. UpTo(Owned(t), 1) = IF val.really_pushed THEN 1 ELSE 0
  BY <1>2, <1>3
<1> QED BY <1>1, <1>2, <1>4, <1>5

LEMMA OnTop ==
  ASSUME NEW s, Indexed(s), NEW val, NEW a, a = Append(s, val)
  PROVE  /\ Joined(a, s, Len(s), <<val>>) /\ Len(a) = Len(s) + 1 /\ a[Len(a)] = val
         /\ UpTo(Owned(a), Len(a)) = UpTo(Owned(s), Len(s)) + (IF val.really_pushed THEN 1 ELSE 0)
<1>1. PICK t : t = <<val>>
  OBVIOUS
<1>2. Indexed(t) /\ Len(t) = 1 /\ t[1] = val
  BY <1>1, Single
<1>3. Indexed(a) /\ Len(a) = Len(s) + 1 /\ a[Len(a)] = val /\ \A i \in 1 .. Len(s) : a[i] = s[i]
  BY DEF Indexed
<1>4. Joined(a, s, Len(s), t)
  <2>1. Len(s) \in 0 .. Len(s)
    BY DEF Indexed
  <2>2. \A i \in 1 .. Len(t) : a[Len(s) + i] = t[i]
    BY <1>2, <1>3
  <2> QED BY <1>2, <1>3, <2>1, <2>2 DEF Joined
<1>5. UpTo(Owned(a), Len(s) + 1) = UpTo(Owned(s), Len(s)) + UpTo(Owned(t), 1)
  <2>1. 1 \in 0 .. Len(t)
    BY <1>2
  <2> QED BY <1>4, <2>1, JoinedCounts
<1>6. UpTo(Owned(t), 1) = IF val.really_pushed THEN 1 ELSE 0
  BY <1>1, Single
<1> QED BY <1>1, <1>3, <1>4, <1>5, <1>6

\* One more value on a stack, in a slot if the stack owns it.
LEMMA BackedOnTop ==
  ASSUME NEW s, NEW f, NEW fs, NEW r, NEW N, Backed(s, f, fs, r, N),
         NEW val, val.value \in 1 .. N, NEW a, a = Append(s, val), Len(a) <= MaxHeight,
         NEW g, g = IF val.really_pushed
                      THEN [f EXCEPT ![UpTo(Owned(s), Len(s)) + 1] = val.value] ELSE f,
         NEW q, DOMAIN q = 1 .. N,
         \A o \in 1 .. N : /\ q[o] \in Int
                           /\ q[o] >= r[o] + IF val.really_pushed /\ val.value = o THEN 1 ELSE 0
  PROVE  Backed(a, g, fs, q, N)
<1>1. /\ N \in Nat /\ Indexed(s) /\ DOMAIN f = 1 .. MaxHeight
      /\ DOMAIN fs = Local /\ \A x \in Local : fs[x] \in 0 .. N
      /\ \A o \in 1 .. N :
           r[o] \in Int /\ r[o] >= UpTo(Mine(s, o), Len(s)) + InLocals(fs, o) + Own(o)
  BY DEF Backed
<1>2. PICK t : t = <<val>>
  OBVIOUS
<1>3. /\ Indexed(t) /\ Len(t) = 1 /\ t[1] = val
      /\ Owned(t) = IF val.really_pushed THEN {1} ELSE {}
      /\ UpTo(Owned(t), 1) = IF val.really_pushed THEN 1 ELSE 0
      /\ \A o : UpTo(Mine(t, o), 1) = IF val.really_pushed /\ val.value = o THEN 1 ELSE 0
  <2>1. Indexed(t) /\ Len(t) = 1 /\ t[1] = val
    BY <1>2, Single
  <2>2. Owned(t) = IF val.really_pushed THEN {1} ELSE {}
    BY <1>2, Single
  <2>3. UpTo(Owned(t), 1) = IF val.really_pushed THEN 1 ELSE 0
    BY <1>2, Single
  <2>4. \A o : UpTo(Mine(t, o), 1) = IF val.really_pushed /\ val.value = o THEN 1 ELSE 0
    BY <1>2, Single
  <2> QED BY <2>1, <2>2, <2>3, <2>4
<1>4. Joined(a, s, Len(s), t) /\ Len(a) = Len(s) + 1 /\ Len(s) \in Nat
  <2>1. Indexed(s) /\ a = Append(s, val)
    BY <1>1
  <2>2. Joined(a, s, Len(s), <<val>>) /\ Len(a) = Len(s) + 1
    BY ONLY <2>1, OnTop
  <2> QED BY <1>1, <1>2, <2>2 DEF Indexed
<1>5. PICK k \in Nat : k = UpTo(Owned(s), Len(s)) /\ k <= Len(s)
  <2>1. Len(s) \in 0 .. Len(s)
    BY <1>4
  <2> QED BY <1>1, <2>1, HeightIs
<1>7. k + 1 \in 1 .. MaxHeight
  BY <1>4, <1>5, NumbersAssumption
<1>8. DOMAIN g = 1 .. MaxHeight /\ \A i \in 1 .. UpTo(Owned(s), Len(s)) : g[i] = f[i]
  BY <1>1, <1>4, <1>5, NumbersAssumption
<1>9. \A i \in Owned(t) : g[UpTo(Owned(s), Len(s)) + UpTo(Owned(t), i)] = t[i].value
  BY <1>1, <1>3, <1>5, <1>7
<1>10. \A i \in 1 .. Len(t) : t[i].value \in 1 .. N
  BY <1>3
<1>11. ASSUME NEW o \in 1 .. N
       PROVE  /\ q[o] \in Int
              /\ q[o] >= UpTo(Mine(s, o), Len(s)) + UpTo(Mine(t, o), Len(t)) + InLocals(fs, o)
                           + Own(o)
  <2>1. UpTo(Mine(t, o), 1) = IF val.really_pushed /\ val.value = o THEN 1 ELSE 0
    BY <1>3
  <2>2. UpTo(Mine(s, o), Len(s)) \in Nat /\ InLocals(fs, o) \in Nat /\ Own(o) \in Nat
    BY <1>1, <1>4, OwnedIs, InLocalsType DEF Own
  <2>3. UpTo(Mine(t, o), Len(t)) = IF val.really_pushed /\ val.value = o THEN 1 ELSE 0
    BY <1>3, <2>1
  <2>4. q[o] \in Int /\ q[o] >= r[o] + IF val.really_pushed /\ val.value = o THEN 1 ELSE 0
    OBVIOUS
  <2>5. r[o] \in Int /\ r[o] >= UpTo(Mine(s, o), Len(s)) + InLocals(fs, o) + Own(o)
    BY <1>1
  <2> QED BY <2>2, <2>3, <2>4, <2>5, SMTT(30)
<1>12. Rebacked(a, s, Len(s), t, f, fs, r, N, g, fs, q, N)
  BY <1>1, <1>4, <1>8, <1>9, <1>10, <1>11 DEF Rebacked
<1> QED BY <1>12, BackedJoined

\* What every instruction emitted at once finds.
LEMMA AtUnit ==
  ASSUME Compiled(code), NEW h, NEW N, BetweenUnits(h, N)
  PROVE  /\ Size(code) \in Nat /\ vpc \in 0 .. Size(code) - 1 /\ vpc \in Nat /\ vpc + 1 \in Nat
         /\ Analysed(code, h, 0) /\ LoadsKnown(code, h, redundant_loads, 0)
         /\ Backed(abstract_stack, slot, fast, refs, N)
         /\ Lasts(code, abstract_stack, h[vpc].until, vpc, fast)
         /\ Len(abstract_stack) + h[vpc].effect = Total
         /\ Indexed(abstract_stack) /\ Len(abstract_stack) \in Nat
         /\ N \in Nat /\ N >= 1
         /\ DOMAIN refs = 1 .. N /\ DOMAIN fast = Local /\ \A x \in Local : fast[x] \in 0 .. N
         /\ \A o \in 1 .. N : refs[o] \in Int
         /\ stack_height = UpTo(Owned(abstract_stack), Len(abstract_stack)) /\ stack_height \in Nat
<1>1. /\ Size(code) \in Nat /\ vpc \in 0 .. Size(code) - 1 /\ Known(h)
      /\ Before(code, h, abstract_stack, vpc, slot, fast, refs, N, Total)
      /\ stack_height = UpTo(Owned(abstract_stack), Len(abstract_stack))
  BY SizeIs DEF BetweenUnits
<1>2. /\ Backed(abstract_stack, slot, fast, refs, N)
      /\ Lasts(code, abstract_stack, h[vpc].until, vpc, fast)
      /\ Len(abstract_stack) + h[vpc].effect = Total
  BY <1>1 DEF Before
<1>3. Indexed(abstract_stack) /\ Len(abstract_stack) \in Nat
  BY <1>2 DEF Backed, Indexed
<1>4. Len(abstract_stack) \in 0 .. Len(abstract_stack)
  BY <1>3
<1>5. stack_height \in Nat
  BY <1>1, <1>3, <1>4, HeightIs
<1> QED BY <1>1, <1>2, <1>3, <1>5 DEF Known, Backed

\* The unit after it is UNPACK_SEQUENCE only if it is a load of a local, not counted.
LEMMA UnpackAfter ==
  ASSUME Compiled(code), NEW h, NEW N, BetweenUnits(h, N),
         vpc + 1 < Size(code), code[vpc + 1].op = "UNPACK_SEQUENCE"
  PROVE  unit.op = "LOAD_FAST" /\ vpc \in redundant_loads
<1>1. /\ vpc \in 0 .. Size(code) - 1 /\ vpc + 1 \in 0 + 1 .. Size(code) - 1
      /\ vpc + 1 - 1 = vpc /\ LoadsKnown(code, h, redundant_loads, 0)
  BY AtUnit
<1>2. vpc + 1 \in 0 .. Size(code) - 1
  BY <1>1
<1>3. code[vpc + 1 - 1].op = "LOAD_FAST"
  <2>1. PICK w \in 0 .. Size(code) - 1 : w = vpc + 1
    BY <1>2
  <2>2. code[w - 1].op = "LOAD_FAST"
    BY <2>1, SizeIs
  <2> QED BY <1>1, <2>1, <2>2
<1>4. vpc + 1 - 1 \in redundant_loads
  BY <1>1 DEF LoadsKnown
<1> QED BY <1>1, <1>3, <1>4 DEF unit

\* A value comes onto the stack.
LEMMA Loads ==
  ASSUME Compiled(code), initial_stack_height \in 0 .. MaxHeight,
         NEW h, NEW N, BetweenUnits(h, N), NextUnit, UNCHANGED <<Kept, operands, taken>>,
         RowAt(code, h, vpc) = Row(1, <<>>),
         NEW val, val.value \in 1 .. N, abstract_stack' = Append(abstract_stack, val),
         slot' = IF val.really_pushed THEN [slot EXCEPT ![stack_height + 1] = val.value] ELSE slot,
         stack_height' = stack_height + IF val.really_pushed THEN 1 ELSE 0,
         fast' = fast, DOMAIN refs' = 1 .. N,
         \A o \in 1 .. N :
           /\ refs'[o] \in Int
           /\ refs'[o] >= refs[o] + IF val.really_pushed /\ val.value = o THEN 1 ELSE 0,
         Lasting(code, val, Due(h[vpc + 1].until, 1, 1), vpc + 1, fast),
         val.really_pushed => vpc \notin redundant_loads
  PROVE  IInv'
<1>1. PICK a : a = Append(abstract_stack, val)
  OBVIOUS
<1>2. /\ Size(code) \in Nat /\ vpc \in 0 .. Size(code) - 1 /\ vpc \in Nat
      /\ Analysed(code, h, 0) /\ Indexed(abstract_stack) /\ Len(abstract_stack) \in Nat
      /\ Backed(abstract_stack, slot, fast, refs, N)
      /\ Lasts(code, abstract_stack, h[vpc].until, vpc, fast)
      /\ Len(abstract_stack) + h[vpc].effect = Total
      /\ stack_height = UpTo(Owned(abstract_stack), Len(abstract_stack))
  BY AtUnit
<1>3. PICK t : t = <<val>>
  OBVIOUS
<1>4. Joined(a, abstract_stack, Len(abstract_stack), t)
  BY <1>1, <1>2, <1>3, OnTop
<1>5. Len(a) = Len(abstract_stack) + 1 /\ a[Len(a)] = val
  BY <1>1, <1>2, OnTop
<1>6. UpTo(Owned(a), Len(a)) = stack_height'
  BY <1>1, <1>2, OnTop
<1>7. Backed(a, slot', fast', refs', N)
  <2>1. Len(a) <= MaxHeight
    BY <1>1 DEF NextUnit
  <2> QED BY <1>1, <1>2, <2>1, BackedOnTop
<1>8. /\ Lasts(code, a, h[vpc + 1].until, vpc + 1, fast')
      /\ Len(a) + h[vpc + 1].effect = Len(abstract_stack) + h[vpc].effect
  <2>1. PICK row : row = RowAt(code, h, vpc)
    OBVIOUS
  <2>2. row.undo = 1 /\ row.marks = <<>> /\ Len(row.marks) = 0
    BY <2>1 DEF Row
  <2>3. Len(t) = 1 /\ t[1] = val
    BY <1>3
  <2>4. /\ Len(abstract_stack) = Len(abstract_stack) + Len(row.marks) /\ Len(t) = row.undo
        /\ \A x \in Local : fast'[x] = fast[x]
    BY <1>2, <2>2, <2>3
  <2>5. ASSUME NEW j \in 1 .. Len(t)
        PROVE  Lasting(code, t[j], Due(h[vpc + 1].until, Len(t), j), vpc + 1, fast')
    <3>1. j = 1
      BY <2>3
    <3> QED BY <2>3, <3>1
  <2>6. Moved(code, h, vpc, row, a, abstract_stack, Len(abstract_stack), t, fast, fast')
    BY <1>2, <1>4, <2>1, <2>4, <2>5 DEF Moved
  <2> QED BY <2>6, LastsMoved
<1>9. Len(a) + h[vpc + 1].effect = Total
  BY <1>2, <1>8
<1>10. Before(code, h, abstract_stack', vpc + 1, slot', fast', refs', N, Total)
  BY <1>1, <1>7, <1>8, <1>9 DEF Before
<1>11. ASSUME vpc + 1 < Size(code), code[vpc + 1].op = "UNPACK_SEQUENCE"
       PROVE  Len(abstract_stack') >= 1 /\ ~abstract_stack'[Len(abstract_stack')].really_pushed
  BY <1>1, <1>2, <1>5, <1>11, UnpackAfter
<1> QED BY <1>1, <1>6, <1>10, <1>11, Arrives

-----------------------------------------------------------------------------
(* Loads.                                                                  *)

LEMMA MoveRows ==
  ASSUME NEW op \in Moves, NEW n, NEW u, NEW v
  PROVE  Assumes(op, n, u, v) = AssumesMove(op, n, u, v)
<1>1. op \in MoveOps /\ \A i, j \in 1 .. 9 : op \in Families[i] /\ op \in Families[j] => i = j
  BY OneFamily DEF Moves, MoveOps
<1>2. /\ op \notin NameOps /\ op \notin OperatorOps /\ op \notin CallOps /\ op \notin JumpOps
      /\ op \notin BuildOps /\ op \notin PatternOps /\ op \notin HandlerOps
      /\ op \notin GeneratorOps
  BY <1>1 DEF Families
<1> QED BY <1>1, <1>2 DEF Assumes

LEMMA LoadConstStep ==
  ASSUME Compiled(code), initial_stack_height \in 0 .. MaxHeight,
         NEW h, NEW N, BetweenUnits(h, N), LoadConst
  PROVE  IInv'
<1>1. /\ Size(code) \in Nat /\ vpc \in 0 .. Size(code) - 1 /\ vpc \in Nat
      /\ LoadsKnown(code, h, redundant_loads, 0)
      /\ N \in Nat /\ N >= 1 /\ DOMAIN refs = 1 .. N /\ \A o \in 1 .. N : refs[o] \in Int
  BY AtUnit
<1>2. unit.op = "LOAD_CONST" /\ NextUnit /\ UNCHANGED <<Kept, operands, taken>> /\ fast' = fast
  BY DEF LoadConst, Emitting
<1>3. RowAt(code, h, vpc) = Row(1, <<>>)
  BY <1>2, MoveRows DEF RowAt, unit, AssumesMove, Moves
<1>4. Const \in 1 .. N
  BY <1>1 DEF Const
<1>5. CASE vpc \in redundant_loads
  <2>1. PICK val : val = Redundant(Const, None)
    OBVIOUS
  <2>2. val.value = Const /\ val.really_pushed = FALSE
    BY <2>1 DEF Redundant
  <2>3. /\ abstract_stack' = Append(abstract_stack, val) /\ stack_height' = stack_height
        /\ slot' = slot /\ refs' = refs
    BY <1>5, <2>1 DEF LoadConst, PushRedundant
  <2>4. stack_height \in Nat
    BY AtUnit
  <2>5. Due(h[vpc + 1].until, 1, 1) < Size(code)
    BY <1>1, <1>5 DEF LoadsKnown
  <2>6. Lasting(code, val, Due(h[vpc + 1].until, 1, 1), vpc + 1, fast)
    BY <2>2, <2>5 DEF Lasting
  <2>7. /\ slot' = IF val.really_pushed THEN [slot EXCEPT ![stack_height + 1] = val.value] ELSE slot
        /\ stack_height' = stack_height + IF val.really_pushed THEN 1 ELSE 0
        /\ DOMAIN refs' = 1 .. N /\ val.value \in 1 .. N
        /\ \A o \in 1 .. N :
             /\ refs'[o] \in Int
             /\ refs'[o] >= refs[o] + IF val.really_pushed /\ val.value = o THEN 1 ELSE 0
    BY <1>1, <1>4, <2>2, <2>3, <2>4
  <2> QED BY <1>1, <1>2, <1>3, <2>2, <2>3, <2>6, <2>7, Loads
<1>6. CASE vpc \notin redundant_loads
  <2>1. PICK val : val = Pushed(Const)
    OBVIOUS
  <2>2. val.value = Const /\ val.really_pushed = TRUE
    BY <2>1 DEF Pushed
  <2>3. /\ abstract_stack' = Append(abstract_stack, val) /\ stack_height' = stack_height + 1
        /\ slot' = [slot EXCEPT ![stack_height + 1] = val.value]
        /\ refs' = [refs EXCEPT ![Const] = @ + 1]
    BY <1>6, <2>1, <2>2 DEF LoadConst, Push
  <2>4. /\ DOMAIN refs' = 1 .. N
        /\ \A o \in 1 .. N :
             /\ refs'[o] \in Int
             /\ refs'[o] >= refs[o] + IF val.really_pushed /\ val.value = o THEN 1 ELSE 0
    BY <1>1, <1>4, <2>2, <2>3
  <2>5. Lasting(code, val, Due(h[vpc + 1].until, 1, 1), vpc + 1, fast)
    BY <2>2 DEF Lasting
  <2> QED BY <1>1, <1>2, <1>3, <1>4, <1>6, <2>2, <2>3, <2>4, <2>5, Loads
<1> QED BY <1>5, <1>6

LEMMA LoadFastStep ==
  ASSUME Compiled(code), initial_stack_height \in 0 .. MaxHeight,
         NEW h, NEW N, BetweenUnits(h, N), LoadFast
  PROVE  IInv'
<1>1. /\ Size(code) \in Nat /\ vpc \in 0 .. Size(code) - 1 /\ vpc \in Nat
      /\ LoadsKnown(code, h, redundant_loads, 0)
      /\ N \in Nat /\ N >= 1 /\ DOMAIN refs = 1 .. N /\ \A o \in 1 .. N : refs[o] \in Int
      /\ \A x \in Local : fast[x] \in 0 .. N
  BY AtUnit
<1>2. unit.op = "LOAD_FAST" /\ NextUnit /\ UNCHANGED <<Kept, operands, taken>> /\ fast' = fast
  BY DEF LoadFast, Emitting
<1>3. RowAt(code, h, vpc) = Row(1, <<>>)
  BY <1>2, MoveRows DEF RowAt, unit, AssumesMove, Moves
<1>4. PICK x \in Local : x = unit.arg
  BY <1>1, <1>2, SizeIs DEF unit
<1>5. PICK o \in 1 .. N : o = fast[x]
  BY <1>1, <1>4 DEF LoadFast, None
<1>6. CASE vpc \in redundant_loads
  <2>1. PICK val : val = Redundant(o, x)
    OBVIOUS
  <2>2. val.value = o /\ val.really_pushed = FALSE /\ val.local = x
    BY <2>1 DEF Redundant
  <2>3. /\ abstract_stack' = Append(abstract_stack, val) /\ stack_height' = stack_height
        /\ slot' = slot /\ refs' = refs
    BY <1>4, <1>5, <1>6, <2>1 DEF LoadFast, PushRedundant
  <2>4. stack_height \in Nat
    BY AtUnit
  <2>5. /\ Due(h[vpc + 1].until, 1, 1) < Size(code)
        /\ \A w \in vpc + 1 .. Due(h[vpc + 1].until, 1, 1) : ~Stores(code, x, w)
    BY <1>1, <1>2, <1>4, <1>6 DEF LoadsKnown, unit
  <2>6. Lasting(code, val, Due(h[vpc + 1].until, 1, 1), vpc + 1, fast)
    BY <1>5, <2>2, <2>5 DEF Lasting
  <2> QED BY <1>1, <1>2, <1>3, <2>2, <2>3, <2>4, <2>6, Loads, SMTT(30)
<1>7. CASE vpc \notin redundant_loads
  <2>1. PICK val : val = Pushed(o)
    OBVIOUS
  <2>2. val.value = o /\ val.really_pushed = TRUE
    BY <2>1 DEF Pushed
  <2>3. /\ abstract_stack' = Append(abstract_stack, val) /\ stack_height' = stack_height + 1
        /\ slot' = [slot EXCEPT ![stack_height + 1] = val.value]
        /\ refs' = [refs EXCEPT ![o] = @ + 2]
    BY <1>4, <1>5, <1>7, <2>1, <2>2 DEF LoadFast, Push
  <2>4. /\ DOMAIN refs' = 1 .. N
        /\ \A j \in 1 .. N :
             /\ refs'[j] \in Int
             /\ refs'[j] >= refs[j] + IF val.really_pushed /\ val.value = j THEN 1 ELSE 0
    BY <1>1, <2>2, <2>3
  <2>5. Lasting(code, val, Due(h[vpc + 1].until, 1, 1), vpc + 1, fast)
    BY <2>2 DEF Lasting
  <2> QED BY <1>1, <1>2, <1>3, <1>7, <2>2, <2>3, <2>4, <2>5, Loads
<1> QED BY <1>6, <1>7

LEMMA RaiseUnboundStep ==
  ASSUME Compiled(code), initial_stack_height \in 0 .. MaxHeight,
         NEW h, NEW N, BetweenUnits(h, N), RaiseUnbound
  PROVE  IInv'
<1>1. /\ phase' = "raised" /\ UNCHANGED <<Kept, slot, fast, refs, sp, taken>>
  BY DEF RaiseUnbound
<1>2. /\ Backed(abstract_stack, slot, fast, refs, N) /\ stack_height \in Nat
      /\ stack_height = UpTo(Owned(abstract_stack), Len(abstract_stack))
  BY AtUnit
<1>3. sp = stack_height /\ taken = <<>>
  BY DEF BetweenUnits
<1>4. depth' \in Nat /\ depth' <= UpTo(Owned(abstract_stack), Len(abstract_stack))
  BY <1>1, <1>2, <1>3 DEF depth
<1>5. TakenAreOwned' /\ HeightsAgree'
  BY <1>1, <1>3 DEF TakenAreOwned, HeightsAgree
<1>6. Left'
  BY <1>1, <1>2, <1>4, <1>5, LeftIs
<1> QED BY <1>1, <1>6 DEF IInv, Kept

-----------------------------------------------------------------------------
(* Stores and deletions.                                                   *)

LEMMA NoneOwned ==
  ASSUME NEW t, t = <<>>
  PROVE  /\ Indexed(t) /\ Len(t) = 0 /\ Owned(t) = {}
         /\ UpTo(Owned(t), 0) = 0 /\ \A o : UpTo(Mine(t, o), 0) = 0
<1>1. Indexed(t) /\ Len(t) = 0 /\ DOMAIN t = {}
  BY DEF Indexed
<1>2. Owned(t) = {} /\ \A o : Mine(t, o) = {}
  BY <1>1 DEF Owned, Mine
<1>3. UpTo({}, 0) = 0
  <2>1. {i \in {} : i <= 0} = {}
    OBVIOUS
  <2> QED BY <2>1, FS_EmptySet DEF UpTo
<1> QED BY <1>1, <1>2, <1>3

\* The values of a stack but the top k.
LEMMA BelowIs ==
  ASSUME NEW s, Indexed(s), NEW k \in 0 .. Len(s), NEW a, a = Below(s, k)
  PROVE  /\ Indexed(a) /\ Len(a) = Len(s) - k /\ Len(s) - k \in 0 .. Len(s)
         /\ \A i \in 1 .. Len(s) - k : a[i] = s[i]
         /\ Joined(a, s, Len(s) - k, <<>>)
         /\ UpTo(Owned(a), Len(a)) = UpTo(Owned(s), Len(s) - k)
<1>1. PICK m \in 0 .. Len(s) : m = Len(s) - k
  <2>1. Len(s) - k \in 0 .. Len(s)
    BY DEF Indexed
  <2> QED BY <2>1
<1>2. a = SubSeq(s, 1, m)
  BY <1>1 DEF Below
<1>3. Len(a) = m /\ DOMAIN a = 1 .. m /\ \A i \in 1 .. m : a[i] = s[i]
  BY <1>2 DEF Indexed
<1>4. Indexed(a)
  BY <1>3 DEF Indexed
<1>5. PICK t : t = <<>>
  OBVIOUS
<1>6. Indexed(t) /\ Len(t) = 0
  BY <1>5, NoneOwned
<1>7. Joined(a, s, m, t)
  BY <1>3, <1>4, <1>6 DEF Joined
<1>8. UpTo(Owned(a), m) = UpTo(Owned(s), m)
  <2>1. m \in 0 .. m
    OBVIOUS
  <2> QED BY <1>7, <2>1, JoinedCounts
<1> QED BY <1>1, <1>3, <1>4, <1>5, <1>7, <1>8

\* The k-th value.
LEMMA CountOne ==
  ASSUME NEW s, Indexed(s), NEW k \in 1 .. Len(s)
  PROVE  /\ UpTo(Owned(s), k) = UpTo(Owned(s), k - 1) + IF s[k].really_pushed THEN 1 ELSE 0
         /\ UpTo(Owned(s), k - 1) \in Nat
         /\ \A o : /\ UpTo(Mine(s, o), k)
                        = UpTo(Mine(s, o), k - 1)
                            + IF s[k].really_pushed /\ s[k].value = o THEN 1 ELSE 0
                   /\ UpTo(Mine(s, o), k - 1) \in Nat
<1>1. PICK j \in Nat : j + 1 = k /\ k - 1 = j
  BY DEF Indexed
<1>2. k \in DOMAIN s
  BY DEF Indexed
<1>3. Owned(s) \in SUBSET Positive /\ UpTo(Owned(s), j) \in Nat
  BY OwnedIs
<1>4. UpTo(Owned(s), j + 1) = UpTo(Owned(s), j) + One(Owned(s), j + 1)
  BY <1>3, UpToNext
<1>5. One(Owned(s), j + 1) = IF s[k].really_pushed THEN 1 ELSE 0
  BY <1>1, <1>2 DEF One, Owned
<1>6. ASSUME NEW o
      PROVE  /\ UpTo(Mine(s, o), k)
                  = UpTo(Mine(s, o), k - 1)
                      + IF s[k].really_pushed /\ s[k].value = o THEN 1 ELSE 0
             /\ UpTo(Mine(s, o), k - 1) \in Nat
  <2>1. Mine(s, o) \in SUBSET Positive /\ UpTo(Mine(s, o), j) \in Nat
    BY OwnedIs
  <2>2. UpTo(Mine(s, o), j + 1) = UpTo(Mine(s, o), j) + One(Mine(s, o), j + 1)
    BY <2>1, UpToNext
  <2>3. One(Mine(s, o), j + 1) = IF s[k].really_pushed /\ s[k].value = o THEN 1 ELSE 0
    BY <1>1, <1>2 DEF One, Owned, Mine
  <2> QED BY <1>1, <2>1, <2>2, <2>3
<1> QED BY <1>1, <1>3, <1>4, <1>5, <1>6

LEMMA StoreFastStep ==
  ASSUME Compiled(code), initial_stack_height \in 0 .. MaxHeight,
         NEW h, NEW N, BetweenUnits(h, N), StoreFast
  PROVE  IInv'
<1>1. /\ Size(code) \in Nat /\ vpc \in 0 .. Size(code) - 1 /\ vpc \in Nat
      /\ Analysed(code, h, 0) /\ Indexed(abstract_stack) /\ Len(abstract_stack) \in Nat
      /\ Backed(abstract_stack, slot, fast, refs, N)
      /\ Lasts(code, abstract_stack, h[vpc].until, vpc, fast)
      /\ Len(abstract_stack) + h[vpc].effect = Total
      /\ N \in Nat /\ N >= 1
      /\ DOMAIN refs = 1 .. N /\ DOMAIN fast = Local /\ \A x \in Local : fast[x] \in 0 .. N
      /\ \A o \in 1 .. N : refs[o] \in Int
      /\ stack_height = UpTo(Owned(abstract_stack), Len(abstract_stack)) /\ stack_height \in Nat
  BY AtUnit
<1>2. /\ unit.op = "STORE_FAST" /\ NextUnit /\ UNCHANGED <<Kept, operands, taken>> /\ slot' = slot
      /\ Len(abstract_stack) >= 1
  BY DEF StoreFast, Emitting
<1>3. PICK L \in Nat : L = Len(abstract_stack) /\ L >= 1
  BY <1>1, <1>2
<1>4. PICK x \in Local : x = unit.arg
  BY <1>1, <1>2, SizeIs DEF unit
<1>5. PICK top : top = abstract_stack[L]
  OBVIOUS
<1>6. PICK a : a = Below(abstract_stack, 1)
  OBVIOUS
<1>7. /\ Indexed(a) /\ Len(a) = L - 1 /\ L - 1 \in 0 .. L
      /\ Joined(a, abstract_stack, L - 1, <<>>)
      /\ UpTo(Owned(a), Len(a)) = UpTo(Owned(abstract_stack), L - 1)
  <2>1. 1 \in 0 .. Len(abstract_stack)
    BY <1>3
  <2> QED BY <1>1, <1>3, <1>6, <2>1, BelowIs
<1>8. L \in 1 .. Len(abstract_stack)
  BY <1>3
<1>9. a = abstract_stack' /\ fast' = [fast EXCEPT ![x] = top.value]
  BY <1>3, <1>4, <1>5, <1>6 DEF StoreFast
<1>10. stack_height' = UpTo(Owned(a), Len(a))
  <2>1. UpTo(Owned(abstract_stack), L) = UpTo(Owned(abstract_stack), L - 1)
                                           + IF top.really_pushed THEN 1 ELSE 0
    BY <1>1, <1>5, <1>8, CountOne
  <2>2. UpTo(Owned(abstract_stack), L - 1) \in Nat
    BY <1>1, <1>8, CountOne
  <2>3. stack_height' = IF top.really_pushed THEN stack_height - 1 ELSE stack_height
    BY <1>3, <1>5 DEF StoreFast
  <2> QED BY <1>1, <1>3, <1>7, <2>1, <2>2, <2>3, SMTT(30)
<1>11. top.value \in 1 .. N
  BY <1>1, <1>5, <1>8 DEF Backed
<1>12. /\ DOMAIN refs' = 1 .. N
       /\ \A o \in 1 .. N :
            refs'[o] = refs[o] + (IF top.value = o /\ ~top.really_pushed THEN 1 ELSE 0)
                                         - (IF fast[x] = o THEN 1 ELSE 0)
  BY <1>1, <1>3, <1>4, <1>5 DEF StoreFast
<1>13. ASSUME NEW o \in 1 .. N
       PROVE  /\ refs'[o] \in Int
              /\ refs'[o] >= UpTo(Mine(abstract_stack, o), L - 1) + InLocals(fast', o) + Own(o)
  <2>1. refs[o] \in Int /\ refs[o] >= UpTo(Mine(abstract_stack, o), L) + InLocals(fast, o) + Own(o)
    BY <1>1, <1>3 DEF Backed
  <2>2. UpTo(Mine(abstract_stack, o), L) = UpTo(Mine(abstract_stack, o), L - 1)
                                   + IF top.really_pushed /\ top.value = o THEN 1 ELSE 0
    BY <1>1, <1>5, <1>8, CountOne
  <2>3. UpTo(Mine(abstract_stack, o), L - 1) \in Nat
    BY <1>1, <1>8, CountOne
  <2>4. InLocals(fast', o) = InLocals(fast, o) - (IF fast[x] = o THEN 1 ELSE 0)
                               + (IF top.value = o THEN 1 ELSE 0)
    <3>1. Assigned(fast', fast, x, top.value)
      BY <1>1, <1>9 DEF Assigned
    <3> QED BY <3>1, InLocalsExcept
  <2>5. InLocals(fast, o) \in Nat /\ Own(o) \in Nat
    BY InLocalsType DEF Own
  <2>6. PICK g \in {0, 1}, l \in {0, 1} :
          /\ g = IF top.value = o THEN 1 ELSE 0
          /\ l = IF fast[x] = o THEN 1 ELSE 0
    OBVIOUS
  <2>7. CASE top.really_pushed
    <3>1. refs'[o] = refs[o] - l
      BY <1>12, <2>1, <2>6, <2>7
    <3>2. UpTo(Mine(abstract_stack, o), L) = UpTo(Mine(abstract_stack, o), L - 1) + g
      BY <2>2, <2>3, <2>6, <2>7
    <3> QED BY <2>1, <2>3, <2>4, <2>5, <2>6, <3>1, <3>2
  <2>8. CASE ~top.really_pushed
    <3>1. refs'[o] = refs[o] + g - l
      BY <1>12, <2>1, <2>6, <2>8
    <3>2. UpTo(Mine(abstract_stack, o), L) = UpTo(Mine(abstract_stack, o), L - 1)
      BY <2>2, <2>3, <2>6, <2>8
    <3> QED BY <2>1, <2>3, <2>4, <2>5, <2>6, <3>1, <3>2
  <2> QED BY <2>7, <2>8
<1>14. Backed(a, slot', fast', refs', N)
  <2>1. PICK t : t = <<>>
    OBVIOUS
  <2>2. /\ Indexed(t) /\ Len(t) = 0 /\ Owned(t) = {} /\ \A o : UpTo(Mine(t, o), 0) = 0
    BY <2>1, NoneOwned
  <2>3. Len(a) <= MaxHeight /\ DOMAIN slot' = 1 .. MaxHeight
    BY <1>1, <1>2, <1>9 DEF NextUnit, Backed
  <2>4. DOMAIN fast' = Local /\ \A y \in Local : fast'[y] \in 0 .. N
    BY <1>1, <1>9, <1>11
  <2>5. ASSUME NEW o \in 1 .. N
        PROVE  /\ refs'[o] \in Int
               /\ refs'[o] >= UpTo(Mine(abstract_stack, o), L - 1) + UpTo(Mine(t, o), Len(t))
                                + InLocals(fast', o) + Own(o)
    <3>1. UpTo(Mine(t, o), Len(t)) = 0
      BY <2>2
    <3>2. UpTo(Mine(abstract_stack, o), L - 1) \in Nat
      BY <1>1, <1>8, CountOne
    <3> QED BY <1>13, <3>1, <3>2
  <2>6. Rebacked(a, abstract_stack, L - 1, t, slot, fast, refs, N, slot', fast', refs', N)
    BY <1>1, <1>2, <1>7, <1>12, <2>1, <2>2, <2>3, <2>4, <2>5, SMTT(30) DEF Rebacked
  <2> QED BY <2>6, BackedJoined
<1>15. /\ Lasts(code, a, h[vpc + 1].until, vpc + 1, fast')
       /\ Len(a) + h[vpc + 1].effect = Total
  <2>1. PICK row : row = RowAt(code, h, vpc)
    OBVIOUS
  <2>2. row = Row(0, <<vpc>>)
    BY <1>2, <2>1, MoveRows DEF RowAt, unit, AssumesMove, Moves
  <2>3. row.undo = 0 /\ Len(row.marks) = 1
    BY <2>2 DEF Row
  <2>4. PICK t : t = <<>> /\ Len(t) = 0
    OBVIOUS
  <2>5. \A y \in Local : fast'[y] = fast[y] \/ Stores(code, y, vpc)
    BY <1>1, <1>2, <1>4, <1>9 DEF Stores, unit
  <2>6. Moved(code, h, vpc, row, a, abstract_stack, L - 1, t, fast, fast')
    BY <1>1, <1>3, <1>7, <2>1, <2>3, <2>4, <2>5 DEF Moved
  <2> QED BY <1>1, <2>6, LastsMoved
<1>16. Before(code, h, abstract_stack', vpc + 1, slot', fast', refs', N, Total)
  BY <1>9, <1>14, <1>15 DEF Before
<1>17. ~(vpc + 1 < Size(code) /\ code[vpc + 1].op = "UNPACK_SEQUENCE")
  BY <1>2, UnpackAfter
<1> QED BY <1>2, <1>9, <1>10, <1>16, <1>17, Arrives

\* An instruction emitted at once that is not a load.
LEMMA MovedArrives ==
  ASSUME Compiled(code), initial_stack_height \in 0 .. MaxHeight,
         NEW h, NEW N, BetweenUnits(h, N), NextUnit, UNCHANGED <<Kept, operands, taken>>,
         unit.op # "LOAD_FAST", NEW m, NEW t, NEW row,
         Rebacked(abstract_stack', abstract_stack, m, t, slot, fast, refs, N,
                  slot', fast', refs', N),
         Moved(code, h, vpc, row, abstract_stack', abstract_stack, m, t, fast, fast'),
         stack_height' = UpTo(Owned(abstract_stack), m) + UpTo(Owned(t), Len(t))
  PROVE  IInv'
<1>1. Backed(abstract_stack', slot', fast', refs', N)
  BY BackedJoined
<1>2. /\ Lasts(code, abstract_stack', h[vpc + 1].until, vpc + 1, fast')
      /\ Len(abstract_stack') + h[vpc + 1].effect = Len(abstract_stack) + h[vpc].effect
  BY LastsMoved
<1>3. Len(abstract_stack) + h[vpc].effect = Total
  BY AtUnit
<1>4. Before(code, h, abstract_stack', vpc + 1, slot', fast', refs', N, Total)
  BY <1>1, <1>2, <1>3 DEF Before
<1>5. Joined(abstract_stack', abstract_stack, m, t)
  BY DEF Rebacked
<1>6. Len(t) \in 0 .. Len(t) /\ Len(abstract_stack') = m + Len(t)
  BY <1>5 DEF Joined, Indexed
<1>7. UpTo(Owned(abstract_stack'), m + Len(t)) = UpTo(Owned(abstract_stack), m)
                                                    + UpTo(Owned(t), Len(t))
  BY <1>5, <1>6, JoinedCounts
<1>8. stack_height' = UpTo(Owned(abstract_stack'), Len(abstract_stack'))
  BY <1>6, <1>7
<1>9. ~(vpc + 1 < Size(code) /\ code[vpc + 1].op = "UNPACK_SEQUENCE")
  BY UnpackAfter
<1> QED BY <1>4, <1>8, <1>9, Arrives

LEMMA DeleteFastStep ==
  ASSUME Compiled(code), initial_stack_height \in 0 .. MaxHeight,
         NEW h, NEW N, BetweenUnits(h, N), DeleteFast
  PROVE  IInv'
<1>1. /\ Size(code) \in Nat /\ vpc \in 0 .. Size(code) - 1 /\ vpc \in Nat
      /\ Analysed(code, h, 0) /\ Indexed(abstract_stack) /\ Len(abstract_stack) \in Nat
      /\ Backed(abstract_stack, slot, fast, refs, N)
      /\ Lasts(code, abstract_stack, h[vpc].until, vpc, fast)
      /\ N \in Nat /\ N >= 1
      /\ DOMAIN refs = 1 .. N /\ DOMAIN fast = Local /\ \A x \in Local : fast[x] \in 0 .. N
      /\ \A o \in 1 .. N : refs[o] \in Int
      /\ stack_height = UpTo(Owned(abstract_stack), Len(abstract_stack)) /\ stack_height \in Nat
  BY AtUnit
<1>2. /\ unit.op = "DELETE_FAST" /\ NextUnit /\ UNCHANGED <<Kept, operands, taken>>
      /\ slot' = slot /\ stack_height' = stack_height /\ abstract_stack' = abstract_stack
  BY DEF DeleteFast, Emitting
<1>3. PICK L \in Nat : L = Len(abstract_stack)
  BY <1>1
<1>4. PICK x \in Local : x = unit.arg
  BY <1>1, <1>2, SizeIs DEF unit
<1>5. PICK old \in 1 .. N : old = fast[x]
  BY <1>1, <1>4 DEF DeleteFast, None
<1>6. /\ fast' = [fast EXCEPT ![x] = None] /\ refs' = [refs EXCEPT ![old] = @ - 1]
      /\ \A i \in 1 .. L : abstract_stack[i].local # x
  BY <1>1, <1>3, <1>4, <1>5 DEF DeleteFast, DeletesBetweenStatements, Indexed
<1>7. PICK t : t = <<>>
  OBVIOUS
<1>8. /\ Indexed(t) /\ Len(t) = 0 /\ Owned(t) = {} /\ UpTo(Owned(t), Len(t)) = 0
      /\ \A o : UpTo(Mine(t, o), Len(t)) = 0
  BY <1>7, NoneOwned
<1>9. Joined(abstract_stack, abstract_stack, L, t)
  BY <1>1, <1>3, <1>8 DEF Joined
<1>10. ASSUME NEW o \in 1 .. N
       PROVE  /\ refs'[o] \in Int
              /\ refs'[o] >= UpTo(Mine(abstract_stack, o), L) + UpTo(Mine(t, o), Len(t))
                               + InLocals(fast', o) + Own(o)
  <2>1. refs[o] \in Int /\ refs[o] >= UpTo(Mine(abstract_stack, o), L) + InLocals(fast, o) + Own(o)
    BY <1>1, <1>3 DEF Backed
  <2>2. refs'[o] = refs[o] - IF old = o THEN 1 ELSE 0
    BY <1>1, <1>6
  <2>3. Assigned(fast', fast, x, None)
    BY <1>1, <1>6 DEF Assigned
  <2>4. InLocals(fast', o) = InLocals(fast, o) - (IF fast[x] = o THEN 1 ELSE 0)
                               + (IF None = o THEN 1 ELSE 0)
    BY <2>3, InLocalsExcept
  <2>5. InLocals(fast', o) = InLocals(fast, o) - (IF old = o THEN 1 ELSE 0)
    <3>1. InLocals(fast, o) \in Nat
      BY InLocalsType
    <3>2. None # o
      BY DEF None
    <3> QED BY <1>5, <2>4, <3>1, <3>2
  <2>6. InLocals(fast, o) \in Nat /\ Own(o) \in Nat /\ UpTo(Mine(abstract_stack, o), L) \in Nat
    BY <1>1, <1>3, InLocalsType, OwnedIs DEF Own
  <2>7. UpTo(Mine(t, o), Len(t)) = 0
    BY <1>8
  <2> QED BY <2>1, <2>2, <2>5, <2>6, <2>7
<1>11. Rebacked(abstract_stack', abstract_stack, L, t, slot, fast, refs, N, slot', fast', refs', N)
  <2>1. DOMAIN fast' = Local /\ \A y \in Local : fast'[y] \in 0 .. N
    BY <1>1, <1>6 DEF None
  <2>2. Len(abstract_stack') <= MaxHeight /\ DOMAIN slot' = 1 .. MaxHeight /\ DOMAIN refs' = 1 .. N
    BY <1>1, <1>2, <1>6 DEF NextUnit, Backed
  <2> QED BY <1>1, <1>2, <1>8, <1>9, <1>10, <2>1, <2>2 DEF Rebacked
<1>12. PICK row : row = RowAt(code, h, vpc)
  OBVIOUS
<1>13. row.undo = 0 /\ Len(row.marks) = 0
  BY <1>2, <1>12, MoveRows DEF RowAt, unit, AssumesMove, Moves, Row
<1>14. \A y \in Local : fast'[y] = fast[y] \/ \A i \in 1 .. L : abstract_stack[i].local # y
  BY <1>1, <1>6
<1>15. Moved(code, h, vpc, row, abstract_stack', abstract_stack, L, t, fast, fast')
  BY <1>1, <1>2, <1>3, <1>8, <1>9, <1>12, <1>13, <1>14 DEF Moved
<1>16. stack_height' = UpTo(Owned(abstract_stack), L) + UpTo(Owned(t), Len(t))
  BY <1>1, <1>2, <1>3, <1>8
<1> QED BY <1>2, <1>11, <1>15, <1>16, MovedArrives

-----------------------------------------------------------------------------
(* Rotations.                                                              *)

\* The values a unit takes last until their marks.
LEMMA MarkedLast ==
  ASSUME NEW c, Size(c) \in Nat, NEW h, Analysed(c, h, 0), NEW v \in 0 .. Size(c) - 1,
         NEW row, row = RowAt(c, h, v), NEW s, Indexed(s), NEW fs,
         Lasts(c, s, h[v].until, v, fs), Len(row.marks) <= Len(s)
  PROVE  \A j \in 1 .. Len(row.marks) :
           /\ row.marks[j] \in Nat
           /\ Lasting(c, s[Len(s) - Len(row.marks) + j], row.marks[j], v, fs)
<1>1. /\ h[v + 1].until \in Seq(Nat) /\ row.undo \in Nat /\ row.marks \in Seq(Nat)
      /\ h[v].until = Without(h[v + 1].until, row.undo) \o row.marks
  <2>1. v \in 0 .. Size(c) /\ v + 1 \in 0 .. Size(c)
    OBVIOUS
  <2> QED BY <2>1 DEF Analysed
<1>2. PICK marks \in Seq(Nat), undo \in Nat, u \in Seq(Nat) :
        marks = row.marks /\ undo = row.undo /\ u = h[v + 1].until
  BY <1>1
<1>3. PICK L \in Nat : L = Len(s) /\ Len(marks) <= L
  BY <1>2 DEF Indexed
<1>4. ASSUME NEW j \in 1 .. Len(marks)
      PROVE  marks[j] \in Nat /\ Lasting(c, s[L - Len(marks) + j], marks[j], v, fs)
  <2>0. j \in 1 .. Len(marks) /\ Len(marks) <= L /\ marks[j] \in Nat
    BY <1>3
  <2>1. Due(Without(u, undo) \o marks, L, L - Len(marks) + j) = marks[j]
    BY <2>0, DuePassed
  <2>2. L - Len(marks) + j \in 1 .. Len(s)
    BY <1>3
  <2>3. Lasting(c, s[L - Len(marks) + j], Due(h[v].until, Len(s), L - Len(marks) + j), v, fs)
    BY <2>2 DEF Lasts
  <2>4. h[v].until = Without(u, undo) \o marks
    BY <1>1, <1>2
  <2>5. Lasting(c, s[L - Len(marks) + j], marks[j], v, fs)
    BY <1>3, <2>1, <2>3, <2>4
  <2> QED BY <2>0, <2>5
<1> QED BY <1>2, <1>3, <1>4

\* The top n values, and those of them below the top.
LEMMA TopIs ==
  ASSUME NEW s, Indexed(s), NEW n \in 0 .. Len(s), NEW t, t = TopN(s, n)
  PROVE  /\ Indexed(t) /\ Len(t) = n /\ Len(s) - n \in 0 .. Len(s)
         /\ \A i \in 1 .. n : t[i] = s[Len(s) - n + i]
<1>1. PICK b \in 0 .. Len(s) : b = Len(s) - n
  <2>1. Len(s) - n \in 0 .. Len(s)
    BY DEF Indexed
  <2> QED BY <2>1
<1>2. t = SubSeq(s, b + 1, Len(s)) /\ Len(s) = b + n /\ b \in Nat /\ n \in Nat
  BY <1>1 DEF TopN, Indexed
<1>3. Len(t) = n /\ DOMAIN t = 1 .. n /\ \A i \in 1 .. n : t[i] = s[b + i]
  BY <1>2 DEF Indexed
<1> QED BY <1>1, <1>2, <1>3 DEF Indexed

\* M is the part of s from the b-th value on, n values of it.
Part(M, s, b, n) ==
  /\ Indexed(s) /\ b \in Nat /\ n \in Nat /\ b + n <= Len(s)
  /\ Indexed(M) /\ n <= Len(M) /\ \A i \in 1 .. n : M[i] = s[b + i]

LEMMA PartCounts ==
  ASSUME NEW s, NEW b \in Nat, NEW n \in Nat, NEW M, Part(M, s, b, n), NEW o
  PROVE  \A k \in 0 .. n :
           /\ UpTo(Owned(s), b + k) = UpTo(Owned(s), b) + UpTo(Owned(M), k)
           /\ UpTo(Mine(s, o), b + k) = UpTo(Mine(s, o), b) + UpTo(Mine(M, o), k)
<1> SUFFICES ASSUME NEW k \in 0 .. n
             PROVE  /\ UpTo(Owned(s), b + k) = UpTo(Owned(s), b) + UpTo(Owned(M), k)
                    /\ UpTo(Mine(s, o), b + k) = UpTo(Mine(s, o), b) + UpTo(Mine(M, o), k)
  OBVIOUS
<1>0. /\ Indexed(s) /\ b \in Nat /\ n \in Nat /\ b + n <= Len(s)
      /\ Indexed(M) /\ n <= Len(M) /\ \A i \in 1 .. n : M[i] = s[b + i]
  BY DEF Part
<1>1. \A i \in 1 .. k : /\ b + i \in Owned(s) <=> i \in Owned(M)
                        /\ b + i \in Mine(s, o) <=> i \in Mine(M, o)
  <2>1. \A i \in 1 .. k : b + i \in DOMAIN s /\ i \in DOMAIN M /\ M[i] = s[b + i]
    BY <1>0 DEF Indexed
  <2> QED BY <2>1 DEF Owned, Mine
<1>2. /\ Owned(s) \in SUBSET Positive /\ Owned(M) \in SUBSET Positive
      /\ Mine(s, o) \in SUBSET Positive /\ Mine(M, o) \in SUBSET Positive /\ k \in Nat
  <2>1. Owned(s) \in SUBSET Positive /\ Mine(s, o) \in SUBSET Positive
    BY <1>0, OwnedIs
  <2>2. Owned(M) \in SUBSET Positive /\ Mine(M, o) \in SUBSET Positive
    BY <1>0, OwnedIs
  <2>3. k \in Nat
    BY <1>0
  <2> QED BY ONLY <2>1, <2>2, <2>3
<1>3. UpTo(Owned(s), b + k) = UpTo(Owned(s), b) + UpTo(Owned(M), k)
  BY <1>0, <1>1, <1>2, UpToShift
<1>4. UpTo(Mine(s, o), b + k) = UpTo(Mine(s, o), b) + UpTo(Mine(M, o), k)
  BY <1>0, <1>1, <1>2, UpToShift
<1> QED BY <1>3, <1>4

\* t is the value x with the values of M above it.
Under(t, M) ==
  /\ Indexed(t) /\ Indexed(M) /\ Len(t) = 1 + Len(M)
  /\ \A i \in 1 .. Len(M) : t[1 + i] = M[i]

LEMMA UnderCounts ==
  ASSUME NEW t, NEW M, Under(t, M), NEW o
  PROVE  \A k \in 0 .. Len(M) :
           /\ UpTo(Owned(t), 1 + k) = (IF t[1].really_pushed THEN 1 ELSE 0) + UpTo(Owned(M), k)
           /\ UpTo(Mine(t, o), 1 + k)
                = (IF t[1].really_pushed /\ t[1].value = o THEN 1 ELSE 0) + UpTo(Mine(M, o), k)
<1> SUFFICES ASSUME NEW k \in 0 .. Len(M)
             PROVE  /\ UpTo(Owned(t), 1 + k)
                         = (IF t[1].really_pushed THEN 1 ELSE 0) + UpTo(Owned(M), k)
                    /\ UpTo(Mine(t, o), 1 + k)
                         = (IF t[1].really_pushed /\ t[1].value = o THEN 1 ELSE 0)
                             + UpTo(Mine(M, o), k)
  OBVIOUS
<1>0. /\ Indexed(t) /\ Indexed(M) /\ Len(t) = 1 + Len(M)
      /\ \A i \in 1 .. Len(M) : t[1 + i] = M[i]
  BY DEF Under
<1>1. PICK n \in Nat : n = Len(M) /\ Len(t) = 1 + n /\ k \in 0 .. n
  BY <1>0 DEF Indexed
<1>2. 1 \in Nat /\ 1 + n <= Len(t) /\ n <= Len(M) /\ \A i \in 1 .. n : M[i] = t[1 + i]
  BY <1>0, <1>1
<1>3. /\ UpTo(Owned(t), 1 + k) = UpTo(Owned(t), 1) + UpTo(Owned(M), k)
      /\ UpTo(Mine(t, o), 1 + k) = UpTo(Mine(t, o), 1) + UpTo(Mine(M, o), k)
  <2>1. \A j \in 0 .. n :
           /\ UpTo(Owned(t), 1 + j) = UpTo(Owned(t), 1) + UpTo(Owned(M), j)
           /\ UpTo(Mine(t, o), 1 + j) = UpTo(Mine(t, o), 1) + UpTo(Mine(M, o), j)
    <3>1. Part(M, t, 1, n)
      BY <1>0, <1>1, <1>2 DEF Part
    <3>2. PICK b \in Nat : b = 1 /\ Part(M, t, b, n) /\ n \in Nat
      BY <1>1, <3>1
    <3>3. \A j \in 0 .. n :
           /\ UpTo(Owned(t), b + j) = UpTo(Owned(t), b) + UpTo(Owned(M), j)
           /\ UpTo(Mine(t, o), b + j) = UpTo(Mine(t, o), b) + UpTo(Mine(M, o), j)
      BY ONLY <3>2, PartCounts
    <3> QED BY <3>2, <3>3
  <2> QED BY <1>1, <2>1
<1>4. 1 \in 1 .. Len(t) /\ 1 - 1 = 0
  BY <1>1
<1>5. /\ UpTo(Owned(t), 1) = UpTo(Owned(t), 1 - 1) + IF t[1].really_pushed THEN 1 ELSE 0
      /\ UpTo(Mine(t, o), 1) = UpTo(Mine(t, o), 1 - 1)
                                + IF t[1].really_pushed /\ t[1].value = o THEN 1 ELSE 0
  BY <1>0, <1>4, CountOne, SMTT(30)
<1>6. UpTo(Owned(t), 0) = 0 /\ UpTo(Mine(t, o), 0) = 0
  BY <1>0, OwnedIs
<1> QED BY <1>3, <1>4, <1>5, <1>6

\* a is s with its n top values rotated, T what is then on top, M what was below the top.
Rotation(s, n, b, a, M, T) ==
  /\ Indexed(s) /\ n \in 1 .. Len(s) /\ b = Len(s) - n
  /\ a = Rotated(s, b + 1, Len(s)) /\ M = Below(TopN(s, n), 1) /\ T = TopN(a, n)

LEMMA RotationIs ==
  ASSUME NEW s, NEW n, NEW b, NEW a, NEW M, NEW T, Rotation(s, n, b, a, M, T)
  PROVE  /\ Joined(a, s, b, T) /\ b \in Nat /\ n \in Nat /\ b + n = Len(s) /\ n - 1 \in Nat
         /\ Len(a) = Len(s) /\ Part(M, s, b, n - 1) /\ Len(M) = n - 1
         /\ Indexed(T) /\ Len(T) = n /\ T[1] = s[Len(s)]
         /\ \A i \in 1 .. n - 1 : T[1 + i] = M[i]
<1>1. PICK L \in Nat : L = Len(s) /\ DOMAIN s = 1 .. L /\ n \in 1 .. L
  BY DEF Rotation, Indexed
<1>2. n \in Nat /\ n - 1 \in Nat /\ b \in Nat /\ b + n = L /\ b = L - n
  BY <1>1 DEF Rotation
<1>3. PICK S : S = TopN(s, n)
  OBVIOUS
<1>4. Indexed(S) /\ Len(S) = n /\ \A i \in 1 .. n : S[i] = s[b + i]
  <2>1. n \in 0 .. Len(s) /\ Indexed(s)
    BY <1>1 DEF Rotation
  <2>2. Len(s) - n = b
    BY <1>1, <1>2
  <2> QED BY <1>3, <2>1, <2>2, TopIs
<1>5. Indexed(M) /\ Len(M) = n - 1 /\ \A i \in 1 .. n - 1 : M[i] = s[b + i]
  <2>1. 1 \in 0 .. Len(S)
    BY <1>1, <1>4
  <2>2. M = Below(S, 1)
    BY <1>3 DEF Rotation
  <2>3. Indexed(M) /\ Len(M) = Len(S) - 1 /\ \A i \in 1 .. Len(S) - 1 : M[i] = S[i]
    BY <1>4, <2>1, <2>2, BelowIs
  <2>4. \A i \in 1 .. n - 1 : i \in 1 .. n
    BY <1>2
  <2> QED BY <1>4, <2>3, <2>4
<1>6. a = [i \in 1 .. L |-> IF i = b + 1 THEN s[L]
                            ELSE IF i \in b + 1 + 1 .. L THEN s[i - 1] ELSE s[i]]
  BY <1>1 DEF Rotation, Rotated
<1>7. Len(a) = L /\ Indexed(a)
  BY <1>6 DEF Indexed
<1>8. Indexed(T) /\ Len(T) = n /\ \A i \in 1 .. n : T[i] = a[b + i]
  <2>1. n \in 0 .. Len(a) /\ T = TopN(a, n) /\ Len(a) - n = b
    BY <1>1, <1>2, <1>7 DEF Rotation
  <2>2. Indexed(T) /\ Len(T) = n /\ \A i \in 1 .. n : T[i] = a[Len(a) - n + i]
    <3>1. n \in 0 .. Len(a) /\ T = TopN(a, n) /\ Indexed(a)
      BY <1>7, <2>1
    <3> QED BY ONLY <3>1, TopIs
  <2> QED BY <2>1, <2>2
<1>9. Joined(a, s, b, T)
  <2>1. b \in 0 .. Len(s) /\ Len(a) = b + Len(T) /\ Indexed(s)
    BY <1>1, <1>2, <1>7, <1>8 DEF Rotation
  <2>2. \A i \in 1 .. b : a[i] = s[i]
    BY <1>2, <1>6
  <2> QED BY <1>7, <1>8, <2>1, <2>2 DEF Joined
<1>10. T[1] = s[L]
  <2>1. T[1] = a[b + 1] /\ b + 1 \in 1 .. L
    BY <1>1, <1>2, <1>8
  <2> QED BY <1>6, <2>1
<1>11. ASSUME NEW i \in 1 .. n - 1 PROVE T[1 + i] = M[i]
  <2>0. i \in Int /\ i >= 1 /\ i <= n - 1
    BY <1>2
  <2>1. PICK k \in Int : k = b + 1 + i
    BY <1>2, <2>0
  <2>5. k \in 1 .. L /\ k - 1 = b + i /\ k # b + 1 /\ k \in b + 1 + 1 .. L /\ k = b + (1 + i)
    BY <1>1, <1>2, <2>0, <2>1
  <2>2. 1 + i \in 1 .. n
    BY <1>2
  <2>3. T[1 + i] = a[k]
    BY <1>8, <2>5, <2>2
  <2>4. a[k] = s[k - 1]
    BY <1>6, <2>5
  <2> QED BY <1>5, <2>5, <2>3, <2>4
<1>12. Part(M, s, b, n - 1)
  BY <1>1, <1>2, <1>5 DEF Part, Rotation
<1> QED BY <1>1, <1>2, <1>5, <1>7, <1>8, <1>9, <1>10, <1>11, <1>12

\* What the slots hold once the values the stack owns have moved, and how many they are.
Shifted(s, M, f, lift, H, g) ==
  /\ DOMAIN f = 1 .. MaxHeight /\ Len(s) <= MaxHeight /\ Placed(s, f)
  /\ lift = Cardinality(Owned(M)) /\ H = UpTo(Owned(s), Len(s))
  /\ g = IF s[Len(s)].really_pushed THEN Rotated(f, H - lift, H) ELSE f

LEMMA RotationSlots ==
  ASSUME NEW s, NEW n, NEW b, NEW a, NEW M, NEW T, Rotation(s, n, b, a, M, T),
         NEW f, NEW lift, NEW H, NEW g, Shifted(s, M, f, lift, H, g)
  PROVE  /\ DOMAIN g = 1 .. MaxHeight
         /\ \A i \in 1 .. UpTo(Owned(s), b) : g[i] = f[i]
         /\ \A k \in Owned(T) : g[UpTo(Owned(s), b) + UpTo(Owned(T), k)] = T[k].value
         /\ H = UpTo(Owned(s), b) + UpTo(Owned(T), Len(T))
         /\ \A o : UpTo(Mine(s, o), Len(s)) = UpTo(Mine(s, o), b) + UpTo(Mine(T, o), Len(T))
<1>0. /\ DOMAIN f = 1 .. MaxHeight /\ Len(s) <= MaxHeight /\ Placed(s, f)
      /\ lift = Cardinality(Owned(M)) /\ H = UpTo(Owned(s), Len(s))
      /\ g = IF s[Len(s)].really_pushed THEN Rotated(f, H - lift, H) ELSE f
  BY DEF Shifted
<1> USE <1>0
<1>1. /\ b \in Nat /\ n \in Nat /\ b + n = Len(s) /\ n - 1 \in Nat
      /\ Part(M, s, b, n - 1) /\ Len(M) = n - 1 /\ Indexed(T) /\ Len(T) = n /\ T[1] = s[Len(s)]
      /\ \A i \in 1 .. n - 1 : T[1 + i] = M[i]
  BY RotationIs
<1>2. Indexed(s) /\ n \in 1 .. Len(s)
  BY DEF Rotation
<1>3. PICK L \in Nat : L = Len(s) /\ L >= 1
  <2>1. Len(s) \in Nat /\ Len(s) >= 1
    BY <1>2 DEF Indexed
  <2> QED BY <2>1
<1>4. PICK l \in Nat : l = n - 1 /\ n = 1 + l /\ b + l = L - 1 /\ L = b + l + 1
  BY <1>1, <1>3
<1>5. Indexed(M) /\ Len(M) = l /\ Len(T) = 1 + Len(M) /\ Part(M, s, b, l)
      /\ \A i \in 1 .. Len(M) : T[1 + i] = M[i]
  BY <1>1, <1>4 DEF Part
<1>6. PICK top : top = s[L]
  OBVIOUS
<1>7. PICK p \in {0, 1} : p = IF top.really_pushed THEN 1 ELSE 0
  OBVIOUS
<1>8. ASSUME NEW o
      PROVE  /\ \A k \in 0 .. l :
                   /\ UpTo(Owned(s), b + k) = UpTo(Owned(s), b) + UpTo(Owned(M), k)
                   /\ UpTo(Mine(s, o), b + k) = UpTo(Mine(s, o), b) + UpTo(Mine(M, o), k)
             /\ \A k \in 0 .. l :
                  /\ UpTo(Owned(T), 1 + k) = p + UpTo(Owned(M), k)
                  /\ UpTo(Mine(T, o), 1 + k)
                       = (IF top.really_pushed /\ top.value = o THEN 1 ELSE 0)
                            + UpTo(Mine(M, o), k)
  <2>1. \A k \in 0 .. l :
           /\ UpTo(Owned(s), b + k) = UpTo(Owned(s), b) + UpTo(Owned(M), k)
           /\ UpTo(Mine(s, o), b + k) = UpTo(Mine(s, o), b) + UpTo(Mine(M, o), k)
    <3>1. b \in Nat /\ l \in Nat /\ Part(M, s, b, l)
      BY <1>1, <1>4, <1>5
    <3> QED BY ONLY <3>1, PartCounts
  <2>2. \A k \in 0 .. Len(M) :
           /\ UpTo(Owned(T), 1 + k) = (IF T[1].really_pushed THEN 1 ELSE 0) + UpTo(Owned(M), k)
           /\ UpTo(Mine(T, o), 1 + k)
                = (IF T[1].really_pushed /\ T[1].value = o THEN 1 ELSE 0) + UpTo(Mine(M, o), k)
    <3>1. Under(T, M)
      BY <1>1, <1>5 DEF Under
    <3> QED BY ONLY <3>1, UnderCounts
  <2>3. T[1] = top /\ Len(M) = l
    BY <1>1, <1>3, <1>5, <1>6
  <2> QED BY <1>7, <2>1, <2>2, <2>3
<1>9. /\ UpTo(Owned(s), L) = UpTo(Owned(s), L - 1) + p
      /\ \A o : UpTo(Mine(s, o), L) = UpTo(Mine(s, o), L - 1)
                                + IF top.really_pushed /\ top.value = o THEN 1 ELSE 0
  <2>1. L \in 1 .. Len(s)
    BY <1>3
  <2> QED BY <1>2, <1>6, <1>7, <2>1, CountOne
<1>10. PICK A \in Nat, B \in Nat :
         /\ A = UpTo(Owned(s), b) /\ B = UpTo(Owned(M), l) /\ UpTo(Owned(s), L - 1) = A + B
         /\ UpTo(Owned(T), n) = p + B
  <2>1. UpTo(Owned(s), b) \in Nat
    BY <1>1, <1>2, OwnedIs
  <2>2. UpTo(Owned(M), l) \in Nat
    BY <1>4, <1>5, OwnedIs
  <2>3. l \in 0 .. l
    BY <1>4
  <2>4. UpTo(Owned(s), b + l) = UpTo(Owned(s), b) + UpTo(Owned(M), l)
        /\ UpTo(Owned(T), 1 + l) = p + UpTo(Owned(M), l)
    BY <1>8, <2>3
  <2> QED BY <1>4, <2>1, <2>2, <2>4
<1>11. H = A + B + p /\ H = A + UpTo(Owned(T), Len(T))
  <2>1. H = UpTo(Owned(s), L)
    BY <1>3
  <2>2. H = A + B + p
    BY <1>9, <1>10, <2>1
  <2>3. UpTo(Owned(T), Len(T)) = p + B
    BY <1>1, <1>10
  <2>4. A + B + p = A + (p + B)
    BY <1>7, <1>10
  <2> QED BY <2>2, <2>3, <2>4
<1>12. lift = B
  <2>1. Owned(M) \in SUBSET (1 .. Len(M))
    BY <1>5, OwnedIs
  <2> QED BY <1>4, <1>5, <1>10, <2>1, UpToAll
<1>13. ASSUME NEW o
       PROVE  UpTo(Mine(s, o), Len(s)) = UpTo(Mine(s, o), b) + UpTo(Mine(T, o), Len(T))
  <2>1. l \in 0 .. l
    BY <1>4
  <2>2. UpTo(Mine(s, o), b + l) = UpTo(Mine(s, o), b) + UpTo(Mine(M, o), l)
        /\ UpTo(Mine(T, o), 1 + l)
             = (IF top.really_pushed /\ top.value = o THEN 1 ELSE 0) + UpTo(Mine(M, o), l)
    BY <1>8, <2>1
  <2>3. UpTo(Mine(s, o), b) \in Nat
    BY <1>1, <1>2, OwnedIs
  <2>4. UpTo(Mine(M, o), l) \in Nat
    BY <1>4, <1>5, OwnedIs
  <2>5. UpTo(Mine(s, o), L) = UpTo(Mine(s, o), L - 1)
                                + IF top.really_pushed /\ top.value = o THEN 1 ELSE 0
    BY <1>9
  <2>6. L - 1 = b + l /\ Len(T) = 1 + l /\ Len(s) = L
    BY <1>1, <1>3, <1>4
  <2> QED BY <2>2, <2>3, <2>4, <2>5, <2>6
<1>14. H <= L
  <2>1. L \in 0 .. Len(s)
    BY <1>3
  <2>2. UpTo(Owned(s), L) \in 0 .. L
    BY <1>2, <2>1, HeightIs
  <2> QED BY <1>3, <2>2
<1>15. DOMAIN g = 1 .. MaxHeight
  BY DEF Rotated
<1>16. top.really_pushed =>
         \A i \in 1 .. MaxHeight :
           g[i] = IF i = A + 1 THEN f[A + B + 1]
                  ELSE IF i \in A + 1 + 1 .. A + B + 1 THEN f[i - 1] ELSE f[i]
  <2>1. ASSUME top.really_pushed
        PROVE  H - lift = A + 1 /\ H = A + B + 1
    BY <1>7, <1>10, <1>11, <1>12, <2>1, SMTT(30)
  <2>2. ASSUME top.really_pushed
        PROVE g = Rotated(f, A + 1, A + B + 1)
    BY <1>3, <1>6, <2>1, <2>2
  <2> QED BY <2>2 DEF Rotated
<1>17. A + B + p <= MaxHeight /\ MaxHeight \in Nat
  BY <1>3, <1>7, <1>10, <1>11, <1>14, NumbersAssumption
<1>18. ASSUME NEW i \in 1 .. A PROVE g[i] = f[i]
  <2>0. i \in Int /\ i >= 1 /\ i <= A /\ A \in Nat /\ B \in Nat /\ p \in Nat
    BY <1>7, <1>10
  <2>2. i \in 1 .. MaxHeight
    BY <1>17, <2>0
  <2>3. i # A + 1 /\ ~(i \in A + 1 + 1 .. A + B + 1)
    BY <2>0
  <2>1. i \in 1 .. MaxHeight /\ i # A + 1 /\ ~(i \in A + 1 + 1 .. A + B + 1)
    BY <2>2, <2>3
  <2> QED BY <1>3, <1>6, <1>16, <2>1
<1>19. ASSUME NEW k \in Owned(T)
       PROVE  g[A + UpTo(Owned(T), k)] = T[k].value
  <2>1. k \in 1 .. n /\ T[k].really_pushed
    BY <1>1 DEF Owned, Indexed
  <2>2. CASE k = 1
    <3>1. top.really_pushed /\ T[k] = top
      BY <1>1, <1>3, <1>6, <2>1, <2>2
    <3>2. UpTo(Owned(T), k) = 1
      <4>1. 0 \in 0 .. l /\ 1 + 0 = 1
        BY <1>4
      <4>2. UpTo(Owned(T), 1 + 0) = p + UpTo(Owned(M), 0)
        BY <1>8, <4>1
      <4>3. UpTo(Owned(M), 0) = 0
        BY <1>5, OwnedIs
      <4> QED BY <1>7, <2>2, <3>1, <4>1, <4>2, <4>3
    <3>3. p = 1 /\ A + 1 \in 1 .. MaxHeight
      <4>1. p = 1
        BY <1>7, <3>1
      <4>2. A \in Nat /\ B \in Nat /\ A + B + 1 <= MaxHeight /\ MaxHeight \in Nat
        BY <1>10, <1>17, <4>1
      <4> QED BY <4>1, <4>2
    <3>4. g[A + 1] = f[A + B + 1]
      BY <1>16, <3>1, <3>3
    <3>5. L \in Owned(s)
      BY <1>2, <1>3, <1>6, <3>1 DEF Owned, Indexed
    <3>6. f[UpTo(Owned(s), L)] = s[L].value
      BY <3>5 DEF Placed
    <3>7. UpTo(Owned(s), L) = A + B + 1
      BY <1>3, <1>10, <1>11, <3>3
    <3> QED BY <1>6, <3>1, <3>2, <3>4, <3>6, <3>7
  <2>3. CASE k # 1
    <3>1. PICK i \in Nat : i = k - 1 /\ k = 1 + i /\ i \in 1 .. l
      BY <1>4, <2>1, <2>3
    <3>2. T[k] = M[i] /\ i \in Owned(M)
      BY <1>5, <2>1, <3>1 DEF Owned, Indexed
    <3>3. i \in 0 .. l
      BY <3>1
    <3>4. UpTo(Owned(T), k) = p + UpTo(Owned(M), i)
      BY <1>8, <3>1, <3>3
    <3>5. UpTo(Owned(s), b + i) = A + UpTo(Owned(M), i)
      BY <1>8, <1>10, <3>3
    <3>6. b + i \in Owned(s) /\ s[b + i] = M[i]
      <4>1. M[i] = s[b + i]
        BY <1>5, <3>1 DEF Part
      <4>2. b + i \in 1 .. L
        BY <1>1, <1>4, <3>1
      <4> QED BY <1>2, <1>3, <2>1, <3>2, <4>1, <4>2 DEF Owned, Indexed
    <3>7. f[A + UpTo(Owned(M), i)] = T[k].value
      BY <3>2, <3>5, <3>6 DEF Placed
    <3>8. PICK u \in Nat : u = UpTo(Owned(M), i) /\ u \in 1 .. B
      <4>1. UpTo(Owned(M), i) \in Nat /\ UpTo(Owned(M), i) \in 1 .. UpTo(Owned(M), l)
        BY <1>4, <1>5, <3>1, <3>2, PlaceIs
      <4> QED BY <1>10, <4>1
    <3>9. CASE top.really_pushed
      <4>1. p = 1 /\ A + u + 1 \in 1 .. MaxHeight /\ A + u + 1 # A + 1
            /\ A + u + 1 \in A + 1 + 1 .. A + B + 1 /\ A + u + 1 - 1 = A + u
        <5>1. p = 1
          BY <1>7, <3>9
        <5>2. u \in Int /\ u >= 1 /\ u <= B /\ A \in Nat /\ B \in Nat /\ MaxHeight \in Nat
          BY <1>10, <1>17, <3>8
        <5>3. A + B + 1 <= MaxHeight
          BY <1>17, <5>1
        <5>4. A + u + 1 \in 1 .. MaxHeight
          BY <5>2, <5>3
        <5>5. A + u + 1 # A + 1 /\ A + u + 1 - 1 = A + u
          BY <5>2
        <5>6. A + u + 1 \in A + 1 + 1 .. A + B + 1
          BY <5>2
        <5> QED BY <5>1, <5>4, <5>5, <5>6
      <4>2. g[A + u + 1] = f[A + u]
        BY <1>16, <3>9, <4>1
      <4>3. A + UpTo(Owned(T), k) = A + u + 1
        BY <1>10, <3>4, <3>8, <4>1
      <4> QED BY <3>7, <3>8, <4>2, <4>3
    <3>10. CASE ~top.really_pushed
      <4>1. p = 0 /\ g = f
        BY <1>3, <1>6, <1>7, <3>10
      <4>2. UpTo(Owned(T), k) = u
        BY <3>4, <3>8, <4>1
      <4> QED BY <3>7, <3>8, <4>1, <4>2
    <3> QED BY <3>9, <3>10
  <2> QED BY <2>2, <2>3
<1> QED BY <1>10, <1>11, <1>13, <1>15, <1>18, <1>19

\* The row of a rotation: each of the n values takes the time of the place it moves to.
LEMMA RotationRow ==
  ASSUME NEW op \in {"ROT_TWO", "ROT_THREE", "ROT_FOUR", "ROT_N"}, NEW arg,
         NEW n \in Nat, n = RotArg(op, arg), n >= 1, NEW u \in Seq(Nat), NEW v,
         NEW row, row = Assumes(op, arg, u, v)
  PROVE  /\ row.undo = n /\ Len(row.marks) = n
         /\ row.marks[n] = Due(u, n, 1)
         /\ \A i \in 1 .. n - 1 : row.marks[i] = Due(u, n, 1 + i)
<1>1. PICK t : t = TopOf(u, n)
  OBVIOUS
<1>2. row = Row(n, SubSeq(t, 2, n) \o <<t[1]>>)
  <2>1. row = AssumesMove(op, arg, u, v)
    BY MoveRows DEF Moves
  <2>2. AssumesMove(op, arg, u, v)
          = LET k == RotArg(op, arg)  w == TopOf(u, k) IN Row(k, SubSeq(w, 2, k) \o <<w[1]>>)
    BY DEF AssumesMove
  <2> QED BY <1>1, <2>1, <2>2
<1>3. Len(t) = n /\ DOMAIN t = 1 .. n /\ \A i \in 1 .. n : t[i] = Due(u, n, i)
  <2>1. t = [i \in 1 .. n |-> IF Len(u) - n + i >= 1 THEN u[Len(u) - n + i] ELSE Forever]
    BY <1>1 DEF TopOf
  <2> QED BY <2>1 DEF Due
<1>4. PICK w : w = SubSeq(t, 2, n)
  OBVIOUS
<1>5. /\ Len(w) = n - 1 /\ DOMAIN w = 1 .. n - 1 /\ n - 1 \in Nat
      /\ \A i \in 1 .. n - 1 : w[i] = t[1 + i]
  <2>1. n - 1 \in Nat
    OBVIOUS
  <2>2. DOMAIN w = 1 .. n - 1 /\ Len(w) = n - 1
    BY <1>3, <1>4, <2>1
  <2>3. \A i \in 1 .. n - 1 : w[i] = t[1 + i]
    BY <1>3, <1>4, <2>1
  <2> QED BY <2>1, <2>2, <2>3
<1>6. row.undo = n /\ row.marks = w \o <<t[1]>>
  <2>1. PICK m : m = SubSeq(t, 2, n) \o <<t[1]>>
    OBVIOUS
  <2>2. row.undo = n /\ row.marks = m
    <3>1. row = Row(n, m)
      BY <1>2, <2>1
    <3> QED BY ONLY <3>1 DEF Row
  <2> QED BY <1>4, <2>1, <2>2
<1>7. Len(row.marks) = n /\ row.marks[n] = t[1] /\ \A i \in 1 .. n - 1 : row.marks[i] = w[i]
  BY <1>5, <1>6
<1>8. 1 \in 1 .. n /\ \A i \in 1 .. n - 1 : 1 + i \in 1 .. n
  OBVIOUS
<1> QED BY <1>3, <1>5, <1>6, <1>7, <1>8

LEMMA RotateStep ==
  ASSUME Compiled(code), initial_stack_height \in 0 .. MaxHeight,
         NEW h, NEW N, BetweenUnits(h, N), Rotate
  PROVE  IInv'
<1>1. /\ Size(code) \in Nat /\ vpc \in 0 .. Size(code) - 1 /\ vpc \in Nat
      /\ Analysed(code, h, 0) /\ Indexed(abstract_stack) /\ Len(abstract_stack) \in Nat
      /\ Backed(abstract_stack, slot, fast, refs, N)
      /\ Lasts(code, abstract_stack, h[vpc].until, vpc, fast)
      /\ N \in Nat /\ N >= 1
      /\ DOMAIN refs = 1 .. N /\ DOMAIN fast = Local /\ \A x \in Local : fast[x] \in 0 .. N
      /\ \A o \in 1 .. N : refs[o] \in Int
      /\ stack_height = UpTo(Owned(abstract_stack), Len(abstract_stack)) /\ stack_height \in Nat
  BY AtUnit
<1>2. /\ unit.op \in {"ROT_TWO", "ROT_THREE", "ROT_FOUR", "ROT_N"} /\ NextUnit
      /\ UNCHANGED <<Kept, operands, taken>>
      /\ fast' = fast /\ refs' = refs /\ stack_height' = stack_height
  BY DEF Rotate, Emitting
<1>3. PICK n : n = RotArg(unit.op, unit.arg)
  OBVIOUS
<1>4. n \in Nat /\ n >= 1 /\ n \in 1 .. Len(abstract_stack)
  <2>1. unit.arg \in Nat /\ (unit.op = "ROT_N" => unit.arg > 0)
    BY <1>1, SizeIs DEF unit
  <2>2. n \in Nat /\ n >= 1
    BY <1>2, <1>3, <2>1 DEF RotArg
  <2>3. Len(abstract_stack) >= n
    BY <1>3 DEF Rotate
  <2> QED BY <1>1, <2>2, <2>3
<1>5. PICK s, a, f, g : s = abstract_stack /\ a = abstract_stack' /\ f = slot /\ g = slot'
  OBVIOUS
<1>6. PICK b, M, T : b = Len(s) - n /\ M = Below(TopN(s, n), 1) /\ T = TopN(a, n)
  OBVIOUS
<1>7. PICK lift : lift = Cardinality(Owned(M))
  OBVIOUS
<1>8. /\ a = Rotated(s, Len(s) - n + 1, Len(s))
      /\ g = IF s[Len(s)].really_pushed THEN Rotated(f, stack_height - lift, stack_height) ELSE f
  BY <1>3, <1>5, <1>6, <1>7 DEF Rotate
<1>9. Rotation(s, n, b, a, M, T)
  BY <1>1, <1>4, <1>5, <1>6, <1>8 DEF Rotation
<1>10. /\ Joined(a, s, b, T) /\ b \in Nat /\ b + n = Len(s) /\ n - 1 \in Nat
       /\ Len(a) = Len(s) /\ Part(M, s, b, n - 1) /\ Len(M) = n - 1
       /\ Indexed(T) /\ Len(T) = n /\ T[1] = s[Len(s)]
       /\ \A i \in 1 .. n - 1 : T[1 + i] = M[i]
  BY <1>9, RotationIs
<1>11. DOMAIN f = 1 .. MaxHeight /\ Len(s) <= MaxHeight /\ Placed(s, f)
       /\ stack_height = UpTo(Owned(s), Len(s))
  BY <1>1, <1>5 DEF Backed
<1>12. /\ DOMAIN g = 1 .. MaxHeight
       /\ \A i \in 1 .. UpTo(Owned(s), b) : g[i] = f[i]
       /\ \A k \in Owned(T) : g[UpTo(Owned(s), b) + UpTo(Owned(T), k)] = T[k].value
       /\ stack_height = UpTo(Owned(s), b) + UpTo(Owned(T), Len(T))
       /\ \A o : UpTo(Mine(s, o), Len(s)) = UpTo(Mine(s, o), b) + UpTo(Mine(T, o), Len(T))
  <2>1. Shifted(s, M, f, lift, stack_height, g)
    BY <1>7, <1>8, <1>11 DEF Shifted
  <2> QED BY ONLY <1>9, <2>1, RotationSlots
<1>13. \A k \in 1 .. Len(T) : \E j \in 1 .. Len(s) : T[k] = s[j]
  <2>1. \A i \in 1 .. n - 1 : M[i] = s[b + i] /\ b + i \in 1 .. Len(s)
    BY <1>4, <1>10 DEF Part
  <2> SUFFICES ASSUME NEW k \in 1 .. n PROVE \E j \in 1 .. Len(s) : T[k] = s[j]
    BY <1>10
  <2>2. CASE k = 1
    <3>1. Len(s) \in 1 .. Len(s)
      BY <1>1, <1>4, <1>5
    <3> QED BY <1>10, <2>2, <3>1
  <2>3. CASE k # 1
    <3>1. PICK i \in 1 .. n - 1 : k = 1 + i
      <4>1. k - 1 \in 1 .. n - 1 /\ k = 1 + (k - 1)
        BY <1>4, <2>3
      <4> QED BY <4>1
    <3> QED BY <1>10, <2>1, <3>1
  <2> QED BY <2>2, <2>3
<1>14. Rebacked(a, s, b, T, f, fast, refs, N, g, fast', refs', N)
  <2>1. Backed(s, f, fast, refs, N)
    BY <1>1, <1>5
  <2>2. Len(a) <= MaxHeight
    BY <1>10, <1>11
  <2>3. \A k \in 1 .. Len(T) : T[k].value \in 1 .. N
    BY <1>13, <2>1 DEF Backed
  <2>4. \A o \in 1 .. N :
          /\ refs'[o] \in Int
          /\ refs'[o] >= UpTo(Mine(s, o), b) + UpTo(Mine(T, o), Len(T)) + InLocals(fast', o)
                           + Own(o)
    <3>1. \A o \in 1 .. N : refs[o] >= UpTo(Mine(s, o), Len(s)) + InLocals(fast, o) + Own(o)
      BY <2>1 DEF Backed
    <3> QED BY <1>1, <1>2, <1>12, <3>1
  <2> QED BY <1>1, <1>2, <1>10, <1>12, <2>1, <2>2, <2>3, <2>4 DEF Rebacked
<1>15. PICK u, row : u = h[vpc + 1].until /\ row = RowAt(code, h, vpc)
  OBVIOUS
<1>16. u \in Seq(Nat)
  BY <1>1, <1>15, AnalysedAt
<1>17. /\ row.undo = n /\ Len(row.marks) = n /\ row.marks[n] = Due(u, n, 1)
       /\ \A i \in 1 .. n - 1 : row.marks[i] = Due(u, n, 1 + i)
  <2>1. row = Assumes(unit.op, unit.arg, u, vpc)
    BY <1>15 DEF RowAt, unit
  <2> QED BY <1>2, <1>3, <1>4, <1>16, <2>1, RotationRow
<1>18. \A j \in 1 .. n : row.marks[j] \in Nat /\ Lasting(code, s[b + j], row.marks[j], vpc, fast)
  <2>1. Len(row.marks) <= Len(s) /\ Indexed(s) /\ Lasts(code, s, h[vpc].until, vpc, fast)
    BY <1>1, <1>4, <1>5, <1>17
  <2>2. \A j \in 1 .. Len(row.marks) :
           /\ row.marks[j] \in Nat
           /\ Lasting(code, s[Len(s) - Len(row.marks) + j], row.marks[j], vpc, fast)
    BY <1>1, <1>15, <2>1, MarkedLast
  <2>3. Len(s) - Len(row.marks) = b /\ Len(row.marks) = n
    BY <1>6, <1>17
  <2> QED BY <2>2, <2>3
<1>19. \A j \in 1 .. n : Lasting(code, T[j], Due(u, n, j), vpc + 1, fast)
  <2> SUFFICES ASSUME NEW j \in 1 .. n PROVE Lasting(code, T[j], Due(u, n, j), vpc + 1, fast)
    OBVIOUS
  <2>1. PICK t \in Nat : t = Due(u, n, j) /\ Lasting(code, T[j], t, vpc, fast)
    <3>1. CASE j = 1
      <4>1. n \in 1 .. n /\ b + n = Len(s)
        BY <1>4, <1>10
      <4>2. row.marks[n] \in Nat /\ Lasting(code, s[Len(s)], row.marks[n], vpc, fast)
        BY <1>18, <4>1
      <4> QED BY <1>10, <1>17, <3>1, <4>2
    <3>2. CASE j # 1
      <4>1. PICK i \in 1 .. n - 1 : j = 1 + i
        <5>1. j - 1 \in 1 .. n - 1 /\ j = 1 + (j - 1)
          BY <1>4, <3>2
        <5> QED BY <5>1
      <4>2. i \in 1 .. n
        BY <1>4, <4>1
      <4>3. row.marks[i] \in Nat /\ Lasting(code, s[b + i], row.marks[i], vpc, fast)
        BY <1>18, <4>2
      <4>4. T[j] = s[b + i]
        BY <1>10, <4>1 DEF Part
      <4> QED BY <1>17, <4>1, <4>3, <4>4
    <3> QED BY <3>1, <3>2
  <2>2. \A x \in Local : fast[x] = fast[x] \/ Stores(code, x, vpc) \/ T[j].local # x
    OBVIOUS
  <2>3. t <= t
    BY <2>1
  <2> QED BY <1>1, <2>1, <2>2, <2>3, LastingNext
<1>20. Moved(code, h, vpc, row, a, s, b, T, fast, fast')
  <2>1. Lasts(code, s, h[vpc].until, vpc, fast)
    BY <1>1, <1>5
  <2>2. Len(s) = b + Len(row.marks) /\ Len(T) = row.undo
    BY <1>10, <1>17
  <2>3. \A j \in 1 .. Len(T) : Lasting(code, T[j], Due(h[vpc + 1].until, Len(T), j), vpc + 1, fast')
    BY <1>2, <1>10, <1>15, <1>19
  <2> QED BY <1>1, <1>2, <1>10, <1>15, <2>1, <2>2, <2>3 DEF Moved
<1>21. unit.op # "LOAD_FAST"
  BY <1>2
<1> QED BY <1>2, <1>5, <1>12, <1>14, <1>20, <1>21, MovedArrives

-----------------------------------------------------------------------------
(* Duplications.                                                           *)

\* Where the k-th member of a set is: counting up to a member finds it again.
LEMMA NthIs ==
  ASSUME NEW S \in SUBSET Positive, NEW k \in S
  PROVE  Nth(S, UpTo(S, k)) = k
<1>1. \A i \in S : i \in Nat
  BY PositiveAre
<1>2. ASSUME NEW i \in S, NEW j \in S, i < j PROVE UpTo(S, i) # UpTo(S, j)
  <2>1. i \in Nat /\ j \in Nat /\ i <= j
    BY <1>1, <1>2
  <2>2. UpTo(S, i) < UpTo(S, j)
    BY <1>2, <2>1, UpToGrows
  <2>3. UpTo(S, i) \in Nat /\ UpTo(S, j) \in Nat
    BY <2>1, UpToType
  <2> QED BY <2>2, <2>3
<1>3. \A i \in S : UpTo(S, i) = UpTo(S, k) => i = k
  BY <1>1, <1>2
<1> QED BY <1>3 DEF Nth

LEMMA CopiesRow ==
  ASSUME NEW op \in {"DUP_TOP", "DUP_TOP_TWO"}, NEW arg, NEW n \in Nat,
         n = IF op = "DUP_TOP" THEN 1 ELSE 2, NEW u \in Seq(Nat), NEW v,
         NEW row, row = Assumes(op, arg, u, v)
  PROVE  /\ row.undo = n + n /\ Len(row.marks) = n
         /\ \A j \in 1 .. n :
              /\ Due(u, n + n, j) \in Nat /\ Due(u, n + n, n + j) \in Nat
              /\ Due(u, n + n, j) <= row.marks[j] /\ Due(u, n + n, n + j) <= row.marks[j]
<1>1. row = AssumesMove(op, arg, u, v)
  BY MoveRows DEF Moves
<1>2. PICK t : t = TopOf(u, n + n)
  OBVIOUS
<1>3. \A i \in 1 .. n + n : t[i] = Due(u, n + n, i) /\ t[i] \in Nat
  <2>1. t = [i \in 1 .. n + n |-> IF Len(u) - (n + n) + i >= 1 THEN u[Len(u) - (n + n) + i]
                                  ELSE Forever]
    BY <1>2 DEF TopOf
  <2>2. \A i \in 1 .. n + n : t[i] = Due(u, n + n, i)
    BY <2>1 DEF Due
  <2>3. n + n \in Nat
    OBVIOUS
  <2>4. \A i \in 1 .. n + n : Due(u, n + n, i) \in Nat
    BY <2>3, DueType
  <2> QED BY <2>2, <2>4
<1>4. \A i, j \in Nat : i <= later(i, j) /\ j <= later(i, j)
  BY DEF later
<1>5. CASE op = "DUP_TOP"
  <2>1. n = 1 /\ n + n = 2
    BY <1>5
  <2>2. row = Row(2, <<later(t[1], t[2])>>)
    <3>1. AssumesMove(op, arg, u, v) = LET w == TopOf(u, 2) IN Row(2, <<later(w[1], w[2])>>)
      BY <1>5 DEF AssumesMove
    <3> QED BY <1>1, <1>2, <2>1, <3>1
  <2>3. PICK m : m = later(t[1], t[2])
    OBVIOUS
  <2>4. row.undo = 2 /\ row.marks = <<m>>
    BY <2>2, <2>3 DEF Row
  <2>5. t[1] <= m /\ t[2] <= m /\ t[1] = Due(u, 2, 1) /\ t[2] = Due(u, 2, 2)
        /\ t[1] \in Nat /\ t[2] \in Nat
    <3>1. 1 \in 1 .. n + n /\ 2 \in 1 .. n + n
      BY <2>1
    <3>2. t[1] = Due(u, 2, 1) /\ t[2] = Due(u, 2, 2) /\ t[1] \in Nat /\ t[2] \in Nat
      BY <1>3, <2>1, <3>1
    <3> QED BY <1>4, <2>3, <3>2
  <2>6. Len(row.marks) = 1 /\ row.marks[1] = m
    BY <2>4
  <2>7. \A j \in 1 .. 1 : j = 1 /\ 1 + j = 2
    OBVIOUS
  <2> QED BY <2>1, <2>4, <2>5, <2>6, <2>7
<1>6. CASE op = "DUP_TOP_TWO"
  <2>1. n = 2 /\ n + n = 4
    BY <1>6
  <2>2. row = Row(4, <<later(t[1], t[3]), later(t[2], t[4])>>)
    <3>1. AssumesMove(op, arg, u, v)
            = LET w == TopOf(u, 4) IN Row(4, <<later(w[1], w[3]), later(w[2], w[4])>>)
      BY <1>6 DEF AssumesMove
    <3> QED BY <1>1, <1>2, <2>1, <3>1
  <2>3. PICK m1, m2 : m1 = later(t[1], t[3]) /\ m2 = later(t[2], t[4])
    OBVIOUS
  <2>4. row.undo = 4 /\ row.marks = <<m1, m2>>
    BY <2>2, <2>3 DEF Row
  <2>5. \A i \in 1 .. 4 : t[i] = Due(u, 4, i) /\ t[i] \in Nat
    BY <1>3, <2>1
  <2>6. t[1] <= m1 /\ t[3] <= m1 /\ t[2] <= m2 /\ t[4] <= m2
    BY <1>4, <2>3, <2>5
  <2>7. Len(row.marks) = 2 /\ row.marks[1] = m1 /\ row.marks[2] = m2
    BY <2>4
  <2>8. ASSUME NEW j \in 1 .. 2
        PROVE  /\ Due(u, 4, j) \in Nat /\ Due(u, 4, 2 + j) \in Nat
               /\ Due(u, 4, j) <= row.marks[j] /\ Due(u, 4, 2 + j) <= row.marks[j]
    <3>1. CASE j = 1
      <4>1. 2 + j = 3
        BY <3>1
      <4> QED BY <2>5, <2>6, <2>7, <3>1, <4>1
    <3>2. CASE j = 2
      <4>1. 2 + j = 4
        BY <3>2
      <4> QED BY <2>5, <2>6, <2>7, <3>2, <4>1
    <3> QED BY <3>1, <3>2
  <2> QED BY <2>1, <2>4, <2>7, <2>8
<1> QED BY <1>5, <1>6

\* A stack above another.
Above(a, s, t) == Indexed(s) /\ Indexed(t) /\ a = s \o t

LEMMA AboveIs ==
  ASSUME NEW s, NEW t, NEW a, Above(a, s, t)
  PROVE  /\ Indexed(a) /\ Len(a) = Len(s) + Len(t)
         /\ \A i \in 1 .. Len(s) : a[i] = s[i]
         /\ \A i \in 1 .. Len(t) : a[Len(s) + i] = t[i]
<1>0. Indexed(s) /\ Indexed(t) /\ a = s \o t
  BY DEF Above
<1> USE <1>0
<1>1. PICK L \in Nat : L = Len(s) /\ DOMAIN s = 1 .. L
  BY DEF Indexed
<1>2. PICK n \in Nat : n = Len(t) /\ DOMAIN t = 1 .. n
  BY DEF Indexed
<1>3. Len(a) = L + n /\ DOMAIN a = 1 .. L + n
  <2>1. Len(a) = L + n
    BY <1>1, <1>2
  <2>2. DOMAIN a = 1 .. L + n
    BY <1>1, <1>2
  <2> QED BY <2>1, <2>2
<1>4. \A i \in 1 .. L : a[i] = s[i]
  BY <1>1, <1>2
<1>5. \A i \in 1 .. n : a[L + i] = t[i]
  BY <1>1, <1>2
<1> QED BY <1>1, <1>2, <1>3, <1>4, <1>5 DEF Indexed

\* The copies t of the n top values are above s in a.
Copies(s, n, b, t, a, T) ==
  /\ Indexed(s) /\ n \in 1 .. Len(s) /\ b = Len(s) - n
  /\ t = TopN(s, n) /\ a = s \o t /\ T = t \o t

LEMMA CopiesAre ==
  ASSUME NEW s, NEW n, NEW b, NEW t, NEW a, NEW T, Copies(s, n, b, t, a, T)
  PROVE  /\ n \in Nat /\ b \in Nat /\ b + n = Len(s) /\ Len(s) \in Nat
         /\ Indexed(t) /\ Len(t) = n /\ \A i \in 1 .. n : t[i] = s[b + i]
         /\ Joined(a, s, Len(s), t) /\ Joined(a, s, b, T) /\ Len(T) = n + n
         /\ \A i \in 1 .. n : T[i] = s[b + i] /\ T[n + i] = s[b + i]
<1>1. PICK L \in Nat : L = Len(s) /\ DOMAIN s = 1 .. L /\ n \in 1 .. L
  BY DEF Copies, Indexed
<1>2. n \in Nat /\ b \in Nat /\ b + n = L /\ b = L - n
  BY <1>1 DEF Copies
<1>3. Indexed(t) /\ Len(t) = n /\ \A i \in 1 .. n : t[i] = s[b + i]
  <2>1. n \in 0 .. Len(s) /\ Indexed(s) /\ t = TopN(s, n)
    BY <1>1 DEF Copies
  <2>2. Indexed(t) /\ Len(t) = n /\ \A i \in 1 .. n : t[i] = s[Len(s) - n + i]
    BY ONLY <2>1, TopIs
  <2> QED BY <1>1, <1>2, <2>2
<1>4. DOMAIN t = 1 .. n
  BY <1>3 DEF Indexed
<1>5. /\ Len(a) = L + n /\ DOMAIN a = 1 .. L + n
      /\ \A i \in 1 .. L : a[i] = s[i]
      /\ \A i \in 1 .. n : a[L + i] = t[i]
  <2>1. a = s \o t
    BY DEF Copies
  <2>2. Len(a) = L + n /\ DOMAIN a = 1 .. L + n
    BY <1>1, <1>2, <1>3, <1>4, <2>1
  <2>3. \A i \in 1 .. L : a[i] = s[i]
    BY <1>1, <1>2, <1>3, <1>4, <2>1
  <2>4. \A i \in 1 .. n : a[L + i] = t[i]
    BY <1>1, <1>2, <1>3, <1>4, <2>1
  <2> QED BY <2>2, <2>3, <2>4
<1>7. /\ Len(T) = n + n /\ Indexed(T) /\ DOMAIN T = 1 .. n + n
      /\ \A i \in 1 .. n : T[i] = t[i] /\ T[n + i] = t[i]
  <2>1. Indexed(t) /\ T = t \o t
    BY <1>3 DEF Copies
  <2>2. /\ Indexed(T) /\ Len(T) = Len(t) + Len(t)
        /\ \A i \in 1 .. Len(t) : T[i] = t[i]
        /\ \A i \in 1 .. Len(t) : T[Len(t) + i] = t[i]
    <3>1. Above(T, t, t)
      BY <2>1 DEF Above
    <3> QED BY ONLY <3>1, AboveIs
  <2>3. Len(t) = n
    BY <1>3
  <2>4. Indexed(T) /\ Len(T) = n + n
    BY <2>2, <2>3
  <2>5. DOMAIN T = 1 .. n + n
    BY <2>4 DEF Indexed
  <2> QED BY <2>2, <2>3, <2>4, <2>5
<1>8. Indexed(a) /\ Indexed(T) /\ Indexed(s)
  BY <1>1, <1>2, <1>5, <1>7 DEF Indexed, Copies
<1>9. Joined(a, s, L, t)
  <2>1. L \in 0 .. Len(s) /\ Len(a) = L + Len(t)
    BY <1>1, <1>3, <1>5
  <2> QED BY <1>3, <1>5, <1>8, <2>1 DEF Joined
<1>10. Joined(a, s, b, T)
  <2>1. b \in 0 .. Len(s) /\ Len(a) = b + Len(T)
    BY <1>1, <1>2, <1>5, <1>7
  <2>2. \A i \in 1 .. b : a[i] = s[i]
    BY <1>2, <1>5
  <2>3. ASSUME NEW i \in 1 .. n + n PROVE a[b + i] = T[i]
    <3>1. CASE i <= n
      <4>1. b + i \in 1 .. L /\ i \in 1 .. n
        BY <1>2, <3>1
      <4> QED BY <1>3, <1>5, <1>7, <4>1
    <3>2. CASE i > n
      <4>1. PICK j \in 1 .. n : i = n + j
        <5>1. i - n \in 1 .. n /\ i = n + (i - n)
          BY <1>2, <3>2
        <5> QED BY <5>1
      <4>2. b + i = L + j
        BY <1>1, <1>2, <4>1
      <4> QED BY <1>5, <1>7, <4>1, <4>2
    <3> QED BY <1>2, <3>1, <3>2
  <2> QED BY <1>7, <1>8, <2>1, <2>2, <2>3 DEF Joined
<1> QED BY <1>1, <1>2, <1>3, <1>7, <1>9, <1>10

LEMMA DuplicateStep ==
  ASSUME Compiled(code), initial_stack_height \in 0 .. MaxHeight,
         NEW h, NEW N, BetweenUnits(h, N), Duplicate
  PROVE  IInv'
<1>1. /\ Size(code) \in Nat /\ vpc \in 0 .. Size(code) - 1 /\ vpc \in Nat
      /\ Analysed(code, h, 0) /\ Indexed(abstract_stack) /\ Len(abstract_stack) \in Nat
      /\ Backed(abstract_stack, slot, fast, refs, N)
      /\ Lasts(code, abstract_stack, h[vpc].until, vpc, fast)
      /\ Len(abstract_stack) + h[vpc].effect = Total
      /\ N \in Nat /\ N >= 1
      /\ DOMAIN refs = 1 .. N /\ DOMAIN fast = Local /\ \A x \in Local : fast[x] \in 0 .. N
      /\ \A o \in 1 .. N : refs[o] \in Int
      /\ stack_height = UpTo(Owned(abstract_stack), Len(abstract_stack)) /\ stack_height \in Nat
  BY AtUnit
<1>2. /\ unit.op \in {"DUP_TOP", "DUP_TOP_TWO"} /\ NextUnit
      /\ UNCHANGED <<Kept, operands, taken>> /\ fast' = fast
  BY DEF Duplicate, Emitting
<1>3. PICK n \in Nat : n = (IF unit.op = "DUP_TOP" THEN 1 ELSE 2) /\ n >= 1
  OBVIOUS
<1>4. n \in 1 .. Len(abstract_stack)
  <2>1. Len(abstract_stack) >= n
    BY <1>3 DEF Duplicate
  <2> QED BY <1>1, <1>3, <2>1
<1>5. PICK s, a, f, g : s = abstract_stack /\ a = abstract_stack' /\ f = slot /\ g = slot'
  OBVIOUS
<1>6. PICK b, t, T : b = Len(s) - n /\ t = TopN(s, n) /\ T = t \o t
  OBVIOUS
<1>7. PICK H \in Nat : H = stack_height /\ H = UpTo(Owned(s), Len(s))
  BY <1>1, <1>5
<1>8. PICK top : top = H + Cardinality(Owned(t))
  OBVIOUS
<1>9. /\ a = s \o t /\ stack_height' = top
      /\ g = [i \in DOMAIN f |-> IF i \in H + 1 .. top THEN t[Nth(Owned(t), i - H)].value
                                 ELSE f[i]]
      /\ refs' = [o \in DOMAIN refs |-> refs[o] + Count(t, Owned(t), o)]
  BY <1>3, <1>5, <1>6, <1>7, <1>8 DEF Duplicate
<1>10. Copies(s, n, b, t, a, T)
  BY <1>1, <1>4, <1>5, <1>6, <1>9 DEF Copies
<1>11. /\ b \in Nat /\ b + n = Len(s) /\ Len(s) \in Nat
       /\ Indexed(t) /\ Len(t) = n /\ \A i \in 1 .. n : t[i] = s[b + i]
       /\ Joined(a, s, Len(s), t) /\ Joined(a, s, b, T)
       /\ Len(T) = n + n
       /\ \A i \in 1 .. n : T[i] = s[b + i] /\ T[n + i] = s[b + i]
  BY ONLY <1>10, CopiesAre, SMTT(30)
<1>12. /\ Owned(t) \in SUBSET (1 .. n) /\ Owned(t) \in SUBSET Positive
       /\ \A o : Mine(t, o) \in SUBSET (1 .. n) /\ UpTo(Mine(t, o), n) \in Nat
       /\ UpTo(Owned(t), n) \in Nat
  BY <1>3, <1>11, OwnedIs
<1>13. top = H + UpTo(Owned(t), n)
  <2>1. UpTo(Owned(t), n) = Cardinality(Owned(t))
    BY <1>3, <1>12, UpToAll
  <2> QED BY <1>8, <2>1
<1>14. \A o \in 1 .. N : refs'[o] = refs[o] + UpTo(Mine(t, o), n)
  <2> SUFFICES ASSUME NEW o \in 1 .. N PROVE refs'[o] = refs[o] + UpTo(Mine(t, o), n)
    OBVIOUS
  <2>1. Count(t, Owned(t), o) = Cardinality(Mine(t, o))
    BY DEF Count, Mine
  <2>2. UpTo(Mine(t, o), n) = Cardinality(Mine(t, o))
    BY <1>3, <1>12, UpToAll
  <2> QED BY <1>1, <1>9, <2>1, <2>2
<1>15. DOMAIN f = 1 .. MaxHeight /\ Backed(s, f, fast, refs, N)
  BY <1>1, <1>5 DEF Backed
<1>16. Len(a) <= MaxHeight /\ Len(a) = Len(s) + n
  BY <1>2, <1>5, <1>11 DEF NextUnit, Joined
<1>17. ASSUME NEW k \in Owned(t)
       PROVE  g[H + UpTo(Owned(t), k)] = t[k].value
  <2>1. PICK c \in Nat : c = UpTo(Owned(t), k) /\ c \in 1 .. UpTo(Owned(t), n)
    <3>1. k \in 1 .. n
      BY <1>12
    <3>2. UpTo(Owned(t), k) \in Nat /\ UpTo(Owned(t), k) \in 1 .. UpTo(Owned(t), n)
      BY <1>3, <1>11, <3>1, PlaceIs
    <3> QED BY <3>2
  <2>2. H + c \in H + 1 .. top /\ H + c - H = c
    BY <1>7, <1>12, <1>13, <2>1
  <2>3. H + c \in 1 .. MaxHeight
    <3>1. UpTo(Owned(t), n) <= n
      <4>1. n \in 0 .. Len(t)
        BY <1>3, <1>11
      <4>2. UpTo(Owned(t), n) \in 0 .. n
        BY <1>11, <4>1, HeightIs
      <4> QED BY <4>2
    <3>2. H <= Len(s)
      <4>1. Len(s) \in 0 .. Len(s) /\ Indexed(s)
        BY <1>1, <1>5, <1>11
      <4>2. UpTo(Owned(s), Len(s)) \in 0 .. Len(s)
        BY <4>1, HeightIs
      <4> QED BY <1>7, <4>2
    <3>3. c >= 1 /\ c <= n /\ c \in Nat
      BY <1>3, <1>12, <2>1, <3>1
    <3>4. Len(s) + n <= MaxHeight /\ MaxHeight \in Nat
      BY <1>16, NumbersAssumption
    <3> QED BY <1>3, <1>7, <1>11, <3>2, <3>3, <3>4
  <2>4. g[H + c] = t[Nth(Owned(t), c)].value
    BY <1>9, <1>15, <2>2, <2>3
  <2>5. Nth(Owned(t), c) = k
    BY <1>12, <2>1, NthIs
  <2> QED BY <2>1, <2>4, <2>5
<1>18. Backed(a, g, fast', refs', N)
  <2>1. DOMAIN g = 1 .. MaxHeight /\ \A i \in 1 .. UpTo(Owned(s), Len(s)) : g[i] = f[i]
    <3>1. DOMAIN g = 1 .. MaxHeight
      BY <1>9, <1>15
    <3>2. Len(s) \in 0 .. Len(s) /\ Indexed(s) /\ Len(s) <= MaxHeight
      BY <1>1, <1>5, <1>11, <1>15 DEF Backed
    <3>3. H \in 0 .. Len(s)
      BY <1>7, <3>2, HeightIs
    <3>4. ASSUME NEW i \in 1 .. H PROVE g[i] = f[i]
      <4>1. i \in 1 .. MaxHeight /\ ~(i \in H + 1 .. top)
        <5>1. i \in Int /\ i >= 1 /\ i <= H /\ H <= Len(s) /\ Len(s) <= MaxHeight
              /\ MaxHeight \in Nat /\ Len(s) \in Nat
          BY <1>7, <1>11, <3>2, <3>3, NumbersAssumption
        <5> QED BY <1>7, <5>1
      <4> QED BY <1>9, <1>15, <4>1
    <3> QED BY <1>7, <3>1, <3>4
  <2>2. \A k \in Owned(t) : g[UpTo(Owned(s), Len(s)) + UpTo(Owned(t), k)] = t[k].value
    BY <1>7, <1>17
  <2>3. DOMAIN refs' = 1 .. N
    BY <1>1, <1>9
  <2>4. \A k \in 1 .. Len(t) : t[k].value \in 1 .. N
    <3>1. \A i \in 1 .. Len(s) : s[i].value \in 1 .. N
      BY <1>15 DEF Backed
    <3>2. \A i \in 1 .. n : b + i \in 1 .. Len(s)
      BY <1>3, <1>11
    <3> QED BY <1>11, <3>1, <3>2
  <2>5. ASSUME NEW o \in 1 .. N
        PROVE  /\ refs'[o] \in Int
               /\ refs'[o] >= UpTo(Mine(s, o), Len(s)) + UpTo(Mine(t, o), Len(t))
                                + InLocals(fast', o) + Own(o)
    <3>1. refs[o] \in Int /\ refs[o] >= UpTo(Mine(s, o), Len(s)) + InLocals(fast, o) + Own(o)
      BY <1>15 DEF Backed
    <3>2. UpTo(Mine(t, o), n) \in Nat
      BY <1>12
    <3>3. UpTo(Mine(s, o), Len(s)) \in Nat /\ InLocals(fast, o) \in Nat /\ Own(o) \in Nat
      BY <1>1, <1>5, OwnedIs, InLocalsType DEF Own
    <3>4. refs'[o] = refs[o] + UpTo(Mine(t, o), n) /\ Len(t) = n /\ fast' = fast
      BY <1>2, <1>11, <1>14
    <3> QED BY <3>1, <3>2, <3>3, <3>4
  <2>6. N <= N /\ N \in Nat
    BY <1>1
  <2>7. Rebacked(a, s, Len(s), t, f, fast, refs, N, g, fast', refs', N)
    BY <1>1, <1>2, <1>11, <1>15, <1>16, <2>1, <2>2, <2>3, <2>4, <2>5, <2>6 DEF Rebacked
  <2> QED BY <2>7, BackedJoined
<1>19. PICK u, row : u = h[vpc + 1].until /\ row = RowAt(code, h, vpc)
  OBVIOUS
<1>20. u \in Seq(Nat)
  BY <1>1, <1>19, AnalysedAt
<1>21. /\ row.undo = n + n /\ Len(row.marks) = n
       /\ \A j \in 1 .. n :
            /\ Due(u, n + n, j) \in Nat /\ Due(u, n + n, n + j) \in Nat
            /\ Due(u, n + n, j) <= row.marks[j] /\ Due(u, n + n, n + j) <= row.marks[j]
  <2>1. row = Assumes(unit.op, unit.arg, u, vpc)
    BY <1>19 DEF RowAt, unit
  <2> QED BY <1>2, <1>3, <1>20, <2>1, CopiesRow, SMTT(30)
<1>22. \A j \in 1 .. n : row.marks[j] \in Nat /\ Lasting(code, s[b + j], row.marks[j], vpc, fast)
  <2>1. Len(row.marks) <= Len(s) /\ Indexed(s) /\ Lasts(code, s, h[vpc].until, vpc, fast)
    BY <1>1, <1>4, <1>5, <1>21
  <2>2. \A j \in 1 .. Len(row.marks) :
           /\ row.marks[j] \in Nat
           /\ Lasting(code, s[Len(s) - Len(row.marks) + j], row.marks[j], vpc, fast)
    BY <1>1, <1>19, <2>1, MarkedLast
  <2>3. Len(s) - Len(row.marks) = b /\ Len(row.marks) = n
    BY <1>6, <1>21
  <2> QED BY <2>2, <2>3
<1>23. ASSUME NEW j \in 1 .. n, NEW d \in Nat, d <= row.marks[j]
       PROVE  Lasting(code, s[b + j], d, vpc + 1, fast)
  <2>1. PICK m \in Nat : m = row.marks[j] /\ Lasting(code, s[b + j], m, vpc, fast)
    BY <1>22
  <2>2. \A x \in Local : fast[x] = fast[x] \/ Stores(code, x, vpc) \/ s[b + j].local # x
    OBVIOUS
  <2>3. d <= m
    BY <1>23, <2>1
  <2> QED BY <1>1, <2>1, <2>2, <2>3, LastingNext
<1>24. ASSUME NEW i \in 1 .. n + n
       PROVE  Lasting(code, T[i], Due(u, n + n, i), vpc + 1, fast)
  <2>1. CASE i <= n
    <3>1. i \in 1 .. n
      BY <1>3, <2>1
    <3> QED BY <1>11, <1>21, <1>23, <3>1
  <2>2. CASE i > n
    <3>1. PICK j \in 1 .. n : i = n + j
      <4>1. i - n \in 1 .. n /\ i = n + (i - n)
        BY <1>3, <2>2
      <4> QED BY <4>1
    <3> QED BY <1>11, <1>21, <1>23, <3>1
  <2> QED BY <1>3, <2>1, <2>2
<1>25. Moved(code, h, vpc, row, a, s, b, T, fast, fast')
  <2>1. Lasts(code, s, h[vpc].until, vpc, fast)
    BY <1>1, <1>5
  <2>2. Len(s) = b + Len(row.marks) /\ Len(T) = row.undo
    BY <1>11, <1>21
  <2>3. \A j \in 1 .. Len(T) : Lasting(code, T[j], Due(h[vpc + 1].until, Len(T), j), vpc + 1, fast')
    BY <1>2, <1>11, <1>19, <1>24
  <2> QED BY <1>1, <1>2, <1>11, <1>19, <2>1, <2>2, <2>3 DEF Moved
<1>26. /\ Lasts(code, a, h[vpc + 1].until, vpc + 1, fast')
       /\ Len(a) + h[vpc + 1].effect = Len(s) + h[vpc].effect
  BY <1>25, LastsMoved
<1>27. Before(code, h, abstract_stack', vpc + 1, slot', fast', refs', N, Total)
  BY <1>1, <1>5, <1>18, <1>26 DEF Before
<1>28. stack_height' = UpTo(Owned(abstract_stack'), Len(abstract_stack'))
  <2>1. n \in 0 .. Len(t) /\ Len(a) = Len(s) + n
    BY <1>3, <1>11, <1>16
  <2>2. UpTo(Owned(a), Len(s) + n) = UpTo(Owned(s), Len(s)) + UpTo(Owned(t), n)
    <3>1. Joined(a, s, Len(s), t)
      BY <1>11
    <3>2. \A k \in 0 .. Len(t) :
            UpTo(Owned(a), Len(s) + k) = UpTo(Owned(s), Len(s)) + UpTo(Owned(t), k)
      BY ONLY <3>1, JoinedCounts
    <3> QED BY <2>1, <3>2
  <2> QED BY <1>5, <1>7, <1>9, <1>13, <2>1, <2>2
<1>29. ~(vpc + 1 < Size(code) /\ code[vpc + 1].op = "UNPACK_SEQUENCE")
  BY <1>2, UnpackAfter
<1> QED BY <1>2, <1>27, <1>28, <1>29, Arrives

-----------------------------------------------------------------------------
(* The backward pass.                                                      *)

LEMMA WithoutType ==
  ASSUME NEW u \in Seq(Nat), NEW n \in Nat
  PROVE  Without(u, n) \in Seq(Nat)
<1>1. CASE n >= Len(u)
  BY <1>1 DEF Without
<1>2. CASE ~(n >= Len(u))
  <2>1. Without(u, n) = SubSeq(u, 1, Len(u) - n)
    BY <1>2 DEF Without
  <2>2. \A i \in 1 .. Len(u) - n : u[i] \in Nat
    BY <1>2
  <2> QED BY <1>2, <2>1, <2>2
<1> QED BY <1>1, <1>2

LEMMA MoveRowsTyped ==
  ASSUME NEW op \in Moves, NEW arg \in Nat, op = "ROT_N" => arg > 0,
         NEW u \in Seq(Nat), NEW v \in Nat, NEW row, row = Assumes(op, arg, u, v)
  PROVE  row.undo \in Nat /\ row.marks \in Seq(Nat)
<1>1. row = AssumesMove(op, arg, u, v)
  BY MoveRows
<1>2. CASE op \in {"LOAD_CONST", "LOAD_FAST", "STORE_FAST", "DELETE_FAST"}
  <2>0. <<>> \in Seq(Nat) /\ <<v>> \in Seq(Nat)
    OBVIOUS
  <2>1. PICK m \in Seq(Nat), k \in Seq(Nat) : m = <<>> /\ k = <<v>>
    BY <2>0
  <2>2. row = Row(1, m) \/ row = Row(0, k) \/ row = Row(0, m)
    BY <1>1, <1>2, <2>1 DEF AssumesMove
  <2>3. row.undo \in {0, 1} /\ row.marks \in {m, k}
    BY ONLY <2>2 DEF Row
  <2>4. row.undo \in Nat
    BY <2>3
  <2>5. row.marks \in Seq(Nat)
    BY <2>1, <2>3
  <2> QED BY <2>4, <2>5
<1>3. CASE op \in {"ROT_TWO", "ROT_THREE", "ROT_FOUR", "ROT_N"}
  <2>1. PICK n \in Nat : n = RotArg(op, arg) /\ n >= 1
    BY <1>3 DEF RotArg
  <2>2. PICK t : t = TopOf(u, n)
    OBVIOUS
  <2>3. PICK m : m = SubSeq(t, 2, n) \o <<t[1]>>
    OBVIOUS
  <2>4. row = Row(n, m)
    <3>1. AssumesMove(op, arg, u, v)
            = LET k == RotArg(op, arg)  w == TopOf(u, k) IN Row(k, SubSeq(w, 2, k) \o <<w[1]>>)
      BY <1>3 DEF AssumesMove
    <3> QED BY <1>1, <2>1, <2>2, <2>3, <3>1
  <2>5. row.undo = n /\ row.marks = m
    BY ONLY <2>4 DEF Row
  <2>6. Len(t) = n /\ DOMAIN t = 1 .. n /\ \A i \in 1 .. n : t[i] \in Nat
    <3>1. t = [i \in 1 .. n |-> IF Len(u) - n + i >= 1 THEN u[Len(u) - n + i] ELSE Forever]
      BY <2>2 DEF TopOf
    <3>2. \A i \in 1 .. n : t[i] = Due(u, n, i)
      BY <3>1 DEF Due
    <3>3. \A i \in 1 .. n : Due(u, n, i) \in Nat
      BY <2>1, DueType
    <3>4. Len(t) = n /\ DOMAIN t = 1 .. n
      BY <2>1, <3>1
    <3> QED BY <3>2, <3>3, <3>4
  <2>7. t \in Seq(Nat)
    <3>1. t = [i \in 1 .. n |-> t[i]]
      <4>1. t = [i \in 1 .. n |-> IF Len(u) - n + i >= 1 THEN u[Len(u) - n + i] ELSE Forever]
        BY <2>2 DEF TopOf
      <4> QED BY <4>1
    <3>2. t \in [1 .. n -> Nat]
      BY <2>6, <3>1
    <3> QED BY <2>1, <3>2
  <2>8. SubSeq(t, 2, n) \in Seq(Nat)
    BY <2>1, <2>6, <2>7
  <2>9. t[1] \in Nat
    BY <2>1, <2>6
  <2>10. <<t[1]>> \in Seq(Nat)
    BY <2>9
  <2>11. m \in Seq(Nat)
    BY <2>3, <2>8, <2>10
  <2> QED BY <2>1, <2>5, <2>11
<1>4. CASE op \in {"DUP_TOP", "DUP_TOP_TWO"}
  <2>2. \A n \in Nat : \A i \in 1 .. n : TopOf(u, n)[i] \in Nat
    <3>1. \A n \in Nat : \A i \in 1 .. n : TopOf(u, n)[i] = Due(u, n, i)
      BY DEF TopOf, Due
    <3>2. \A n \in Nat : \A i \in 1 .. n : Due(u, n, i) \in Nat
      BY DueType
    <3> QED BY <3>1, <3>2
  <2>3. \A i, j \in Nat : later(i, j) \in Nat
    BY DEF later
  <2>4. CASE op = "DUP_TOP"
    <3>1. PICK w : w = TopOf(u, 2)
      OBVIOUS
    <3>2. w[1] \in Nat /\ w[2] \in Nat
      BY <2>2, <3>1
    <3>3. PICK m \in Nat : m = later(w[1], w[2])
      BY <2>3, <3>2
    <3>4. row = Row(2, <<m>>)
      <4>1. AssumesMove(op, arg, u, v) = LET x == TopOf(u, 2) IN Row(2, <<later(x[1], x[2])>>)
        BY <2>4 DEF AssumesMove
      <4> QED BY <1>1, <3>1, <3>3, <4>1
    <3>5. row.undo = 2 /\ row.marks = <<m>>
      BY ONLY <3>4 DEF Row
    <3> QED BY <3>3, <3>5
  <2>5. CASE op = "DUP_TOP_TWO"
    <3>1. PICK w : w = TopOf(u, 4)
      OBVIOUS
    <3>2. w[1] \in Nat /\ w[2] \in Nat /\ w[3] \in Nat /\ w[4] \in Nat
      BY <2>2, <3>1
    <3>3. PICK m \in Nat, k \in Nat : m = later(w[1], w[3]) /\ k = later(w[2], w[4])
      BY <2>3, <3>2
    <3>4. row = Row(4, <<m, k>>)
      <4>1. AssumesMove(op, arg, u, v)
              = LET x == TopOf(u, 4) IN Row(4, <<later(x[1], x[3]), later(x[2], x[4])>>)
        BY <2>5 DEF AssumesMove
      <4> QED BY <1>1, <3>1, <3>3, <4>1
    <3>5. row.undo = 4 /\ row.marks = <<m, k>>
      BY ONLY <3>4 DEF Row
    <3> QED BY <3>3, <3>5
  <2> QED BY <1>4, <2>4, <2>5
<1> QED BY <1>2, <1>3, <1>4 DEF Moves

\* Every row is of times and of a number of values.
LEMMA RowsTyped ==
  ASSUME NEW op \in Supported, NEW arg \in Nat, op = "ROT_N" => arg > 0,
         NEW u \in Seq(Nat), NEW v \in Nat, NEW row, row = Assumes(op, arg, u, v)
  PROVE  row.undo \in Nat /\ row.marks \in Seq(Nat)
<1>1. CASE op \in Moves
  BY <1>1, MoveRowsTyped
<1>2. CASE op = "RERAISE"
  <2>1. op \in HandlerOps
    BY <1>2 DEF HandlerOps
  <2>2. Families[8] = HandlerOps
    BY DEF Families
  <2>3. \A i \in 1 .. 9 : i # 8 => op \notin Families[i]
    BY <2>1, <2>2, OneFamily
  <2>4. Assumes(op, arg, u, v) = AssumesHandler(op, v)
    <3>1. \A i \in 1 .. 7 : op \notin Families[i]
      BY <2>3
    <3>2. /\ op \notin MoveOps /\ op \notin NameOps /\ op \notin OperatorOps /\ op \notin CallOps
          /\ op \notin JumpOps /\ op \notin BuildOps /\ op \notin PatternOps
      BY <1>2 DEF MoveOps, NameOps, OperatorOps, UnaryOps, BinaryOps, CallOps, JumpOps, PopJumps,
         OrPopJumps, BuildOps, Building, AddingTo, PatternOps
    <3>3. op \notin GeneratorOps
      BY <1>2 DEF GeneratorOps
    <3> QED BY <2>1, <3>2, <3>3 DEF Assumes
  <2>5. row.undo = 2 /\ row.marks = <<Forever>>
    BY <1>2, <2>4 DEF AssumesHandler, Row
  <2> QED BY <2>5, NumbersAssumption
<1>3. CASE op \notin Moves /\ op # "RERAISE"
  <2>1. Match(op, row, Emits(op, arg), v)
    BY <1>3, TablesMatch
  <2> QED BY <2>1 DEF Match, Marks
<1> QED BY <1>1, <1>2, <1>3

\* A stack that owns all there is on it.
LEMMA AllPushed ==
  ASSUME NEW s, Indexed(s), \A i \in 1 .. Len(s) : s[i].really_pushed
  PROVE  UpTo(Owned(s), Len(s)) = Len(s)
<1>1. Len(s) \in Nat /\ Owned(s) = 1 .. Len(s)
  BY DEF Owned, Indexed
<1>2. Owned(s) \in SUBSET (1 .. Len(s)) /\ UpTo(Owned(s), Len(s)) = Cardinality(Owned(s))
  BY <1>1, UpToAll
<1>3. PICK d \in Nat : d = Len(s)
  BY <1>1
<1>4. Cardinality(1 .. d) = d
  BY FS_Interval
<1> QED BY <1>1, <1>2, <1>3, <1>4

\* One unit more: k is h with what the pass knows after the unit v.
Extended(k, h, c, v) ==
  /\ DOMAIN k = v .. Size(c) /\ \A w \in v + 1 .. Size(c) : k[w] = h[w]
  /\ LET row == RowAt(c, h, v)
     IN  /\ k[v].until = Without(h[v + 1].until, row.undo) \o row.marks
         /\ k[v].effect = h[v + 1].effect + row.undo - Len(row.marks)

LEMMA AnalysedExtended ==
  ASSUME NEW c, Compiled(c), NEW v \in 0 .. Size(c) - 1, NEW h, Analysed(c, h, v + 1),
         NEW k, Extended(k, h, c, v)
  PROVE  Analysed(c, k, v)
<1>1. /\ Size(c) \in Nat /\ c[v].op \in Supported /\ c[v].arg \in Nat
      /\ c[v].op = "ROT_N" => c[v].arg > 0
  BY SizeIs
<1>2. PICK n \in Nat : n = Size(c) /\ v \in Nat /\ v < n /\ v + 1 \in v + 1 .. n /\ v \in v .. n
  BY <1>1
<1>3. PICK row : row = RowAt(c, h, v)
  OBVIOUS
<1>4. h[v + 1].until \in Seq(Nat) /\ h[v + 1].effect \in Int
  BY <1>2 DEF Analysed
<1>5. row.undo \in Nat /\ row.marks \in Seq(Nat)
  BY <1>1, <1>2, <1>3, <1>4, RowsTyped DEF RowAt
<1>6. /\ \A w \in v + 1 .. n : k[w] = h[w]
      /\ k[v].until = Without(h[v + 1].until, row.undo) \o row.marks
      /\ k[v].effect = h[v + 1].effect + row.undo - Len(row.marks)
  BY <1>2, <1>3 DEF Extended
<1>7. k[v].until \in Seq(Nat) /\ k[v].effect \in Int
  <2>1. Without(h[v + 1].until, row.undo) \in Seq(Nat)
    BY <1>4, <1>5, WithoutType
  <2>2. Len(row.marks) \in Nat
    BY <1>5
  <2> QED BY <1>4, <1>5, <1>6, <2>1, <2>2
<1>8. k[n].until = <<>> /\ k[n].effect = 0
  BY <1>2, <1>6 DEF Analysed
<1>9. \A w \in v .. n : k[w].until \in Seq(Nat) /\ k[w].effect \in Int
  <2>1. \A w \in v .. n : w = v \/ w \in v + 1 .. n
    BY <1>2
  <2>2. \A w \in v + 1 .. n : h[w].until \in Seq(Nat) /\ h[w].effect \in Int
    BY <1>2 DEF Analysed
  <2> QED BY <1>6, <1>7, <2>1, <2>2
<1>10. ASSUME NEW w \in v .. n - 1
       PROVE  LET r == RowAt(c, k, w)
              IN  /\ r.undo \in Nat /\ r.marks \in Seq(Nat)
                  /\ k[w].until = Without(k[w + 1].until, r.undo) \o r.marks
                  /\ k[w].effect = k[w + 1].effect + r.undo - Len(r.marks)
  <2>1. w + 1 \in v + 1 .. n
    BY <1>2
  <2>2. k[w + 1] = h[w + 1]
    BY <1>6, <2>1
  <2>3. RowAt(c, k, w) = RowAt(c, h, w)
    BY <2>2 DEF RowAt
  <2>4. CASE w = v
    BY <1>3, <1>5, <1>6, <2>2, <2>3, <2>4
  <2>5. CASE w # v
    <3>1. w \in v + 1 .. n - 1 /\ w \in v + 1 .. n
      BY <1>2, <2>5
    <3>2. k[w] = h[w]
      BY <1>6, <3>1
    <3>3. LET r == RowAt(c, h, w)
          IN  /\ r.undo \in Nat /\ r.marks \in Seq(Nat)
              /\ h[w].until = Without(h[w + 1].until, r.undo) \o r.marks
              /\ h[w].effect = h[w + 1].effect + r.undo - Len(r.marks)
      BY <1>2, <3>1 DEF Analysed
    <3> QED BY <2>2, <2>3, <3>2, <3>3
  <2> QED BY <2>4, <2>5
<1> QED BY <1>2, <1>8, <1>9, <1>10 DEF Analysed

LEMMA StoresExtended ==
  ASSUME NEW c, Compiled(c), NEW v \in 0 .. Size(c) - 1, NEW next, DOMAIN next = Local,
         StoresKnown(c, next, v + 1),
         NEW m, m = IF c[v].op = "STORE_FAST" THEN [next EXCEPT ![c[v].arg] = v] ELSE next
  PROVE  StoresKnown(c, m, v) /\ DOMAIN m = Local
<1>1. PICK n \in Nat : n = Size(c) /\ v \in Nat /\ v < n
  BY SizeIs
<1>2. ASSUME NEW x \in Local
      PROVE  /\ m[x] \in v .. n /\ (m[x] < n => Stores(c, x, m[x]))
             /\ \A w \in v .. n - 1 : Stores(c, x, w) => m[x] <= w
  <2>1. /\ next[x] \in v + 1 .. n /\ (next[x] < n => Stores(c, x, next[x]))
        /\ \A w \in v + 1 .. n - 1 : Stores(c, x, w) => next[x] <= w
    BY <1>1 DEF StoresKnown
  <2>2. \A w \in v .. n - 1 : w = v \/ w \in v + 1 .. n - 1
    BY <1>1
  <2>3. CASE Stores(c, x, v)
    <3>1. m[x] = v
      BY <2>3 DEF Stores
    <3>2. \A w \in v .. n - 1 : v <= w
      BY <1>1
    <3> QED BY <1>1, <2>3, <3>1, <3>2
  <2>4. CASE ~Stores(c, x, v)
    <3>1. m[x] = next[x]
      BY <2>4 DEF Stores
    <3>2. next[x] \in v .. n
      BY <1>1, <2>1
    <3> QED BY <2>1, <2>2, <2>4, <3>1, <3>2
  <2> QED BY <2>3, <2>4
<1>3. DOMAIN m = Local
  OBVIOUS
<1> QED BY <1>1, <1>2, <1>3 DEF StoresKnown

LEMMA LoadsExtended ==
  ASSUME NEW c, Compiled(c), NEW v \in 0 .. Size(c) - 1, NEW h, Analysed(c, h, v + 1),
         NEW k, Extended(k, h, c, v), NEW loads, LoadsKnown(c, h, loads, v + 1),
         NEW next, StoresKnown(c, next, v + 1), NEW t, t = Due(h[v + 1].until, 1, 1), NEW more,
         more = IF \/ c[v].op = "LOAD_CONST" /\ Size(c) > t
                   \/ c[v].op = "LOAD_FAST" /\ next[c[v].arg] > t
                  THEN loads \cup {v} ELSE loads
  PROVE  LoadsKnown(c, k, more, v)
<1>1. PICK n \in Nat : n = Size(c) /\ v \in Nat /\ v < n /\ v + 1 \in v + 1 .. n /\ n < Forever
  BY SizeIs
<1>2. t \in Nat
  <2>1. h[v + 1].until \in Seq(Nat)
    BY <1>1 DEF Analysed
  <2>2. 1 \in Nat /\ 1 \in 1 .. 1
    OBVIOUS
  <2> QED BY <2>1, <2>2, DueType
<1>3. \A w \in v .. n - 1 : k[w + 1] = h[w + 1]
  <2>1. \A w \in v .. n - 1 : w + 1 \in v + 1 .. n
    BY <1>1
  <2> QED BY <1>1, <2>1 DEF Extended
<1>4. ASSUME NEW w \in more
      PROVE  LET d == Due(k[w + 1].until, 1, 1)
             IN  /\ w \in v .. n - 1 /\ d < n
                 /\ \/ c[w].op = "LOAD_CONST"
                    \/ c[w].op = "LOAD_FAST" /\ \A i \in w + 1 .. d : ~Stores(c, c[w].arg, i)
  <2>1. CASE w \in loads
    <3>1. LET d == Due(h[w + 1].until, 1, 1)
          IN  /\ w \in v + 1 .. n - 1 /\ d < n
              /\ \/ c[w].op = "LOAD_CONST"
                 \/ c[w].op = "LOAD_FAST" /\ \A i \in w + 1 .. d : ~Stores(c, c[w].arg, i)
      BY <1>1, <2>1 DEF LoadsKnown
    <3>2. w \in v .. n - 1
      BY <1>1, <3>1
    <3>3. k[w + 1] = h[w + 1]
      BY <1>3, <3>2
    <3> QED BY <3>1, <3>2, <3>3
  <2>2. CASE w \notin loads
    <3>1. w = v /\ (\/ c[v].op = "LOAD_CONST" /\ n > t
                    \/ c[v].op = "LOAD_FAST" /\ next[c[v].arg] > t)
      BY <1>1, <2>2
    <3>2. v \in v .. n - 1
      BY <1>1
    <3>3. Due(k[v + 1].until, 1, 1) = t
      BY <1>3, <3>2
    <3>4. CASE c[v].op = "LOAD_CONST"
      BY <1>1, <1>2, <3>1, <3>2, <3>3, <3>4
    <3>5. CASE c[v].op = "LOAD_FAST"
      <4>1. PICK x \in Local : x = c[v].arg
        BY <1>1, <3>5, SizeIs
      <4>2. /\ next[x] \in v + 1 .. n /\ next[x] > t
            /\ \A i \in v + 1 .. n - 1 : Stores(c, x, i) => next[x] <= i
        BY <1>1, <3>1, <3>5, <4>1 DEF StoresKnown
      <4>3. t < n
        BY <1>1, <1>2, <4>2
      <4>4. ASSUME NEW i \in v + 1 .. t PROVE ~Stores(c, x, i)
        <5>1. i \in v + 1 .. n - 1 /\ ~(next[x] <= i)
          BY <1>1, <1>2, <4>2, <4>3
        <5> QED BY <4>2, <5>1
      <4> QED BY <3>1, <3>2, <3>3, <3>5, <4>1, <4>3, <4>4
    <3> QED BY <3>1, <3>4, <3>5
  <2> QED BY <2>1, <2>2
<1>5. ASSUME NEW w \in v + 1 .. n - 1, c[w].op = "UNPACK_SEQUENCE"
      PROVE  w - 1 \in more
  <2>1. CASE w \in v + 2 .. n - 1
    <3>1. w \in v + 1 + 1 .. n - 1
      BY <1>1, <2>1
    <3>2. w - 1 \in loads
      BY <1>1, <1>5, <3>1 DEF LoadsKnown
    <3> QED BY <3>2
  <2>2. CASE w \notin v + 2 .. n - 1
    <3>1. w = v + 1 /\ w - 1 = v /\ w \in 0 .. n - 1 /\ w \in v + 1 .. n - 1 /\ w \in Nat
      BY <1>1, <2>2
    <3>2. c[v].op = "LOAD_FAST" /\ c[v].arg \in Local
      BY <1>1, <1>5, <3>1, SizeIs
    <3>3. t = w
      <4>1. PICK row : row = RowAt(c, h, w)
        OBVIOUS
      <4>2. /\ h[w + 1].until \in Seq(Nat) /\ row.undo \in Nat /\ row.marks \in Seq(Nat)
            /\ h[w].until = Without(h[w + 1].until, row.undo) \o row.marks
        <5>1. w + 1 \in v + 1 .. n
          BY <1>1, <3>1
        <5> QED BY <1>1, <3>1, <4>1, <5>1 DEF Analysed
      <4>3. row.marks = <<w>>
        <5>1. c[w].op \in Supported \ Moves /\ c[w].arg \in Nat
          BY <1>1, <1>5, <3>1, SizeIs DEF Moves
        <5>2. PICK op : op = c[w].op /\ op = "UNPACK_SEQUENCE"
          BY <1>5
        <5>3. Assumes(op, c[w].arg, h[w + 1].until, w) = AssumesPattern(op, c[w].arg, w)
          <6>1. op \in PatternOps
            BY <5>2 DEF PatternOps
          <6>2. Families[7] = PatternOps
            BY DEF Families
          <6>3. /\ op \notin MoveOps /\ op \notin NameOps /\ op \notin OperatorOps
                /\ op \notin CallOps /\ op \notin JumpOps /\ op \notin BuildOps
            BY <6>1, <6>2, OneFamily DEF Families
          <6> QED BY <5>2, <6>1, <6>3, <1>5 DEF Assumes, MoveOps, NameOps, OperatorOps,
                UnaryOps, BinaryOps, CallOps, JumpOps, PopJumps, OrPopJumps, BuildOps, Building,
                AddingTo, HandlerOps, GeneratorOps
        <5>4. row = Row(c[w].arg, <<w>>)
          BY <4>1, <5>2, <5>3 DEF RowAt, AssumesPattern
        <5> QED BY ONLY <5>4 DEF Row
      <4>4. PICK u \in Seq(Nat), undo \in Nat, marks \in Seq(Nat) :
              u = h[w + 1].until /\ undo = row.undo /\ marks = <<w>> /\ Len(marks) = 1
              /\ marks[1] = w /\ row.marks = marks
        BY <3>1, <4>2, <4>3
      <4>5. Due(Without(u, undo) \o marks, 1, 1 - Len(marks) + 1) = marks[1]
        <5>1. 1 \in Nat /\ Len(marks) <= 1 /\ 1 \in 1 .. Len(marks)
          BY <4>4
        <5>2. PICK L \in Nat : L = 1 /\ Len(marks) <= L
          BY <5>1
        <5>3. u \in Seq(Nat) /\ undo \in Nat /\ marks \in Seq(Nat) /\ L \in Nat
          BY <4>4, <5>2
        <5>4. \A j \in 1 .. Len(marks) :
                Due(Without(u, undo) \o marks, L, L - Len(marks) + j) = marks[j]
          BY ONLY <5>2, <5>3, DuePassed
        <5> QED BY <5>1, <5>2, <5>4
      <4> QED BY <3>1, <4>2, <4>4, <4>5
    <3>4. next[c[v].arg] > t
      <4>1. PICK x \in Local : x = c[v].arg
        BY <3>2
      <4>2. next[x] \in v + 1 .. n /\ (next[x] < n => Stores(c, x, next[x]))
        BY <1>1, <4>1 DEF StoresKnown
      <4>3. next[x] # w
        <5>1. ~Stores(c, x, w)
          BY <1>5 DEF Stores
        <5>2. w < n
          BY <1>1, <3>1
        <5> QED BY <4>2, <5>1, <5>2
      <4> QED BY <1>1, <3>1, <3>3, <4>1, <4>2, <4>3
    <3> QED BY <3>1, <3>2, <3>4
  <2> QED BY <2>1, <2>2
<1> QED BY <1>1, <1>4, <1>5 DEF LoadsKnown

LEMMA AnalyseStep ==
  ASSUME Compiled(code), initial_stack_height \in 0 .. MaxHeight,
         NEW h, NEW N, Analysing(h, N), Analyse
  PROVE  IInv'
<1>1. PICK n \in Nat : n = Size(code) /\ n = code_instr_num /\ vpc \in 1 .. n
  BY SizeIs DEF Analysing, Size, code_instr_num
<1>2. PICK v \in 0 .. n - 1 : v = vpc - 1 /\ v + 1 = vpc
  <2>1. vpc - 1 \in 0 .. n - 1 /\ vpc - 1 + 1 = vpc
    BY <1>1
  <2> QED BY <2>1
<1>3. PICK row : row = RowAt(code, h, v)
  OBVIOUS
<1>4. until = h[v + 1].until /\ stack_effect = h[v + 1].effect
  BY <1>2 DEF Analysing
<1>5. row = Assumes(code[v].op, code[v].arg, until, v)
  BY <1>3, <1>4 DEF RowAt
<1>6. PICK t : t = Due(h[v + 1].until, 1, 1)
  OBVIOUS
<1>7. TopOf(until, 1)[1] = t
  BY <1>4, <1>6 DEF TopOf, Due
<1>8. /\ until' = Without(h[v + 1].until, row.undo) \o row.marks
      /\ stack_effect' = h[v + 1].effect + row.undo - Len(row.marks)
      /\ locals' = IF code[v].op = "STORE_FAST" THEN [locals EXCEPT ![code[v].arg] = v] ELSE locals
      /\ redundant_loads' =
           IF \/ code[v].op = "LOAD_CONST" /\ Size(code) > t
              \/ code[v].op = "LOAD_FAST" /\ locals[code[v].arg] > t
             THEN redundant_loads \cup {v} ELSE redundant_loads
      /\ vpc' = v /\ phase' = IF v = 0 THEN "emit" ELSE "analyse"
  BY <1>1, <1>2, <1>4, <1>5, <1>7 DEF Analyse
<1>9. /\ code' = code /\ initial_stack_height' = initial_stack_height
      /\ abstract_stack' = abstract_stack /\ stack_height' = stack_height /\ sp' = sp
      /\ slot' = slot /\ fast' = fast /\ refs' = refs /\ operands' = operands /\ taken' = taken
  BY DEF Analyse
<1>10. PICK k : k = [w \in v .. Size(code) |->
                       IF w = v THEN [until |-> until', effect |-> stack_effect'] ELSE h[w]]
  OBVIOUS
<1>11. k[v].until = until' /\ k[v].effect = stack_effect' /\ Extended(k, h, code, v)
  <2>1. v \in v .. Size(code) /\ \A w \in v + 1 .. Size(code) : w \in v .. Size(code) /\ w # v
    BY <1>1, <1>2
  <2>2. k[v].until = until' /\ k[v].effect = stack_effect'
    BY <1>10, <2>1
  <2>3. \A w \in v + 1 .. Size(code) : k[w] = h[w]
    BY <1>10, <2>1
  <2>4. DOMAIN k = v .. Size(code)
    BY <1>10
  <2> QED BY <1>3, <1>8, <2>2, <2>3, <2>4 DEF Extended
<1>12. /\ v \in 0 .. Size(code) - 1 /\ Analysed(code, h, v + 1)
       /\ LoadsKnown(code, h, redundant_loads, v + 1)
       /\ StoresKnown(code, locals, v + 1) /\ DOMAIN locals = Local
  BY <1>1, <1>2 DEF Analysing
<1>13. Analysed(code, k, v)
  BY <1>11, <1>12, AnalysedExtended
<1>14. StoresKnown(code, locals', v) /\ DOMAIN locals' = Local
  BY <1>8, <1>12, StoresExtended
<1>15. LoadsKnown(code, k, redundant_loads', v)
  BY <1>6, <1>8, <1>11, <1>12, LoadsExtended
<1>16. /\ Backed(abstract_stack, slot, fast, refs, N)
       /\ \A i \in 1 .. Len(abstract_stack) : abstract_stack[i].really_pushed
       /\ Len(abstract_stack) = initial_stack_height
       /\ stack_height = initial_stack_height /\ sp = initial_stack_height
       /\ operands = <<>> /\ taken = <<>>
  BY DEF Analysing
<1>17. Compiled(code)' /\ (initial_stack_height \in 0 .. MaxHeight)'
  BY <1>9
<1>18. CASE v # 0
  <2>1. phase' = "analyse" /\ vpc' \in 1 .. Size(code') /\ vpc' = v
    <3>1. v \in 1 .. n
      BY <1>1, <1>2, <1>18
    <3>2. phase' = "analyse" /\ vpc' = v
      BY <1>8, <1>18
    <3> QED BY <1>1, <1>9, <3>1, <3>2
  <2>2. Analysed(code, k, vpc)' /\ LoadsKnown(code, k, redundant_loads, vpc)'
        /\ StoresKnown(code, locals, vpc)' /\ (DOMAIN locals = Local)'
    BY <1>9, <1>13, <1>14, <1>15, <2>1
  <2>3. (until = k[vpc].until)' /\ (stack_effect = k[vpc].effect)'
    BY <1>11, <2>1
  <2>4. Analysing(k, N)'
    BY <1>9, <1>16, <2>1, <2>2, <2>3 DEF Analysing
  <2> QED BY <1>17, <2>4 DEF IInv
<1>19. CASE v = 0
  <2>1. phase' = "emit" /\ vpc' \in 0 .. Size(code') - 1 /\ vpc' = 0
    BY <1>1, <1>8, <1>9, <1>12, <1>19
  <2>2. Known(k)'
    BY <1>9, <1>13, <1>15, <1>19 DEF Known
  <2>3. Lasts(code, abstract_stack, k[0].until, 0, fast)
    BY <1>16 DEF Lasts, Lasting
  <2>4. Len(abstract_stack) + k[0].effect = initial_stack_height + stack_effect'
    BY <1>11, <1>16, <1>19
  <2>5. Before(code, k, abstract_stack, vpc, slot, fast, refs, N, Total)'
    BY <1>9, <1>16, <2>1, <2>3, <2>4 DEF Before, Total
  <2>6. stack_height = UpTo(Owned(abstract_stack), Len(abstract_stack))
    <3>1. Indexed(abstract_stack)
      BY <1>16 DEF Backed
    <3> QED BY <1>16, <3>1, AllPushed
  <2>7. unit'.op # "UNPACK_SEQUENCE"
    <3>1. 0 \in 0 .. Size(code) - 1
      BY <1>12, <1>19
    <3>2. code[0].op # "UNPACK_SEQUENCE"
      BY <3>1, SizeIs
    <3> QED BY <1>9, <2>1, <3>2 DEF unit
  <2>8. BetweenUnits(k, N)'
    BY <1>9, <1>16, <2>1, <2>2, <2>5, <2>6, <2>7 DEF BetweenUnits
  <2> QED BY <1>17, <2>8 DEF IInv
<1> QED BY <1>18, <1>19

\* A block is begun with what its stack and its locals hold counted once.
Begun(H, nlocals, N, s, f, fs, r) ==
  /\ H \in 0 .. MaxHeight /\ nlocals \in Nat /\ Local = 1 .. nlocals
  /\ N \in Nat /\ N = 1 + nlocals + H
  /\ s = [i \in 1 .. H |-> Pushed(1 + nlocals + i)]
  /\ f = [i \in 1 .. MaxHeight |-> IF i <= H THEN 1 + nlocals + i ELSE None]
  /\ fs = [x \in Local |-> 1 + x] /\ r = [o \in 1 .. N |-> 1]

LEMMA BegunBacked ==
  ASSUME NEW H, NEW nlocals, NEW N, NEW s, NEW f, NEW fs, NEW r,
         Begun(H, nlocals, N, s, f, fs, r)
  PROVE  /\ Backed(s, f, fs, r, N) /\ Len(s) = H
         /\ \A i \in 1 .. Len(s) : s[i].really_pushed
<1>0. /\ H \in 0 .. MaxHeight /\ nlocals \in Nat /\ Local = 1 .. nlocals
      /\ N \in Nat /\ N = 1 + nlocals + H
      /\ s = [i \in 1 .. H |-> Pushed(1 + nlocals + i)]
      /\ f = [i \in 1 .. MaxHeight |-> IF i <= H THEN 1 + nlocals + i ELSE None]
      /\ fs = [x \in Local |-> 1 + x] /\ r = [o \in 1 .. N |-> 1]
  BY DEF Begun
<1> USE <1>0
<1>1. H \in Nat /\ MaxHeight \in Nat /\ H <= MaxHeight /\ N >= 1
  BY NumbersAssumption
<1>2. Len(s) = H /\ DOMAIN s = 1 .. H /\ Indexed(s)
  BY <1>1 DEF Indexed
<1>3. \A i \in 1 .. H : s[i].really_pushed /\ s[i].value = 1 + nlocals + i
  BY DEF Pushed
<1>4. Owned(s) = 1 .. H
  BY <1>2, <1>3 DEF Owned
<1>5. \A i \in 1 .. H : UpTo(Owned(s), i) = i
  <2> SUFFICES ASSUME NEW i \in 1 .. H PROVE UpTo(Owned(s), i) = i
    OBVIOUS
  <2>1. i \in Nat /\ i <= H
    BY <1>1
  <2>2. {j \in 1 .. H : j <= i} = 1 .. i
    BY <1>1, <2>1
  <2>3. Cardinality(1 .. i) = i
    BY <2>1, FS_Interval
  <2> QED BY <1>4, <2>2, <2>3 DEF UpTo
<1>6. Placed(s, f)
  <2>1. \A i \in 1 .. H : f[i] = 1 + nlocals + i
    BY <1>1
  <2> QED BY <1>3, <1>4, <1>5, <2>1 DEF Placed
<1>7. \A i \in 1 .. H : s[i].value \in 1 .. N
  <2>1. \A i \in 1 .. H : 1 + nlocals + i \in 1 .. N
    BY <1>1
  <2> QED BY <1>3, <2>1
<1>8. DOMAIN fs = Local /\ \A x \in Local : fs[x] \in 0 .. N
  BY <1>1
<1>9. ASSUME NEW o \in 1 .. N
      PROVE  1 >= UpTo(Mine(s, o), H) + InLocals(fs, o) + Own(o)
  <2>1. Mine(s, o) = {i \in 1 .. H : 1 + nlocals + i = o}
    BY <1>3, <1>4 DEF Mine
  <2>2. InLocals(fs, o) = Cardinality({x \in 1 .. nlocals : 1 + x = o})
    <3>1. {x \in Local : fs[x] = o} = {x \in 1 .. nlocals : 1 + x = o}
      OBVIOUS
    <3> QED BY <3>1 DEF InLocals
  <2>3. UpTo(Mine(s, o), H) = Cardinality(Mine(s, o))
    <3>1. Mine(s, o) \in SUBSET (1 .. H)
      BY <2>1
    <3> QED BY <1>1, <3>1, UpToAll
  <2>4. Cardinality({}) = 0 /\ \A e : Cardinality({e}) = 1
    BY FS_EmptySet, FS_Singleton
  <2>5. /\ Mine(s, o) = {} => UpTo(Mine(s, o), H) = 0
        /\ \A e : Mine(s, o) = {e} => UpTo(Mine(s, o), H) = 1
    BY <2>3, <2>4
  <2>6. PICK X : X = {x \in 1 .. nlocals : 1 + x = o}
    OBVIOUS
  <2>7. /\ X = {} => InLocals(fs, o) = 0
        /\ \A e : X = {e} => InLocals(fs, o) = 1
    BY <2>2, <2>4, <2>6
  <2>8. o \in Int /\ o >= 1 /\ o <= 1 + nlocals + H
    OBVIOUS
  <2>9. CASE o = 1
    <3>1. Mine(s, o) = {}
      <4>1. \A i \in 1 .. H : 1 + nlocals + i # 1
        BY <1>1
      <4> QED BY <2>1, <2>9, <4>1
    <3>2. X = {}
      BY <2>6, <2>9
    <3>3. Own(o) = 1
      BY <2>9 DEF Own, Const
    <3>4. UpTo(Mine(s, o), H) = 0 /\ InLocals(fs, o) = 0
      BY <2>5, <2>7, <3>1, <3>2
    <3> QED BY <3>3, <3>4
  <2>10. CASE o # 1 /\ o <= 1 + nlocals
    <3>1. Mine(s, o) = {}
      <4>1. \A i \in 1 .. H : 1 + nlocals + i # o
        BY <1>1, <2>8, <2>10
      <4> QED BY <2>1, <4>1
    <3>2. X = {o - 1}
      <4>1. o - 1 \in 1 .. nlocals /\ 1 + (o - 1) = o
        BY <2>8, <2>10
      <4>2. \A x \in 1 .. nlocals : 1 + x = o => x = o - 1
        BY <2>8
      <4> QED BY <2>6, <4>1, <4>2
    <3>3. Own(o) = 0
      BY <2>10 DEF Own, Const
    <3>4. UpTo(Mine(s, o), H) = 0 /\ InLocals(fs, o) = 1
      BY <2>5, <2>7, <3>1, <3>2
    <3> QED BY <3>3, <3>4
  <2>11. CASE o > 1 + nlocals
    <3>1. Mine(s, o) = {o - 1 - nlocals}
      <4>1. o - 1 - nlocals \in 1 .. H /\ 1 + nlocals + (o - 1 - nlocals) = o
        BY <1>1, <2>8, <2>11
      <4>2. \A i \in 1 .. H : 1 + nlocals + i = o => i = o - 1 - nlocals
        BY <2>8
      <4> QED BY <2>1, <4>1, <4>2
    <3>2. X = {}
      BY <2>6, <2>8, <2>11
    <3>3. Own(o) = 0
      BY <2>8, <2>11 DEF Own, Const
    <3>4. UpTo(Mine(s, o), H) = 1 /\ InLocals(fs, o) = 0
      BY <2>5, <2>7, <3>1, <3>2
    <3> QED BY <3>3, <3>4
  <2> QED BY <2>8, <2>9, <2>10, <2>11
<1>10. DOMAIN f = 1 .. MaxHeight /\ DOMAIN r = 1 .. N /\ \A o \in 1 .. N : r[o] = 1
  OBVIOUS
<1>11. \A o \in 1 .. N : /\ r[o] \in Int
                         /\ r[o] >= UpTo(Mine(s, o), Len(s)) + InLocals(fs, o) + Own(o)
  <2>1. \A o \in 1 .. N : 1 >= UpTo(Mine(s, o), H) + InLocals(fs, o) + Own(o)
    BY <1>9
  <2>2. Len(s) = H /\ \A o \in 1 .. N : r[o] = 1
    BY <1>2, <1>10
  <2> QED BY ONLY <2>1, <2>2
<1>12. Backed(s, f, fs, r, N)
  BY <1>1, <1>2, <1>6, <1>7, <1>8, <1>10, <1>11 DEF Backed
<1> QED BY <1>2, <1>3, <1>12

LEMMA InitIInv ==
  Init => IInv
<1> SUFFICES ASSUME Init PROVE IInv
  OBVIOUS
<1>1. Compiled(code) /\ initial_stack_height \in 0 .. MaxHeight /\ InitBlock
  BY DEF Init
<1>2. PICK n \in Nat : n = Size(code) /\ n >= 1 /\ n = code_instr_num
  BY <1>1, SizeIs DEF Size, code_instr_num
<1>3. PICK nlocals \in Nat : nlocals = Cardinality(Local) /\ Local = 1 .. nlocals
  BY LocalAssumption, FS_CardinalityType
<1>4. PICK H \in 0 .. MaxHeight, N \in Nat : H = initial_stack_height /\ N = 1 + nlocals + H
  <2>1. 1 + nlocals + initial_stack_height \in Nat
    BY <1>1, <1>3, NumbersAssumption
  <2> QED BY <1>1, <2>1
<1>5. /\ Backed(abstract_stack, slot, fast, refs, N) /\ Len(abstract_stack) = H
      /\ \A i \in 1 .. Len(abstract_stack) : abstract_stack[i].really_pushed
  <2>1. abstract_stack = [i \in 1 .. H |-> Pushed(1 + nlocals + i)]
    BY <1>1, <1>3, <1>4 DEF InitBlock
  <2>2. slot = [i \in 1 .. MaxHeight |-> IF i <= H THEN 1 + nlocals + i ELSE None]
    <3>1. slot = [i \in 1 .. MaxHeight |->
                    IF i <= H THEN [j \in 1 .. H |-> 1 + nlocals + j][i] ELSE None]
      BY <1>1, <1>3, <1>4 DEF InitBlock
    <3>2. \A i \in 1 .. MaxHeight : i <= H => i \in 1 .. H
      BY <1>4
    <3> QED BY <3>1, <3>2
  <2>3. fast = [x \in Local |-> 1 + x] /\ refs = [o \in 1 .. N |-> 1]
    BY <1>1, <1>3, <1>4 DEF InitBlock
  <2>4. /\ H \in 0 .. MaxHeight /\ nlocals \in Nat /\ Local = 1 .. nlocals
        /\ N \in Nat /\ N = 1 + nlocals + H
    BY <1>3, <1>4
  <2>5. Begun(H, nlocals, N, abstract_stack, slot, fast, refs)
    BY <2>1, <2>2, <2>3, <2>4 DEF Begun
  <2> QED BY ONLY <2>5, BegunBacked
<1>6. PICK h : h = [w \in n .. n |-> [until |-> <<>>, effect |-> 0]]
  OBVIOUS
<1>7. h[n].until = <<>> /\ h[n].effect = 0
  <2>1. n \in n .. n
    BY <1>2
  <2> QED BY <1>6, <2>1
<1>8. Analysed(code, h, n)
  <2>1. n .. n = {n} /\ n .. n - 1 = {}
    BY <1>2
  <2>2. <<>> \in Seq(Nat)
    OBVIOUS
  <2>3. \A w \in n .. n : h[w].until \in Seq(Nat) /\ h[w].effect \in Int
    <3>1. h[n].until \in Seq(Nat) /\ h[n].effect \in Int
      BY <1>7, <2>2
    <3> QED BY <2>1, <3>1
  <2>4. n = Size(code) /\ \A w \in n .. n - 1 : FALSE
    BY <1>2, <2>1
  <2> QED BY <1>7, <2>3, <2>4 DEF Analysed
<1>9. LoadsKnown(code, h, redundant_loads, n)
  <2>1. n + 1 .. n - 1 = {}
    BY <1>2
  <2>2. redundant_loads = {}
    BY <1>1 DEF InitBlock
  <2> QED BY <1>2, <2>1, <2>2 DEF LoadsKnown
<1>10. StoresKnown(code, locals, n) /\ DOMAIN locals = Local
  <2>1. n .. n - 1 = {} /\ n \in n .. n
    BY <1>2
  <2>2. locals = [x \in Local |-> n]
    BY <1>1, <1>2 DEF InitBlock
  <2> QED BY <1>2, <2>1, <2>2 DEF StoresKnown
<1>11. vpc = n /\ n \in 1 .. Size(code) /\ until = <<>> /\ stack_effect = 0
       /\ phase = "analyse" /\ stack_height = H /\ sp = H /\ operands = <<>> /\ taken = <<>>
  BY <1>1, <1>2, <1>4 DEF InitBlock
<1>12. Analysing(h, N)
  BY <1>4, <1>5, <1>7, <1>8, <1>9, <1>10, <1>11 DEF Analysing
<1> QED BY <1>1, <1>12 DEF IInv

-----------------------------------------------------------------------------
(* Operands taken.                                                         *)

\* What is emitted for the opcodes the steps below treat apart.
LEMMA EmitsOfSome ==
  ASSUME NEW n
  PROVE  /\ Emits("RERAISE", n) = Plain
         /\ Emits("POP_EXCEPT", n) = Safely(Take(3, 0))
         /\ Emits("SETUP_WITH", n) = [Take(1, 2) EXCEPT !.blind = TRUE]
         /\ Emits("FOR_ITER", n) = Pop(0, 1)
         /\ Emits("YIELD_FROM", n) = Pop(2, 1)
         /\ Emits("UNPACK_SEQUENCE", n) = Pop(1, n)
         /\ Emits("CALL_FUNCTION_EX", n) = [Pop(2 + Bit(n, 1), 1) EXCEPT !.always = Bit(n, 1)]
<1> SUFFICES ASSUME NEW op
             PROVE  /\ op = "RERAISE" => Emits(op, n) = Plain
                    /\ op = "POP_EXCEPT" => Emits(op, n) = Safely(Take(3, 0))
                    /\ op = "SETUP_WITH" => Emits(op, n) = [Take(1, 2) EXCEPT !.blind = TRUE]
                    /\ op = "FOR_ITER" => Emits(op, n) = Pop(0, 1)
                    /\ op = "YIELD_FROM" => Emits(op, n) = Pop(2, 1)
                    /\ op = "UNPACK_SEQUENCE" => Emits(op, n) = Pop(1, n)
                    /\ op = "CALL_FUNCTION_EX" =>
                         Emits(op, n) = [Pop(2 + Bit(n, 1), 1) EXCEPT !.always = Bit(n, 1)]
  OBVIOUS
<1>1. \A i, j \in 1 .. 9 : op \in Families[i] /\ op \in Families[j] => i = j
  BY OneFamily
<1>2. CASE op \in {"RERAISE", "POP_EXCEPT", "SETUP_WITH"}
  <2>1. op \in HandlerOps
    BY <1>2 DEF HandlerOps
  <2>2. Emits(op, n) = EmitsHandler(op)
    BY <1>1, <2>1 DEF Emits, Families
  <2> QED BY <1>2, <2>2 DEF EmitsHandler
<1>3. CASE op = "FOR_ITER"
  <2>1. op \in JumpOps /\ op \notin PopJumps /\ op \notin OrPopJumps
    BY <1>3 DEF JumpOps, PopJumps, OrPopJumps
  <2>2. Emits(op, n) = EmitsJump(op)
    BY <1>1, <2>1 DEF Emits, Families
  <2> QED BY <1>3, <2>1, <2>2 DEF EmitsJump
<1>4. CASE op = "YIELD_FROM"
  <2>1. op \in GeneratorOps
    BY <1>4 DEF GeneratorOps
  <2>2. Emits(op, n) = EmitsGenerator(op, n)
    BY <1>1, <2>1 DEF Emits, Families
  <2> QED BY <1>4, <2>2 DEF EmitsGenerator
<1>5. CASE op = "UNPACK_SEQUENCE"
  <2>1. op \in PatternOps
    BY <1>5 DEF PatternOps
  <2>2. Emits(op, n) = EmitsPattern(op, n)
    BY <1>1, <2>1 DEF Emits, Families
  <2> QED BY <1>5, <2>2 DEF EmitsPattern
<1>6. CASE op = "CALL_FUNCTION_EX"
  <2>1. op \in CallOps
    BY <1>6 DEF CallOps
  <2>2. Emits(op, n) = EmitsCall(op, n)
    BY <1>1, <2>1 DEF Emits, Families
  <2> QED BY <1>6, <2>2 DEF EmitsCall
<1> QED BY <1>2, <1>3, <1>4, <1>5, <1>6

\* What an emitted row may be.
Emitted(op, e) ==
  /\ e.pop \in Nat /\ e.take \in Nat /\ e.keep \in Nat /\ e.push \in Nat /\ e.lost \in Nat
  /\ e.take = 0 \/ e.pop + e.keep = 0
  /\ e.early = FALSE /\ e.borrowed = FALSE
  /\ e.blind = IF op = "SETUP_WITH" THEN TRUE ELSE FALSE
  /\ e.always = 0 \/ (op = "CALL_FUNCTION_EX" /\ e.always = 1 /\ e.pop = 3 /\ e.keep = 0)

LEMMA EmittedAre ==
  ASSUME NEW op \in Supported \ Moves, NEW n \in Nat, NEW e, e = Emits(op, n)
  PROVE  Emitted(op, e)
<1>1. CASE op = "RERAISE"
  <2>1. e = Plain
    BY <1>1, EmitsOfSome
  <2>2. /\ e.pop = 0 /\ e.take = 0 /\ e.keep = 0 /\ e.push = 0 /\ e.lost = 0 /\ e.always = 0
        /\ e.early = FALSE /\ e.borrowed = FALSE /\ e.blind = FALSE
    BY <2>1 DEF Plain
  <2>3. op # "SETUP_WITH"
    BY <1>1
  <2>4. /\ e.pop \in Nat /\ e.take \in Nat /\ e.keep \in Nat /\ e.push \in Nat /\ e.lost \in Nat
        /\ e.take = 0 \/ e.pop + e.keep = 0
    BY <2>2
  <2>5. /\ e.early = FALSE /\ e.borrowed = FALSE
        /\ e.blind = IF op = "SETUP_WITH" THEN TRUE ELSE FALSE
    BY ONLY <2>2, <2>3, Zenon
  <2> QED BY ONLY <2>2, <2>4, <2>5, Zenon DEF Emitted
<1>2. CASE op # "RERAISE"
  <2>1. PICK v \in Nat : v = 0
    OBVIOUS
  <2>2. PICK row : row = Assumes(op, n, <<>>, v)
    OBVIOUS
  <2>3. Match(op, row, e, v)
    BY <1>2, <2>2, TablesMatch
  <2>4. /\ e.pop \in Nat /\ e.take \in Nat /\ e.keep \in Nat /\ e.push \in Nat /\ e.lost \in Nat
        /\ e.take = 0 \/ e.pop + e.keep = 0
    BY ONLY <2>3 DEF Match
  <2>5. /\ e.early = FALSE /\ e.borrowed = FALSE
        /\ e.blind = IF op = "SETUP_WITH" THEN TRUE ELSE FALSE
    BY ONLY <2>3, Zenon DEF Match
  <2>6. e.always = 0 \/ (op = "CALL_FUNCTION_EX" /\ e.always = 1 /\ e.pop = 3 /\ e.keep = 0)
    BY ONLY <2>3 DEF Match
  <2> QED BY ONLY <2>4, <2>5, <2>6, Zenon DEF Emitted
<1> QED BY <1>1, <1>2

\* What is handed over in place is owned.
LEMMA HandedOver ==
  ASSUME Compiled(code), NEW h, NEW N, BetweenUnits(h, N), unit.op \notin Moves,
         NEW e, e = Emits(unit.op, unit.arg), NEW L, L = Len(abstract_stack),
         L >= e.pop + e.take + e.keep, e.take > 0, Legal(unit.op, unit.arg)
  PROVE  \A j \in 1 .. e.take : abstract_stack[L - e.take + j].really_pushed
<1>1. /\ Size(code) \in Nat /\ vpc \in 0 .. Size(code) - 1 /\ vpc \in Nat
      /\ Analysed(code, h, 0) /\ Indexed(abstract_stack) /\ Len(abstract_stack) \in Nat
      /\ Lasts(code, abstract_stack, h[vpc].until, vpc, fast)
  BY AtUnit
<1>2. unit.op \in Supported \ Moves /\ unit.arg \in Nat
  BY <1>1, SizeIs DEF unit
<1>3. e.pop = 0 /\ e.keep = 0 /\ e.take \in Nat
  <2>1. Emitted(unit.op, e)
    BY <1>2, EmittedAre
  <2>2. /\ e.pop \in Nat /\ e.take \in Nat /\ e.keep \in Nat
        /\ e.take = 0 \/ e.pop + e.keep = 0
    BY <2>1 DEF Emitted
  <2> QED BY <2>2
<1>4. CASE unit.op = "POP_EXCEPT"
  <2>1. e.take = 3
    <3>1. e = Safely(Take(3, 0))
      BY <1>4, EmitsOfSome
    <3> QED BY ONLY <3>1 DEF Safely, Take, Plain
  <2>2. \A i \in 1 .. 3 : abstract_stack[L - i + 1].really_pushed
    BY <1>4 DEF Legal
  <2>3. ASSUME NEW j \in 1 .. 3 PROVE abstract_stack[L - 3 + j].really_pushed
    <3>1. 4 - j \in 1 .. 3 /\ L - (4 - j) + 1 = L - 3 + j
      BY <1>1
    <3> QED BY <2>2, <3>1
  <2> QED BY <2>1, <2>3
<1>5. CASE unit.op # "POP_EXCEPT"
  <2>1. PICK row : row = RowAt(code, h, vpc)
    OBVIOUS
  <2>2. Match(unit.op, row, e, vpc)
    <3>1. unit.op # "RERAISE"
      <4>1. Plain.take = 0
        BY DEF Plain
      <4> QED BY <4>1, EmitsOfSome
    <3>2. row = Assumes(unit.op, unit.arg, h[vpc + 1].until, vpc)
      BY <2>1 DEF RowAt, unit
    <3> QED BY <1>1, <1>2, <3>1, <3>2, TablesMatch
  <2>3. unit.op # "POP_TOP"
    <3>1. Emits("POP_TOP", unit.arg).take = 0
      <4>1. Emits("POP_TOP", unit.arg) = EmitsMove("POP_TOP")
        <5> SUFFICES ASSUME NEW op, op = "POP_TOP" PROVE Emits(op, unit.arg) = EmitsMove(op)
          OBVIOUS
        <5>1. op \in MoveOps
          BY DEF MoveOps
        <5>2. \A i, j \in 1 .. 9 : op \in Families[i] /\ op \in Families[j] => i = j
          BY OneFamily
        <5> QED BY <5>1, <5>2 DEF Emits, Families
      <4> QED BY <4>1 DEF EmitsMove, Safely, Pop, Plain
    <3> QED BY <3>1
  <2>4. Marks(row.marks, e.take, {Forever})
    <3>1. e.pop + e.take + e.keep = e.take
      BY <1>3
    <3> QED BY <1>5, <2>2, <2>3, <3>1 DEF Match
  <2>5. Len(row.marks) = e.take /\ \A j \in 1 .. e.take : row.marks[j] = Forever
    BY <2>4 DEF Marks
  <2>6. Len(row.marks) <= Len(abstract_stack)
    BY <1>1, <1>3, <2>5
  <2>7. \A j \in 1 .. Len(row.marks) :
           Lasting(code, abstract_stack[Len(abstract_stack) - Len(row.marks) + j], row.marks[j],
                   vpc, fast)
    BY <1>1, <2>1, <2>6, MarkedLast
  <2>8. ~(Forever < Size(code))
    BY <1>1, SizeIs, NumbersAssumption
  <2> QED BY <2>5, <2>7, <2>8 DEF Lasting
<1> QED BY <1>4, <1>5

\* The n top values t of s, and those below them.
Cut(s, n, t, a, B) ==
  Indexed(s) /\ n \in 0 .. Len(s) /\ t = TopN(s, n) /\ a = Below(s, n) /\ B = Len(s) - n

LEMMA CutIs ==
  ASSUME NEW s, NEW n, NEW t, NEW a, NEW B, Cut(s, n, t, a, B)
  PROVE  /\ n \in Nat /\ B \in Nat /\ B + n = Len(s) /\ B = Len(s) - n
         /\ Indexed(t) /\ Len(t) = n /\ \A i \in 1 .. n : t[i] = s[B + i]
         /\ Indexed(a) /\ Len(a) = B /\ \A i \in 1 .. B : a[i] = s[i]
         /\ UpTo(Owned(s), Len(s)) = UpTo(Owned(s), B) + UpTo(Owned(t), n)
         /\ UpTo(Owned(s), B) \in Nat /\ UpTo(Owned(t), n) \in Nat
         /\ UpTo(Owned(t), n) = Cardinality(Owned(t))
<1>1. Indexed(s) /\ n \in 0 .. Len(s) /\ t = TopN(s, n)
  BY DEF Cut
<1>2. Indexed(s) /\ n \in 0 .. Len(s) /\ a = Below(s, n)
  BY DEF Cut
<1>3. B = Len(s) - n /\ Len(s) \in Nat
  BY DEF Cut, Indexed
<1>4. n \in Nat /\ B \in Nat /\ B + n = Len(s)
  BY <1>1, <1>3
<1>5. Indexed(t) /\ Len(t) = n /\ \A i \in 1 .. n : t[i] = s[B + i]
  <2>1. Indexed(t) /\ Len(t) = n /\ \A i \in 1 .. n : t[i] = s[Len(s) - n + i]
    BY ONLY <1>1, TopIs
  <2> QED BY <1>3, <2>1
<1>6. Indexed(a) /\ Len(a) = B /\ \A i \in 1 .. B : a[i] = s[i]
  <2>1. Indexed(a) /\ Len(a) = Len(s) - n /\ \A i \in 1 .. Len(s) - n : a[i] = s[i]
    BY ONLY <1>2, BelowIs
  <2> QED BY <1>3, <2>1
<1>7. Part(t, s, B, n)
  BY <1>1, <1>4, <1>5 DEF Part
<1>8. UpTo(Owned(s), Len(s)) = UpTo(Owned(s), B) + UpTo(Owned(t), n)
  <2>1. \A k \in 0 .. n : UpTo(Owned(s), B + k) = UpTo(Owned(s), B) + UpTo(Owned(t), k)
    <3>1. B \in Nat /\ n \in Nat /\ Part(t, s, B, n)
      BY <1>4, <1>7
    <3> QED BY ONLY <3>1, PartCounts
  <2>2. n \in 0 .. n /\ B + n = Len(s)
    BY <1>4
  <2> QED BY <2>1, <2>2
<1>9. Owned(t) \in SUBSET (1 .. n) /\ UpTo(Owned(t), n) \in Nat /\ UpTo(Owned(s), B) \in Nat
  BY <1>1, <1>4, <1>5, OwnedIs
<1>10. UpTo(Owned(t), n) = Cardinality(Owned(t))
  BY <1>4, <1>9, UpToAll
<1> QED BY <1>3, <1>4, <1>5, <1>6, <1>8, <1>9, <1>10

\* What an instruction takes off a stack s: popped, then taken, with rest and then left under them.
Taking(s, p, t, popped, rest, tk, left, R, B) ==
  /\ Indexed(s) /\ p \in Nat /\ t \in Nat /\ p + t <= Len(s)
  /\ R = Len(s) - p /\ B = R - t
  /\ popped = TopN(s, p) /\ rest = Below(s, p) /\ tk = TopN(rest, t) /\ left = Below(rest, t)

LEMMA TakingIs ==
  ASSUME NEW s, NEW p, NEW t, NEW popped, NEW rest, NEW tk, NEW left, NEW R, NEW B,
         Taking(s, p, t, popped, rest, tk, left, R, B)
  PROVE  /\ R \in Nat /\ B \in Nat
         /\ Indexed(popped) /\ Len(popped) = p /\ \A i \in 1 .. p : popped[i] = s[R + i]
         /\ Indexed(tk) /\ Len(tk) = t /\ \A i \in 1 .. t : tk[i] = s[B + i]
         /\ Indexed(rest) /\ Len(rest) = R /\ \A i \in 1 .. R : rest[i] = s[i]
         /\ Indexed(left) /\ Len(left) = B /\ \A i \in 1 .. B : left[i] = s[i]
         /\ UpTo(Owned(s), Len(s)) = UpTo(Owned(s), R) + Cardinality(Owned(popped))
         /\ UpTo(Owned(s), R) = UpTo(Owned(s), B) + UpTo(Owned(tk), t)
         /\ UpTo(Owned(tk), t) \in Nat /\ UpTo(Owned(s), R) \in Nat
         /\ UpTo(Owned(s), B) \in Nat /\ Cardinality(Owned(popped)) \in Nat
<1>0. /\ Indexed(s) /\ p \in Nat /\ t \in Nat /\ p + t <= Len(s)
      /\ R = Len(s) - p /\ B = R - t
      /\ popped = TopN(s, p) /\ rest = Below(s, p) /\ tk = TopN(rest, t) /\ left = Below(rest, t)
  BY DEF Taking
<1>1. PICK L \in Nat : L = Len(s)
  BY <1>0 DEF Indexed
<1>2. R \in Nat /\ R = L - p
  BY <1>0, <1>1
<1>3. B \in Nat /\ B = R - t
  BY <1>0, <1>1
<1>4. Cut(s, p, popped, rest, R)
  <2>1. p \in 0 .. Len(s)
    BY <1>0, <1>1
  <2> QED BY <1>0, <1>1, <1>2, <2>1 DEF Cut
<1>5. /\ Indexed(popped) /\ Len(popped) = p /\ \A i \in 1 .. p : popped[i] = s[R + i]
      /\ Indexed(rest) /\ Len(rest) = R /\ \A i \in 1 .. R : rest[i] = s[i]
      /\ UpTo(Owned(s), Len(s)) = UpTo(Owned(s), R) + UpTo(Owned(popped), p)
      /\ UpTo(Owned(s), R) \in Nat /\ UpTo(Owned(popped), p) \in Nat
      /\ UpTo(Owned(popped), p) = Cardinality(Owned(popped))
  BY ONLY <1>4, CutIs
<1>6. Cut(rest, t, tk, left, B)
  <2>1. t \in 0 .. Len(rest)
    BY <1>0, <1>1, <1>2, <1>5
  <2> QED BY <1>0, <1>3, <1>5, <2>1 DEF Cut
<1>7. /\ Indexed(tk) /\ Len(tk) = t /\ \A i \in 1 .. t : tk[i] = rest[B + i]
      /\ Indexed(left) /\ Len(left) = B /\ \A i \in 1 .. B : left[i] = rest[i]
      /\ UpTo(Owned(rest), Len(rest)) = UpTo(Owned(rest), B) + UpTo(Owned(tk), t)
      /\ UpTo(Owned(rest), B) \in Nat /\ UpTo(Owned(tk), t) \in Nat
  BY ONLY <1>6, CutIs
<1>8. \A i \in 1 .. t : tk[i] = s[B + i]
  <2>1. \A i \in 1 .. t : B + i \in 1 .. R
    BY <1>0, <1>3
  <2> QED BY <1>5, <1>7, <2>1
<1>9. \A i \in 1 .. B : left[i] = s[i]
  <2>1. \A i \in 1 .. B : i \in 1 .. R
    BY <1>0, <1>3
  <2> QED BY <1>5, <1>7, <2>1
<1>10. UpTo(Owned(rest), R) = UpTo(Owned(s), R) /\ UpTo(Owned(rest), B) = UpTo(Owned(s), B)
  <2>2. PICK z \in Nat : z = 0
    OBVIOUS
  <2>3. z \in Nat /\ R \in Nat /\ Part(rest, s, z, R)
    <3>1. z + R <= Len(s) /\ R <= Len(rest) /\ R \in Nat
      BY <1>0, <1>1, <1>2, <1>5, <2>2
    <3>2. \A i \in 1 .. R : i = z + i
      BY <2>2
    <3>3. \A i \in 1 .. R : rest[i] = s[z + i]
      BY <1>5, <3>2
    <3> QED BY <1>0, <1>5, <2>2, <3>1, <3>3 DEF Part
  <2>4. \A k \in 0 .. R : UpTo(Owned(s), z + k) = UpTo(Owned(s), z) + UpTo(Owned(rest), k)
    BY ONLY <2>3, PartCounts
  <2>5. UpTo(Owned(s), z) = 0
    BY <1>0, <2>2, OwnedIs
  <2>6. R \in 0 .. R /\ B \in 0 .. R /\ z + R = R /\ z + B = B
    BY <1>0, <1>3, <2>2
  <2>7. UpTo(Owned(rest), R) \in Nat /\ UpTo(Owned(rest), B) \in Nat
    BY <1>2, <1>3, <1>5, OwnedIs
  <2> QED BY <2>4, <2>5, <2>6, <2>7
<1>11. UpTo(Owned(s), R) = UpTo(Owned(s), B) + UpTo(Owned(tk), t)
  BY <1>5, <1>7, <1>10
<1>12. UpTo(Owned(s), B) \in Nat
  BY <1>7, <1>10
<1> QED BY ONLY <1>2, <1>3, <1>5, <1>7, <1>8, <1>9, <1>11, <1>12

LEMMA BeginStep ==
  ASSUME Compiled(code), initial_stack_height \in 0 .. MaxHeight,
         NEW h, NEW N, BetweenUnits(h, N), Begin
  PROVE  IInv'
<1>1. PICK w : w = abstract_stack
  OBVIOUS
<1>2. PICK e : e = Emits(unit.op, unit.arg)
  OBVIOUS
<1>3. PICK L \in Nat : L = Len(w)
  BY <1>1, AtUnit
<1>4. PICK op, arg : op = unit.op /\ arg = unit.arg
  OBVIOUS
<1>5. /\ Size(code) \in Nat /\ vpc \in 0 .. Size(code) - 1 /\ Indexed(w)
      /\ stack_height = UpTo(Owned(w), L)
  BY <1>1, <1>3, AtUnit
<1>6. op \notin Moves /\ op \in Supported /\ arg \in Nat
  BY <1>4, <1>5, SizeIs DEF Begin, unit
<1>7. Emitted(op, e)
  BY <1>2, <1>4, <1>6, EmittedAre
<1>8. /\ e.pop \in Nat /\ e.take \in Nat /\ e.keep \in Nat /\ e.push \in Nat
      /\ e.always = 0 \/ (op = "CALL_FUNCTION_EX" /\ e.always = 1)
  BY <1>7 DEF Emitted
<1>9. PICK p \in Nat, t \in Nat : p = e.pop /\ t = e.take
  BY <1>8
<1>10. PICK rest : rest = Below(w, p)
  OBVIOUS
<1>11. PICK popped, tk, left : popped = TopN(w, p) /\ tk = TopN(rest, t) /\ left = Below(rest, t)
  OBVIOUS
<1>12. L >= p + t + e.keep /\ Legal(op, arg)
  BY <1>1, <1>2, <1>3, <1>4, <1>9 DEF Begin
<1>13. /\ operands' = popped /\ taken' = tk
       /\ abstract_stack' = IF e.blind THEN rest ELSE left
       /\ stack_height' = stack_height - Cardinality(Owned(popped)) - t
       /\ phase' = "call"
  BY <1>1, <1>2, <1>9, <1>10, <1>11 DEF Begin
<1>14. /\ code' = code /\ initial_stack_height' = initial_stack_height
       /\ redundant_loads' = redundant_loads /\ stack_effect' = stack_effect
       /\ vpc' = vpc /\ sp' = sp /\ slot' = slot /\ fast' = fast
  BY DEF Begin, Kept, analysis
<1>15. refs' = refs
  <2>1. e.early = FALSE
    BY <1>7 DEF Emitted
  <2> QED BY <1>2, <2>1 DEF Begin
<1>16. PICK R, B : R = L - p /\ B = R - t
  OBVIOUS
<1>17. /\ R \in Nat /\ B \in Nat
       /\ Indexed(popped) /\ Len(popped) = p /\ \A i \in 1 .. p : popped[i] = w[R + i]
       /\ Indexed(tk) /\ Len(tk) = t /\ \A i \in 1 .. t : tk[i] = w[B + i]
       /\ Indexed(rest) /\ Len(rest) = R /\ \A i \in 1 .. R : rest[i] = w[i]
       /\ Indexed(left) /\ Len(left) = B /\ \A i \in 1 .. B : left[i] = w[i]
       /\ UpTo(Owned(w), Len(w)) = UpTo(Owned(w), R) + Cardinality(Owned(popped))
       /\ UpTo(Owned(w), R) = UpTo(Owned(w), B) + UpTo(Owned(tk), t)
       /\ UpTo(Owned(tk), t) \in Nat /\ UpTo(Owned(w), R) \in Nat
       /\ UpTo(Owned(w), B) \in Nat /\ Cardinality(Owned(popped)) \in Nat
  <2>1. p + t <= L
    BY <1>8, <1>12
  <2>2. Taking(w, p, t, popped, rest, tk, left, R, B)
    BY <1>3, <1>5, <1>9, <1>10, <1>11, <1>16, <2>1 DEF Taking
  <2> QED BY ONLY <2>2, TakingIs
<1>18. \A i \in 1 .. t : tk[i].really_pushed
  <2> SUFFICES ASSUME NEW i \in 1 .. t PROVE tk[i].really_pushed
    OBVIOUS
  <2>1. t > 0
    OBVIOUS
  <2>2. \A j \in 1 .. t : w[L - t + j].really_pushed
    BY <1>1, <1>2, <1>3, <1>4, <1>6, <1>9, <1>12, <2>1, HandedOver
  <2>3. p = 0
    <3>1. t = 0 \/ p + e.keep = 0
      BY <1>7, <1>9 DEF Emitted
    <3> QED BY <1>8, <2>1, <3>1
  <2>4. B + i = L - t + i
    BY <1>16, <2>3
  <2> QED BY <1>17, <2>2, <2>4
<1>19. UpTo(Owned(tk), t) = t
  BY <1>17, <1>18, AllPushed
<1>20. stack_height' = UpTo(Owned(w), B) /\ sp \in stack_height' .. UpTo(Owned(w), L)
  <2>1. UpTo(Owned(w), L) = UpTo(Owned(w), B) + t + Cardinality(Owned(popped))
    BY <1>3, <1>17, <1>19
  <2>2. stack_height' = UpTo(Owned(w), B)
    <3>1. PICK C \in Nat, D \in Nat : C = Cardinality(Owned(popped)) /\ D = UpTo(Owned(w), B)
      BY <1>17
    <3>2. stack_height = D + t + C
      BY <1>5, <2>1, <3>1
    <3>3. stack_height' = stack_height - C - t
      BY <1>13, <3>1
    <3>4. D \in Nat /\ t \in Nat /\ C \in Nat
      OBVIOUS
    <3> QED BY ONLY <3>1, <3>2, <3>3, <3>4
  <2>3. sp = UpTo(Owned(w), L)
    BY <1>5 DEF BetweenUnits
  <2> QED BY <1>17, <2>1, <2>2, <2>3, SMTT(30)
<1>21. Takes(w, e)'
  <2>1. /\ Len(w) - e.pop = R /\ Len(w) - e.pop - e.take = B
    BY <1>3, <1>9, <1>16
  <2>2. /\ Indexed(operands') /\ Len(operands') = e.pop
        /\ \A i \in 1 .. e.pop : operands'[i] = w[Len(w) - e.pop + i]
    BY <1>9, <1>13, <1>17, <2>1
  <2>3. /\ Indexed(taken') /\ Len(taken') = e.take
        /\ \A i \in 1 .. e.take : /\ taken'[i] = w[Len(w) - e.pop - e.take + i]
                                  /\ taken'[i].really_pushed
    BY <1>9, <1>13, <1>17, <1>18, <2>1
  <2>4. /\ Indexed(abstract_stack')
        /\ Len(abstract_stack') = IF e.blind THEN Len(w) - e.pop ELSE Len(w) - e.pop - e.take
        /\ \A i \in 1 .. Len(abstract_stack') : abstract_stack'[i] = w[i]
    <3>1. CASE e.blind
      BY <1>13, <1>17, <2>1, <3>1
    <3>2. CASE ~e.blind
      BY <1>13, <1>17, <2>1, <3>2
    <3> QED BY <3>1, <3>2
  <2>5. Len(w) >= e.pop + e.take + e.keep
    BY <1>3, <1>9, <1>12
  <2>6. /\ stack_height' = UpTo(Owned(w), Len(w) - e.pop - e.take)
        /\ sp' \in stack_height' .. UpTo(Owned(w), Len(w))
    BY <1>3, <1>14, <1>20, <2>1
  <2> QED BY <2>2, <2>3, <2>4, <2>5, <2>6 DEF Takes
<1>22. Checked(op, w, e)'
  <2>1. L - (e.pop + e.take + e.keep) + e.push <= MaxHeight
    BY <1>1, <1>2, <1>3, <1>4, <1>12 DEF Legal
  <2>2. \A i : i = 1 => w[L - i + 1] = w[L]
    BY <1>3
  <2>3. e.always = 1 => w[L].really_pushed
    <3> SUFFICES ASSUME e.always = 1 PROVE w[L].really_pushed
      OBVIOUS
    <3>1. op = "CALL_FUNCTION_EX"
      BY <1>8
    <3>2. e = [Pop(2 + Bit(arg, 1), 1) EXCEPT !.always = Bit(arg, 1)]
      BY <1>2, <1>4, <3>1, EmitsOfSome
    <3>3. Bit(arg, 1) = 1
      BY ONLY <3>2, e.always = 1 DEF Pop, Plain
    <3>4. w[L - 1 + 1].really_pushed
      BY <1>1, <1>3, <1>12, <3>1, <3>3 DEF Legal
    <3> QED BY <2>2, <3>4
  <2>4. op = "FOR_ITER" => L >= 1 /\ w[L].really_pushed
    <3> SUFFICES ASSUME op = "FOR_ITER" PROVE L >= 1 /\ w[L].really_pushed
      OBVIOUS
    <3>1. L >= 1 /\ w[L - 1 + 1].really_pushed
      BY <1>1, <1>3, <1>12 DEF Legal
    <3> QED BY <2>2, <3>1
  <2>5. op = "YIELD_FROM" => w[L - 1].really_pushed
    <3> SUFFICES ASSUME op = "YIELD_FROM" PROVE w[L - 1].really_pushed
      OBVIOUS
    <3>1. w[L - 2 + 1].really_pushed
      BY <1>1, <1>3, <1>12 DEF Legal
    <3>2. L - 2 + 1 = L - 1
      OBVIOUS
    <3> QED BY <3>1, <3>2
  <2>6. op = "UNPACK_SEQUENCE" => ~w[L].really_pushed /\ sp' = stack_height'
    <3> SUFFICES ASSUME op = "UNPACK_SEQUENCE"
                 PROVE ~w[L].really_pushed /\ sp' = stack_height'
      OBVIOUS
    <3>1. L >= 1 /\ ~w[L].really_pushed
      BY <1>1, <1>3, <1>4 DEF BetweenUnits
    <3>2. e = Pop(1, arg)
      BY <1>2, <1>4, EmitsOfSome
    <3>3. e.pop = 1 /\ e.take = 0
      BY ONLY <3>2 DEF Pop, Plain
    <3>4. L \in 1 .. Len(w) /\ B = L - 1
      BY <1>3, <1>9, <1>16, <3>1, <3>3
    <3>5. UpTo(Owned(w), L) = UpTo(Owned(w), L - 1) + 0 /\ UpTo(Owned(w), L - 1) \in Nat
      <4>1. /\ UpTo(Owned(w), L)
                 = UpTo(Owned(w), L - 1) + IF w[L].really_pushed THEN 1 ELSE 0
            /\ UpTo(Owned(w), L - 1) \in Nat
        BY <1>5, <3>4, CountOne
      <4> QED BY <3>1, <4>1
    <3>6. sp' = UpTo(Owned(w), L)
      BY <1>5, <1>14 DEF BetweenUnits
    <3>7. stack_height' = UpTo(Owned(w), L - 1)
      BY <1>20, <3>4
    <3> QED BY <3>1, <3>5, <3>6, <3>7
  <2> QED BY <1>3, <2>1, <2>3, <2>4, <2>5, <2>6 DEF Checked
<1>23. Before(code, h, w, vpc, slot, fast, refs, N, Total)'
  <2>1. Before(code, h, w, vpc, slot, fast, refs, N, Total)
    BY <1>1 DEF BetweenUnits
  <2> QED BY <1>14, <1>15, <2>1 DEF Total
<1>24. Known(h)'
  <2>1. Known(h)
    BY DEF BetweenUnits
  <2> QED BY <1>14, <2>1 DEF Known
<1>25. unit' = unit
  BY <1>14 DEF unit
<1>26. InUnit(h, N, w)'
  <2>1. unit'.op = op /\ unit'.arg = arg
    BY <1>4, <1>25
  <2>2. phase' = "call" /\ vpc' \in 0 .. Size(code') - 1
    BY <1>5, <1>13, <1>14
  <2>3. e = Emits(unit'.op, unit'.arg)
    BY <1>2, <1>25
  <2> QED BY <1>6, <1>21, <1>22, <1>23, <1>24, <2>1, <2>2, <2>3 DEF InUnit
<1>27. Compiled(code)' /\ (initial_stack_height \in 0 .. MaxHeight)'
  BY <1>14
<1> QED BY <1>26, <1>27 DEF IInv

-----------------------------------------------------------------------------
(* The call raises, or the iterator is exhausted.                          *)

\* What the steps of an instruction being run find.
LEMMA AtCall ==
  ASSUME Compiled(code), NEW h, NEW N, NEW w, InUnit(h, N, w),
         NEW e, e = Emits(unit.op, unit.arg)
  PROVE  /\ Size(code) \in Nat /\ vpc \in 0 .. Size(code) - 1 /\ vpc \in Nat /\ vpc + 1 \in Nat
         /\ unit.op \in Supported \ Moves /\ unit.arg \in Nat
         /\ Emitted(unit.op, e)
         /\ e.pop \in Nat /\ e.take \in Nat /\ e.keep \in Nat /\ e.push \in Nat
         /\ Takes(w, e) /\ Checked(unit.op, w, e)
         /\ Analysed(code, h, 0) /\ Known(h)
         /\ Backed(w, slot, fast, refs, N) /\ Lasts(code, w, h[vpc].until, vpc, fast)
         /\ Len(w) + h[vpc].effect = Total
         /\ Indexed(w) /\ Len(w) \in Nat /\ DOMAIN w = 1 .. Len(w)
         /\ N \in Nat /\ N >= 1
         /\ DOMAIN refs = 1 .. N /\ DOMAIN fast = Local /\ \A x \in Local : fast[x] \in 0 .. N
         /\ \A o \in 1 .. N : refs[o] \in Int
         /\ sp \in Nat /\ sp <= UpTo(Owned(w), Len(w)) /\ stack_height \in Nat
<1>1. /\ Size(code) \in Nat /\ vpc \in 0 .. Size(code) - 1 /\ vpc \in Nat /\ vpc + 1 \in Nat
  BY SizeIs DEF InUnit
<1>2. unit.op \in Supported \ Moves /\ unit.arg \in Nat
  BY <1>1, SizeIs DEF InUnit, unit
<1>3. Emitted(unit.op, e)
  BY <1>2, EmittedAre
<1>4. e.pop \in Nat /\ e.take \in Nat /\ e.keep \in Nat /\ e.push \in Nat
  BY <1>3 DEF Emitted
<1>5. /\ Takes(w, e) /\ Checked(unit.op, w, e) /\ Known(h)
      /\ Before(code, h, w, vpc, slot, fast, refs, N, Total)
  BY DEF InUnit
<1>6. Analysed(code, h, 0)
  BY <1>5 DEF Known
<1>7. /\ Backed(w, slot, fast, refs, N) /\ Lasts(code, w, h[vpc].until, vpc, fast)
      /\ Len(w) + h[vpc].effect = Total
  BY <1>5 DEF Before
<1>8. /\ Indexed(w) /\ N \in Nat /\ N >= 1
      /\ DOMAIN refs = 1 .. N /\ DOMAIN fast = Local /\ \A x \in Local : fast[x] \in 0 .. N
      /\ \A o \in 1 .. N : refs[o] \in Int
  BY <1>7 DEF Backed
<1>9. Len(w) \in Nat /\ DOMAIN w = 1 .. Len(w)
  BY <1>8 DEF Indexed
<1>10. /\ stack_height = UpTo(Owned(w), Len(w) - e.pop - e.take)
       /\ sp \in stack_height .. UpTo(Owned(w), Len(w)) /\ Len(w) >= e.pop + e.take + e.keep
  BY <1>5 DEF Takes
<1>11. stack_height \in Nat /\ UpTo(Owned(w), Len(w)) \in Nat
  <2>1. Len(w) - e.pop - e.take \in Nat
    BY <1>4, <1>9, <1>10
  <2> QED BY <1>8, <1>9, <1>10, <2>1, OwnedIs
<1>12. sp \in Nat /\ sp <= UpTo(Owned(w), Len(w))
  BY <1>10, <1>11
<1> QED BY <1>1, <1>2, <1>3, <1>4, <1>5, <1>6, <1>7, <1>8, <1>9, <1>11, <1>12

\* An object that is not there yet is nowhere.
LEMMA NewObject ==
  ASSUME NEW s, NEW f, NEW fs, NEW r, NEW N, Backed(s, f, fs, r, N), NEW o \in Nat, o > N
  PROVE  /\ \A k \in Nat : UpTo(Mine(s, o), k) = 0
         /\ InLocals(fs, o) = 0 /\ Own(o) = 0
<1>1. N \in Nat /\ N >= 1 /\ Indexed(s) /\ \A i \in 1 .. Len(s) : s[i].value \in 1 .. N
  BY DEF Backed
<1>2. Mine(s, o) = {}
  <2>1. \A i \in 1 .. Len(s) : s[i].value # o
    BY <1>1
  <2>2. \A i \in Mine(s, o) : i \in 1 .. Len(s) /\ s[i].value = o
    BY <1>1 DEF Mine, Owned, Indexed
  <2> QED BY <2>1, <2>2
<1>3. \A k \in Nat : UpTo(Mine(s, o), k) = 0
  BY <1>2, FS_EmptySet DEF UpTo
<1>4. InLocals(fs, o) = 0
  <2>1. \A x \in Local : fs[x] \in 0 .. N
    BY DEF Backed
  <2>2. {x \in Local : fs[x] = o} = {}
    BY <1>1, <2>1
  <2> QED BY <2>2, FS_EmptySet DEF InLocals
<1>5. Own(o) = 0
  BY <1>1 DEF Own, Const
<1> QED BY <1>3, <1>4, <1>5

\* Nothing on the stack changes, and an object comes that nothing holds.
More(s, f, fs, r, N, g, q) ==
  /\ Backed(s, f, fs, r, N)
  /\ DOMAIN g = 1 .. MaxHeight /\ \A i \in 1 .. UpTo(Owned(s), Len(s)) : g[i] = f[i]
  /\ DOMAIN q = 1 .. N + 1 /\ (\A o \in 1 .. N : q[o] = r[o]) /\ q[N + 1] = 0

LEMMA BackedMore ==
  ASSUME NEW s, NEW f, NEW fs, NEW r, NEW N, NEW g, NEW q, More(s, f, fs, r, N, g, q)
  PROVE  Backed(s, g, fs, q, N + 1)
<1>0. /\ Backed(s, f, fs, r, N)
      /\ DOMAIN g = 1 .. MaxHeight /\ \A i \in 1 .. UpTo(Owned(s), Len(s)) : g[i] = f[i]
      /\ DOMAIN q = 1 .. N + 1 /\ (\A o \in 1 .. N : q[o] = r[o]) /\ q[N + 1] = 0
  BY DEF More
<1> USE <1>0
<1>1. /\ N \in Nat /\ N >= 1 /\ DOMAIN r = 1 .. N
      /\ Indexed(s) /\ Len(s) <= MaxHeight /\ DOMAIN f = 1 .. MaxHeight /\ Placed(s, f)
      /\ \A i \in 1 .. Len(s) : s[i].value \in 1 .. N
      /\ DOMAIN fs = Local /\ \A x \in Local : fs[x] \in 0 .. N
      /\ \A o \in 1 .. N :
           r[o] \in Int /\ r[o] >= UpTo(Mine(s, o), Len(s)) + InLocals(fs, o) + Own(o)
  BY DEF Backed
<1>2. Len(s) \in Nat /\ N + 1 \in Nat /\ N + 1 >= 1
  BY <1>1 DEF Indexed
<1>3. Placed(s, g)
  <2> SUFFICES ASSUME NEW i \in Owned(s) PROVE g[UpTo(Owned(s), i)] = s[i].value
    BY DEF Placed
  <2>1. i \in 1 .. Len(s) /\ \A k \in Nat : i <= k => UpTo(Owned(s), i) \in 1 .. UpTo(Owned(s), k)
    BY <1>1, PlaceIs
  <2>2. i <= Len(s)
    BY <1>2, <2>1
  <2>3. UpTo(Owned(s), i) \in 1 .. UpTo(Owned(s), Len(s))
    BY <1>2, <2>1, <2>2
  <2>4. f[UpTo(Owned(s), i)] = s[i].value
    BY <1>1 DEF Placed
  <2> QED BY <2>3, <2>4
<1>4. \A i \in 1 .. Len(s) : s[i].value \in 1 .. N + 1
  BY <1>1
<1>5. \A x \in Local : fs[x] \in 0 .. N + 1
  BY <1>1
<1>6. ASSUME NEW o \in 1 .. N + 1
      PROVE  q[o] \in Int /\ q[o] >= UpTo(Mine(s, o), Len(s)) + InLocals(fs, o) + Own(o)
  <2>1. CASE o \in 1 .. N
    BY <1>1, <2>1
  <2>2. CASE o \notin 1 .. N
    <3>1. o = N + 1 /\ o \in Nat /\ o > N
      BY <1>1, <2>2
    <3>2. UpTo(Mine(s, o), Len(s)) = 0 /\ InLocals(fs, o) = 0 /\ Own(o) = 0
      BY <1>2, <3>1, NewObject
    <3> QED BY <3>1, <3>2
  <2> QED BY <2>1, <2>2
<1> QED BY <1>1, <1>2, <1>3, <1>4, <1>5, <1>6 DEF Backed

LEMMA RaiseStep ==
  ASSUME Compiled(code), initial_stack_height \in 0 .. MaxHeight,
         NEW h, NEW N, NEW w, InUnit(h, N, w), Raise
  PROVE  IInv'
<1>1. PICK e : e = Emits(unit.op, unit.arg)
  OBVIOUS
<1>2. /\ Takes(w, e) /\ Checked(unit.op, w, e) /\ Backed(w, slot, fast, refs, N)
      /\ sp \in Nat /\ sp <= UpTo(Owned(w), Len(w)) /\ N \in Nat /\ DOMAIN refs = 1 .. N
      /\ stack_height \in Nat /\ e.take \in Nat
  BY <1>1, AtCall
<1>3. /\ phase' = "raised" /\ code' = code /\ initial_stack_height' = initial_stack_height
      /\ sp' = sp /\ fast' = fast /\ taken' = taken
  BY DEF Raise, Kept
<1>4. TakenAreOwned'
  <2>1. Indexed(taken) /\ Len(taken) = e.take /\ \A i \in 1 .. e.take : taken[i].really_pushed
    BY <1>2 DEF Takes
  <2> QED BY <1>3, <2>1 DEF TakenAreOwned, Indexed
<1>5. HeightsAgree'
  BY <1>3 DEF HeightsAgree
<1>6. depth' = sp /\ depth' \in Nat
  BY <1>2, <1>3 DEF depth
<1>7. \E M : Backed(w, slot', fast', refs', M)
  <2>1. CASE UNCHANGED <<slot, refs>>
    BY <1>2, <1>3, <2>1
  <2>2. CASE /\ unit.op = "UNPACK_SEQUENCE" /\ unit.arg > 0
             /\ LET item == Cardinality(DOMAIN refs) + 1
                IN  /\ refs' = [o \in DOMAIN refs \cup {item} |-> IF o = item THEN 0 ELSE refs[o]]
                    /\ slot' = [slot EXCEPT ![stack_height + 1] = item]
    <3>1. Cardinality(DOMAIN refs) = N
      <4>1. Cardinality(1 .. N) = N
        BY <1>2, FS_Interval
      <4> QED BY <1>2, <4>1
    <3>2. /\ refs' = [o \in (1 .. N) \cup {N + 1} |-> IF o = N + 1 THEN 0 ELSE refs[o]]
          /\ slot' = [slot EXCEPT ![stack_height + 1] = N + 1]
      BY <1>2, <2>2, <3>1
    <3>3. (1 .. N) \cup {N + 1} = 1 .. N + 1 /\ \A o \in 1 .. N : o # N + 1
      BY <1>2
    <3>4. DOMAIN refs' = 1 .. N + 1 /\ refs'[N + 1] = 0 /\ \A o \in 1 .. N : refs'[o] = refs[o]
      BY <3>2, <3>3
    <3>5. sp = stack_height /\ UpTo(Owned(w), Len(w)) = stack_height
      <4>1. PICK L \in Nat : L = Len(w)
        BY <1>1, AtCall
      <4>2. sp = stack_height /\ ~w[L].really_pushed
        BY <1>2, <2>2, <4>1 DEF Checked
      <4>3. e = Pop(1, unit.arg)
        BY <1>1, <2>2, EmitsOfSome
      <4>4. e.pop = 1 /\ e.take = 0
        BY ONLY <4>3 DEF Pop, Plain
      <4>5. L >= e.pop + e.take + e.keep /\ stack_height = UpTo(Owned(w), L - e.pop - e.take)
        BY <1>2, <4>1 DEF Takes
      <4>6. L \in 1 .. Len(w) /\ L - e.pop - e.take = L - 1
        <5>1. e.keep \in Nat
          BY <1>1, AtCall
        <5> QED BY <4>1, <4>4, <4>5, <5>1
      <4>7. Indexed(w)
        BY <1>2 DEF Backed
      <4>8. /\ UpTo(Owned(w), L) = UpTo(Owned(w), L - 1) + IF w[L].really_pushed THEN 1 ELSE 0
            /\ UpTo(Owned(w), L - 1) \in Nat
        BY <4>6, <4>7, CountOne
      <4> QED BY <4>1, <4>2, <4>5, <4>6, <4>8
    <3>6. DOMAIN slot' = 1 .. MaxHeight /\ \A i \in 1 .. stack_height : slot'[i] = slot[i]
      <4>1. DOMAIN slot = 1 .. MaxHeight
        BY <1>2 DEF Backed
      <4>2. \A i \in 1 .. stack_height : i # stack_height + 1
        BY <1>2
      <4>3. UpTo(Owned(w), Len(w)) <= Len(w) /\ Len(w) <= MaxHeight /\ Len(w) \in Nat
        <5>1. Indexed(w) /\ Len(w) <= MaxHeight
          BY <1>2 DEF Backed
        <5>2. Len(w) \in 0 .. Len(w) /\ Len(w) \in Nat
          BY <5>1 DEF Indexed
        <5>3. UpTo(Owned(w), Len(w)) \in 0 .. Len(w)
          BY <5>1, <5>2, HeightIs
        <5> QED BY <5>1, <5>2, <5>3
      <4>4. \A i \in 1 .. stack_height : i \in 1 .. MaxHeight
        BY <1>2, <3>5, <4>3, NumbersAssumption
      <4> QED BY <3>2, <4>1, <4>2, <4>4
    <3>7. Backed(w, slot', fast, refs', N + 1)
      <4>1. More(w, slot, fast, refs, N, slot', refs')
        BY <1>2, <3>4, <3>5, <3>6 DEF More
      <4> QED BY ONLY <4>1, BackedMore
    <3> QED BY <1>3, <3>7
  <2> QED BY <2>1, <2>2 DEF Raise
<1>8. PICK M : Backed(w, slot', fast', refs', M)
  BY <1>7
<1>9. Left'
  BY <1>2, <1>3, <1>4, <1>5, <1>6, <1>8, LeftIs
<1> QED BY <1>3, <1>9 DEF IInv

\* What is on the stack for good when the last unit is begun.
LEMMA AtLast ==
  ASSUME NEW c, Compiled(c), NEW h, Analysed(c, h, 0), NEW v \in 0 .. Size(c) - 1,
         v + 1 = Size(c), NEW row, row = RowAt(c, h, v), NEW s, Indexed(s), NEW fs,
         Lasts(c, s, h[v].until, v, fs)
  PROVE  /\ \A i \in 1 .. Len(s) - Len(row.marks) : s[i].really_pushed
         /\ h[v].effect = row.undo - Len(row.marks) /\ row.undo \in Nat /\ Len(row.marks) \in Nat
<1>1. Size(c) \in Nat /\ Size(c) < Forever
  BY SizeIs
<1>2. /\ row.undo \in Nat /\ row.marks \in Seq(Nat) /\ Len(row.marks) \in Nat
      /\ h[v].until = Without(h[v + 1].until, row.undo) \o row.marks
      /\ h[v].effect = h[v + 1].effect + row.undo - Len(row.marks)
  <2>1. LET m == RowAt(c, h, v)
        IN  /\ m.undo \in Nat /\ m.marks \in Seq(Nat)
            /\ h[v].until = Without(h[v + 1].until, m.undo) \o m.marks
            /\ h[v].effect = h[v + 1].effect + m.undo - Len(m.marks)
    BY Zenon DEF Analysed
  <2>2. /\ row.undo \in Nat /\ row.marks \in Seq(Nat)
        /\ h[v].until = Without(h[v + 1].until, row.undo) \o row.marks
        /\ h[v].effect = h[v + 1].effect + row.undo - Len(row.marks)
    BY <2>1, Zenon
  <2> QED BY <2>2
<1>3. h[v + 1].until = <<>> /\ h[v + 1].effect = 0
  BY DEF Analysed
<1>4. h[v].until = row.marks
  <2>1. Without(h[v + 1].until, row.undo) = <<>>
    BY <1>2, <1>3 DEF Without
  <2> QED BY <1>2, <2>1
<1>5. ASSUME NEW i \in 1 .. Len(s) - Len(row.marks) PROVE s[i].really_pushed
  <2>1. Len(s) \in Nat
    BY DEF Indexed
  <2>2. i \in 1 .. Len(s) /\ ~(Len(row.marks) - Len(s) + i >= 1)
    BY <1>2, <2>1
  <2>3. Due(h[v].until, Len(s), i) = Forever
    BY <1>4, <2>2 DEF Due
  <2>4. Lasting(c, s[i], Forever, v, fs)
    BY <2>2, <2>3 DEF Lasts
  <2>5. ~(Forever < Size(c))
    BY <1>1, NumbersAssumption
  <2> QED BY <2>4, <2>5 DEF Lasting
<1>6. h[v].effect = row.undo - Len(row.marks)
  BY <1>2, <1>3
<1> QED BY <1>2, <1>5, <1>6

LEMMA ExhaustStep ==
  ASSUME Compiled(code), initial_stack_height \in 0 .. MaxHeight,
         NEW h, NEW N, NEW w, InUnit(h, N, w), Exhaust
  PROVE  IInv'
<1>1. PICK e : e = Emits(unit.op, unit.arg)
  OBVIOUS
<1>2. /\ Takes(w, e) /\ Checked(unit.op, w, e) /\ Backed(w, slot, fast, refs, N)
      /\ N \in Nat /\ DOMAIN refs = 1 .. N /\ \A o \in 1 .. N : refs[o] \in Int
      /\ Indexed(w) /\ Len(w) \in Nat /\ Len(w) + h[vpc].effect = Total
      /\ Size(code) \in Nat /\ vpc \in 0 .. Size(code) - 1 /\ vpc \in Nat
      /\ Analysed(code, h, 0) /\ Lasts(code, w, h[vpc].until, vpc, fast)
      /\ DOMAIN fast = Local /\ \A x \in Local : fast[x] \in 0 .. N
  BY <1>1, AtCall
<1>3. PICK L \in Nat : L = Len(w)
  BY <1>2
<1>4. unit.op = "FOR_ITER" /\ code[vpc].op = "FOR_ITER"
  BY DEF Exhaust, unit
<1>5. e.pop = 0 /\ e.take = 0 /\ e.blind = FALSE
  <2>1. e = Pop(0, 1)
    BY <1>1, <1>4, EmitsOfSome
  <2> QED BY ONLY <2>1 DEF Pop, Plain
<1>6. vpc + 1 = Size(code)
  <2>1. vpc = Size(code) - 1
    BY <1>2, <1>4, SizeIs DEF Ending
  <2> QED BY <1>2, <2>1
<1>7. PICK row : row = RowAt(code, h, vpc)
  OBVIOUS
<1>8. row.undo = 1 /\ Len(row.marks) = 0
  <2> SUFFICES ASSUME NEW op, op = "FOR_ITER", NEW n, NEW u, NEW v, row = Assumes(op, n, u, v)
               PROVE  row.undo = 1 /\ Len(row.marks) = 0
    BY <1>4, <1>7 DEF RowAt
  <2>1. \A i, j \in 1 .. 9 : op \in Families[i] /\ op \in Families[j] => i = j
    BY OneFamily
  <2>2. op \in JumpOps /\ op \notin PopJumps /\ op \notin OrPopJumps
    BY DEF JumpOps, PopJumps, OrPopJumps
  <2>3. Assumes(op, n, u, v) = AssumesJump(op, v)
    BY <2>1, <2>2 DEF Assumes, Families
  <2>4. row = Row(1, <<>>)
    BY <2>2, <2>3 DEF AssumesJump
  <2> QED BY ONLY <2>4 DEF Row
<1>9. /\ \A i \in 1 .. L : w[i].really_pushed
      /\ L + 1 = Total
  <2>1. /\ \A i \in 1 .. Len(w) - Len(row.marks) : w[i].really_pushed
        /\ h[vpc].effect = row.undo - Len(row.marks)
    BY <1>2, <1>6, <1>7, AtLast
  <2>2. h[vpc].effect = 1 /\ Len(w) - Len(row.marks) = L
    BY <1>3, <1>8, <2>1
  <2> QED BY <1>2, <1>3, <2>1, <2>2
<1>10. L >= 1 /\ Indexed(abstract_stack) /\ Len(abstract_stack) = L
       /\ \A i \in 1 .. L : abstract_stack[i] = w[i]
  <2>1. L >= 1
    BY <1>2, <1>3, <1>4 DEF Checked
  <2>2. /\ Indexed(abstract_stack) /\ Len(abstract_stack) = Len(w) - e.pop
        /\ \A i \in 1 .. Len(abstract_stack) : abstract_stack[i] = w[i]
    BY <1>2, <1>5 DEF Takes
  <2> QED BY <1>3, <1>5, <2>1, <2>2
<1>11. UpTo(Owned(w), L) = L /\ stack_height = L
  <2>1. UpTo(Owned(w), L) = L
    BY <1>2, <1>3, <1>9, AllPushed
  <2>2. stack_height = UpTo(Owned(w), Len(w) - e.pop - e.take)
    BY <1>2 DEF Takes
  <2> QED BY <1>3, <1>5, <2>1, <2>2
<1>12. PICK iter : iter = w[L].value
  OBVIOUS
<1>13. L \in 1 .. Len(w)
  BY <1>3, <1>10
<1>14. /\ code' = code /\ initial_stack_height' = initial_stack_height
       /\ stack_effect' = stack_effect /\ taken' = taken
       /\ slot' = slot /\ fast' = fast /\ phase' = "branched" /\ stack_height' = L - 1
       /\ refs' = [refs EXCEPT ![iter] = @ - 1]
  <2>1. L \in 1 .. L /\ abstract_stack[Len(abstract_stack)] = w[L]
    BY <1>10
  <2> QED BY <1>11, <1>12, <2>1 DEF Exhaust, Kept, analysis
<1>15. PICK a : a = Below(w, 1)
  OBVIOUS
<1>16. Joined(a, w, L - 1, <<>>) /\ Len(a) = L - 1 /\ UpTo(Owned(a), Len(a)) = UpTo(Owned(w), L - 1)
  <2>1. PICK k \in Nat : k = 1
    OBVIOUS
  <2>2. Indexed(w) /\ k \in 0 .. Len(w) /\ a = Below(w, k)
    BY <1>2, <1>3, <1>10, <1>15, <2>1
  <2>3. /\ Len(a) = Len(w) - k /\ Joined(a, w, Len(w) - k, <<>>)
        /\ UpTo(Owned(a), Len(a)) = UpTo(Owned(w), Len(w) - k)
    BY ONLY <2>2, BelowIs
  <2> QED BY <1>3, <2>1, <2>3
<1>17. UpTo(Owned(w), L) = UpTo(Owned(w), L - 1) + 1 /\ UpTo(Owned(w), L - 1) \in Nat
  <2>1. /\ UpTo(Owned(w), L) = UpTo(Owned(w), L - 1) + IF w[L].really_pushed THEN 1 ELSE 0
        /\ UpTo(Owned(w), L - 1) \in Nat
    BY <1>2, <1>13, CountOne
  <2> QED BY <1>9, <1>13, <2>1
<1>18. Backed(a, slot, fast, refs', N)
  <2>1. PICK t : t = <<>>
    OBVIOUS
  <2>2. Indexed(t) /\ Len(t) = 0 /\ Owned(t) = {} /\ \A o : UpTo(Mine(t, o), 0) = 0
    BY <2>1, NoneOwned
  <2>3. Len(a) <= MaxHeight /\ DOMAIN slot = 1 .. MaxHeight
    <3>1. Len(w) <= MaxHeight /\ DOMAIN slot = 1 .. MaxHeight
      BY <1>2 DEF Backed
    <3> QED BY <1>3, <1>16, <3>1, NumbersAssumption
  <2>4. DOMAIN refs' = 1 .. N
    BY <1>2, <1>14
  <2>5. ASSUME NEW o \in 1 .. N
        PROVE  /\ refs'[o] \in Int
               /\ refs'[o] >= UpTo(Mine(w, o), L - 1) + UpTo(Mine(t, o), Len(t))
                                + InLocals(fast, o) + Own(o)
    <3>1. refs[o] \in Int /\ refs[o] >= UpTo(Mine(w, o), L) + InLocals(fast, o) + Own(o)
      BY <1>2, <1>3 DEF Backed
    <3>2. /\ UpTo(Mine(w, o), L) = UpTo(Mine(w, o), L - 1)
                                     + IF w[L].really_pushed /\ w[L].value = o THEN 1 ELSE 0
          /\ UpTo(Mine(w, o), L - 1) \in Nat
      BY <1>2, <1>13, CountOne
    <3>3. UpTo(Mine(t, o), Len(t)) = 0 /\ InLocals(fast, o) \in Nat /\ Own(o) \in Nat
      BY <2>2, InLocalsType DEF Own
    <3>4. CASE iter = o
      <4>1. refs'[o] = refs[o] - 1
        BY <1>2, <1>14, <3>4
      <4>2. UpTo(Mine(w, o), L) = UpTo(Mine(w, o), L - 1) + 1
        BY <1>9, <1>12, <1>13, <3>2, <3>4
      <4> QED BY <3>1, <3>2, <3>3, <4>1, <4>2
    <3>5. CASE iter # o
      <4>1. refs'[o] = refs[o]
        BY <1>2, <1>14, <3>5
      <4>2. UpTo(Mine(w, o), L) = UpTo(Mine(w, o), L - 1)
        BY <1>12, <3>2, <3>5
      <4> QED BY <3>1, <3>2, <3>3, <4>1, <4>2
    <3> QED BY <3>4, <3>5
  <2>6. Rebacked(a, w, L - 1, t, slot, fast, refs, N, slot, fast, refs', N)
    BY <1>2, <1>16, <2>1, <2>2, <2>3, <2>4, <2>5 DEF Rebacked
  <2> QED BY <2>6, BackedJoined
<1>19. HeightsAgree'
  <2>1. code_instr_num' = vpc + 1 /\ code_instr_num' - 1 = vpc
    BY <1>2, <1>6, <1>14 DEF code_instr_num, Size
  <2>2. code'[code_instr_num' - 1].op = "FOR_ITER"
    BY <1>4, <1>14, <2>1
  <2>3. branch_stack_difference(code'[code_instr_num' - 1].op) = -2
    <3> SUFFICES ASSUME NEW op, op = "FOR_ITER" PROVE branch_stack_difference(op) = -2
      BY <2>2
    <3> QED BY DEF branch_stack_difference, OrPopJumps
  <2>4. initial_stack_height' + stack_effect' = L + 1
    BY <1>9, <1>14 DEF Total
  <2>5. stack_height' = (L + 1) + (-2)
    BY <1>14
  <2> QED BY <1>14, <2>3, <2>4, <2>5 DEF HeightsAgree
<1>20. TakenAreOwned'
  <2>1. Indexed(taken) /\ Len(taken) = e.take /\ \A i \in 1 .. e.take : taken[i].really_pushed
    BY <1>2 DEF Takes
  <2> QED BY <1>14, <2>1 DEF TakenAreOwned, Indexed
<1>21. depth' = L - 1 /\ depth' \in Nat /\ depth' <= UpTo(Owned(a), Len(a))
  BY <1>10, <1>11, <1>14, <1>16, <1>17 DEF depth
<1>22. Backed(a, slot', fast', refs', N) /\ phase' \in {"fell", "branched", "returned", "raised"}
  BY <1>14, <1>18
<1>23. Left'
  BY <1>19, <1>20, <1>21, <1>22, LeftIs
<1> QED BY <1>14, <1>23 DEF IInv

-----------------------------------------------------------------------------
(* The frame is left in the middle of `yield from`.                        *)

\* a is s with the value on top replaced by one the stack owns.
Topped(a, s, L, val) ==
  Indexed(s) /\ L = Len(s) /\ L >= 1 /\ a = [i \in 1 .. L |-> IF i = L THEN val ELSE s[i]]

LEMMA ToppedIs ==
  ASSUME NEW s, NEW a, NEW L, NEW val, Topped(a, s, L, val), NEW t, t = <<val>>
  PROVE  /\ L \in Nat /\ Indexed(a) /\ Len(a) = L /\ a[L] = val /\ \A i \in 1 .. L - 1 : a[i] = s[i]
         /\ Joined(a, s, L - 1, t)
<1>1. L \in Nat /\ L >= 1 /\ L = Len(s) /\ a = [i \in 1 .. L |-> IF i = L THEN val ELSE s[i]]
  BY DEF Topped, Indexed
<1>2. Len(a) = L /\ DOMAIN a = 1 .. L /\ Indexed(a)
  BY <1>1 DEF Indexed
<1>3. a[L] = val
  BY <1>1
<1>4. \A i \in 1 .. L - 1 : a[i] = s[i]
  BY <1>1
<1>5. Indexed(t) /\ Len(t) = 1 /\ t[1] = val
  BY Single
<1>6. L - 1 \in 0 .. Len(s) /\ Len(a) = L - 1 + Len(t) /\ L - 1 + 1 = L
  BY <1>1, <1>2, <1>5
<1>7. \A i \in 1 .. Len(t) : a[L - 1 + i] = t[i]
  BY <1>3, <1>5, <1>6
<1>8. Joined(a, s, L - 1, t)
  BY <1>2, <1>4, <1>5, <1>6, <1>7 DEF Joined, Topped
<1> QED BY <1>1, <1>2, <1>3, <1>4, <1>8

LEMMA SuspendStep ==
  ASSUME Compiled(code), initial_stack_height \in 0 .. MaxHeight,
         NEW h, NEW N, NEW w, InUnit(h, N, w), Suspend
  PROVE  IInv'
<1>1. PICK e : e = Emits(unit.op, unit.arg)
  OBVIOUS
<1>2. /\ Takes(w, e) /\ Checked(unit.op, w, e) /\ Known(h) /\ Backed(w, slot, fast, refs, N)
      /\ N \in Nat /\ N >= 1 /\ DOMAIN refs = 1 .. N /\ \A o \in 1 .. N : refs[o] \in Int
      /\ Indexed(w) /\ Len(w) \in Nat /\ Len(w) + h[vpc].effect = Total
      /\ Size(code) \in Nat /\ vpc \in 0 .. Size(code) - 1 /\ vpc \in Nat
      /\ Lasts(code, w, h[vpc].until, vpc, fast)
      /\ DOMAIN fast = Local /\ \A x \in Local : fast[x] \in 0 .. N
      /\ unit.op \in Supported \ Moves /\ sp \in Nat /\ stack_height \in Nat
  BY <1>1, AtCall
<1>3. PICK L \in Nat : L = Len(w)
  BY <1>2
<1>4. unit.op = "YIELD_FROM" /\ phase = "call"
  BY DEF Suspend
<1>5. e.pop = 2 /\ e.take = 0 /\ e.keep = 0 /\ e.push = 1 /\ e.always = 0 /\ e.blind = FALSE
  <2>1. e = Pop(2, 1)
    BY <1>1, <1>4, EmitsOfSome
  <2> QED BY ONLY <2>1 DEF Pop, Plain
<1>6. /\ L >= 2 /\ Indexed(operands) /\ Len(operands) = 2
      /\ operands[1] = w[L - 1] /\ operands[2] = w[L]
      /\ Indexed(taken) /\ Len(taken) = 0
      /\ Indexed(abstract_stack) /\ Len(abstract_stack) = L - 2
      /\ \A i \in 1 .. L - 2 : abstract_stack[i] = w[i]
      /\ stack_height = UpTo(Owned(w), L - 2)
      /\ sp \in stack_height .. UpTo(Owned(w), L)
  <2>1. /\ L >= e.pop + e.take + e.keep /\ Indexed(operands) /\ Len(operands) = e.pop
        /\ \A i \in 1 .. e.pop : operands[i] = w[L - e.pop + i]
        /\ Indexed(taken) /\ Len(taken) = e.take
        /\ Indexed(abstract_stack) /\ Len(abstract_stack) = L - e.pop
        /\ \A i \in 1 .. Len(abstract_stack) : abstract_stack[i] = w[i]
        /\ stack_height = UpTo(Owned(w), L - e.pop - e.take)
        /\ sp \in stack_height .. UpTo(Owned(w), L)
    BY <1>2, <1>3, <1>5 DEF Takes
  <2>2. L - e.pop - e.take = L - 2 /\ L - e.pop + 1 = L - 1 /\ L - e.pop + 2 = L
        /\ 1 \in 1 .. e.pop /\ 2 \in 1 .. e.pop
    BY <1>5
  <2>3. operands[1] = w[L - 1] /\ operands[2] = w[L]
    BY <2>1, <2>2
  <2> QED BY <1>5, <2>1, <2>2, <2>3
<1>7. w[L - 1].really_pushed
  BY <1>2, <1>3, <1>4 DEF Checked
<1>8. L - 1 \in 1 .. Len(w) /\ L \in 1 .. Len(w) /\ L - 1 - 1 = L - 2 /\ L - 1 \in Nat
      /\ L - 2 \in Nat
  BY <1>3, <1>6
<1>9. UpTo(Owned(w), L - 1) = stack_height + 1
  <2>1. UpTo(Owned(w), L - 1)
          = UpTo(Owned(w), L - 1 - 1) + IF w[L - 1].really_pushed THEN 1 ELSE 0
    BY <1>2, <1>8, CountOne
  <2> QED BY <1>6, <1>7, <1>8, <2>1
<1>10. PICK top : top = w[L]
  OBVIOUS
<1>11. PICK val : val = Pushed(Const)
  OBVIOUS
<1>12. val.really_pushed /\ val.value = Const /\ Const \in 1 .. N
  <2>1. val.really_pushed /\ val.value = Const
    BY <1>11 DEF Pushed
  <2> QED BY <1>2, <2>1 DEF Const
<1>13. PICK a : a = [i \in 1 .. L |-> IF i = L THEN val ELSE w[i]]
  OBVIOUS
<1>14. PICK t : t = <<val>>
  OBVIOUS
<1>15. /\ Indexed(a) /\ Len(a) = L /\ a[L] = val /\ \A i \in 1 .. L - 1 : a[i] = w[i]
       /\ Joined(a, w, L - 1, t)
  <2>1. Topped(a, w, L, val) /\ t = <<val>>
    BY <1>2, <1>3, <1>6, <1>13, <1>14 DEF Topped
  <2> QED BY ONLY <2>1, ToppedIs
<1>16. /\ Indexed(t) /\ Len(t) = 1 /\ t[1] = val /\ Owned(t) = {1} /\ UpTo(Owned(t), 1) = 1
       /\ \A o : UpTo(Mine(t, o), 1) = IF o = Const THEN 1 ELSE 0
  BY <1>12, <1>14, Single
<1>17. /\ code' = code /\ initial_stack_height' = initial_stack_height
       /\ stack_effect' = stack_effect /\ redundant_loads' = redundant_loads /\ taken' = taken
       /\ phase' = phase /\ vpc' = vpc /\ abstract_stack' = abstract_stack
       /\ stack_height' = stack_height /\ sp' = sp /\ fast' = fast
       /\ slot' = [slot EXCEPT ![stack_height + 2] = Const]
       /\ operands' = <<w[L - 1], val>>
  BY <1>6, <1>11 DEF Suspend, Kept, analysis
<1>18. /\ DOMAIN refs' = 1 .. N
       /\ \A o \in 1 .. N :
            refs'[o] = refs[o] - (IF top.really_pushed /\ top.value = o THEN 1 ELSE 0)
                                         + (IF o = Const THEN 1 ELSE 0)
  BY <1>2, <1>6, <1>10 DEF Suspend
<1>19. L <= MaxHeight /\ DOMAIN slot = 1 .. MaxHeight /\ stack_height <= L - 2
  <2>1. L <= MaxHeight /\ DOMAIN slot = 1 .. MaxHeight
    BY <1>2, <1>3 DEF Backed
  <2>2. UpTo(Owned(w), L - 2) \in 0 .. L - 2
    <3>1. L - 2 \in 0 .. Len(w)
      BY <1>3, <1>8
    <3> QED BY <1>2, <3>1, HeightIs
  <2> QED BY <1>6, <1>8, <2>1, <2>2
<1>20. /\ DOMAIN slot' = 1 .. MaxHeight /\ slot'[stack_height + 2] = Const
       /\ \A i \in 1 .. stack_height + 1 : slot'[i] = slot[i]
  <2>1. stack_height + 2 \in 1 .. MaxHeight
    BY <1>2, <1>3, <1>19, NumbersAssumption
  <2>2. \A i \in 1 .. stack_height + 1 : i # stack_height + 2 /\ i \in 1 .. MaxHeight
    BY <1>2, <1>19, NumbersAssumption
  <2> QED BY <1>17, <1>19, <2>1, <2>2
<1>21. Backed(a, slot', fast, refs', N)
  <2>1. Len(a) <= MaxHeight
    BY <1>15, <1>19
  <2>2. \A i \in 1 .. UpTo(Owned(w), L - 1) : slot'[i] = slot[i]
    BY <1>9, <1>20
  <2>3. \A k \in Owned(t) : slot'[UpTo(Owned(w), L - 1) + UpTo(Owned(t), k)] = t[k].value
    <3>1. stack_height + 1 + 1 = stack_height + 2
      BY <1>2
    <3> QED BY <1>9, <1>12, <1>16, <1>20, <3>1
  <2>4. \A k \in 1 .. Len(t) : t[k].value \in 1 .. N
    BY <1>12, <1>16
  <2>5. ASSUME NEW o \in 1 .. N
        PROVE  /\ refs'[o] \in Int
               /\ refs'[o] >= UpTo(Mine(w, o), L - 1) + UpTo(Mine(t, o), Len(t))
                                + InLocals(fast, o) + Own(o)
    <3>1. refs[o] \in Int /\ refs[o] >= UpTo(Mine(w, o), L) + InLocals(fast, o) + Own(o)
      BY <1>2, <1>3 DEF Backed
    <3>2. /\ UpTo(Mine(w, o), L) = UpTo(Mine(w, o), L - 1)
                                     + IF top.really_pushed /\ top.value = o THEN 1 ELSE 0
          /\ UpTo(Mine(w, o), L - 1) \in Nat
      BY <1>2, <1>8, <1>10, CountOne
    <3>3. InLocals(fast, o) \in Nat /\ Own(o) \in Nat
      BY InLocalsType DEF Own
    <3>4. PICK l \in {0, 1}, g \in {0, 1} :
            /\ l = IF top.really_pushed /\ top.value = o THEN 1 ELSE 0
            /\ g = IF o = Const THEN 1 ELSE 0
      OBVIOUS
    <3>5. UpTo(Mine(t, o), Len(t)) = g
      BY <1>16, <3>4
    <3>6. refs'[o] = refs[o] - l + g
      BY <1>18, <3>4
    <3>7. UpTo(Mine(w, o), L) = UpTo(Mine(w, o), L - 1) + l
      BY <3>2, <3>4
    <3> QED BY <3>1, <3>2, <3>3, <3>4, <3>5, <3>6, <3>7, SMTT(30)
  <2>6. Rebacked(a, w, L - 1, t, slot, fast, refs, N, slot', fast, refs', N)
    BY <1>2, <1>15, <1>18, <1>20, <2>1, <2>2, <2>3, <2>4, <2>5 DEF Rebacked
  <2> QED BY <2>6, BackedJoined
<1>22. Lasts(code, a, h[vpc].until, vpc, fast)
  <2> SUFFICES ASSUME NEW i \in 1 .. Len(a)
               PROVE  Lasting(code, a[i], Due(h[vpc].until, Len(a), i), vpc, fast)
    BY DEF Lasts
  <2>1. CASE i = L
    BY <1>12, <1>15, <2>1 DEF Lasting
  <2>2. CASE i # L
    <3>1. i \in 1 .. L - 1 /\ i \in 1 .. Len(w)
      BY <1>3, <1>15, <2>2
    <3>2. a[i] = w[i] /\ Len(a) = Len(w)
      BY <1>3, <1>15, <3>1
    <3> QED BY <1>2, <3>1, <3>2 DEF Lasts
  <2> QED BY <2>1, <2>2
<1>23. Before(code, h, a, vpc, slot, fast, refs, N, Total)'
  <2>1. Len(a) + h[vpc].effect = Total
    BY <1>2, <1>3, <1>15
  <2> QED BY <1>17, <1>21, <1>22, <2>1 DEF Before, Total
<1>24. /\ UpTo(Owned(a), L - 2) = UpTo(Owned(w), L - 2)
       /\ UpTo(Owned(a), L) = UpTo(Owned(w), L - 1) + 1
  <2>1. /\ \A i \in 0 .. L - 1 : UpTo(Owned(a), i) = UpTo(Owned(w), i)
        /\ \A k \in 0 .. Len(t) :
             UpTo(Owned(a), L - 1 + k) = UpTo(Owned(w), L - 1) + UpTo(Owned(t), k)
    <3>1. PICK m, o : m = L - 1 /\ o = Const
      OBVIOUS
    <3>2. Joined(a, w, m, t)
      BY <1>15, <3>1
    <3>3. /\ \A i \in 0 .. m : UpTo(Owned(a), i) = UpTo(Owned(w), i)
          /\ \A k \in 0 .. Len(t) :
               UpTo(Owned(a), m + k) = UpTo(Owned(w), m) + UpTo(Owned(t), k)
      <4>1. /\ \A i \in 0 .. m : /\ UpTo(Owned(a), i) = UpTo(Owned(w), i)
                                 /\ UpTo(Mine(a, o), i) = UpTo(Mine(w, o), i)
            /\ \A k \in 0 .. Len(t) :
                 /\ UpTo(Owned(a), m + k) = UpTo(Owned(w), m) + UpTo(Owned(t), k)
                 /\ UpTo(Mine(a, o), m + k) = UpTo(Mine(w, o), m) + UpTo(Mine(t, o), k)
        BY ONLY <3>2, JoinedCounts
      <4> QED BY ONLY <4>1
    <3> QED BY ONLY <3>1, <3>3
  <2>2. L - 2 \in 0 .. L - 1 /\ 1 \in 0 .. Len(t) /\ L - 1 + 1 = L
    BY <1>8, <1>16
  <2> QED BY <1>16, <2>1, <2>2
<1>25. sp \in stack_height .. UpTo(Owned(a), L)
  <2>1. UpTo(Owned(w), L) <= UpTo(Owned(w), L - 1) + 1
    <3>1. UpTo(Owned(w), L) = UpTo(Owned(w), L - 1) + IF w[L].really_pushed THEN 1 ELSE 0
      BY <1>2, <1>8, CountOne
    <3> QED BY <1>2, <1>9, <3>1
  <2>2. UpTo(Owned(w), L) \in Nat
    BY <1>2, <1>3, OwnedIs
  <2> QED BY <1>2, <1>6, <1>9, <1>24, <2>1, <2>2, SMTT(30)
<1>26. Takes(a, e)'
  <2>1. /\ Len(a) - e.pop - e.take = L - 2 /\ Len(a) - e.pop = L - 2
        /\ Len(a) >= e.pop + e.take + e.keep
    BY <1>5, <1>6, <1>15
  <2>2. Indexed(operands') /\ Len(operands') = 2 /\ operands'[1] = a[L - 1] /\ operands'[2] = a[L]
    <3>1. L - 1 \in 1 .. L - 1
      BY <1>8
    <3>2. a[L - 1] = w[L - 1]
      BY <1>15, <3>1
    <3>3. Indexed(operands') /\ Len(operands') = 2
      BY <1>17 DEF Indexed
    <3>4. operands'[1] = w[L - 1] /\ operands'[2] = val
      BY <1>17
    <3> QED BY <1>15, <3>2, <3>3, <3>4
  <2>3. \A i \in 1 .. e.pop : operands'[i] = a[Len(a) - e.pop + i]
    <3>1. \A i \in 1 .. 2 : i = 1 \/ i = 2
      OBVIOUS
    <3>2. L - 2 + 1 = L - 1 /\ L - 2 + 2 = L
      OBVIOUS
    <3> QED BY <1>5, <2>1, <2>2, <3>1, <3>2
  <2>4. \A i \in 1 .. e.take : /\ taken'[i] = a[Len(a) - e.pop - e.take + i]
                               /\ taken'[i].really_pushed
    BY <1>5
  <2>5. /\ Indexed(abstract_stack') /\ Len(abstract_stack') = L - 2
        /\ \A i \in 1 .. Len(abstract_stack') : abstract_stack'[i] = a[i]
    <3>1. \A i \in 1 .. L - 2 : i \in 1 .. L - 1
      BY <1>8
    <3> QED BY <1>6, <1>15, <1>17, <3>1
  <2>6. Len(abstract_stack') = IF e.blind THEN Len(a) - e.pop ELSE Len(a) - e.pop - e.take
    BY <1>5, <2>1, <2>5
  <2>7. /\ stack_height' = UpTo(Owned(a), Len(a) - e.pop - e.take)
        /\ sp' \in stack_height' .. UpTo(Owned(a), Len(a))
    BY <1>6, <1>15, <1>17, <1>24, <1>25, <2>1
  <2>8. /\ Indexed(operands') /\ Len(operands') = e.pop
        /\ Indexed(taken') /\ Len(taken') = e.take
    BY <1>5, <1>6, <1>17, <2>2
  <2> QED BY <2>1, <2>3, <2>4, <2>5, <2>6, <2>7, <2>8 DEF Takes
<1>27. Checked("YIELD_FROM", a, e)'
  <2>1. a[L - 1].really_pushed
    <3>1. L - 1 \in 1 .. L - 1
      BY <1>8
    <3> QED BY <1>7, <1>15, <3>1
  <2>2. L - (e.pop + e.take + e.keep) + e.push <= MaxHeight
    BY <1>2, <1>3 DEF Checked
  <2>3. ~(e.always = 1)
    BY <1>5
  <2> QED BY <1>15, <2>1, <2>2, <2>3 DEF Checked
<1>28. Known(h)'
  BY <1>2, <1>17 DEF Known
<1>29. InUnit(h, N, a)'
  <2>1. unit' = unit
    BY <1>17 DEF unit
  <2>2. phase' = "call" /\ vpc' \in 0 .. Size(code') - 1
    BY <1>2, <1>4, <1>17
  <2>3. e = Emits(unit'.op, unit'.arg) /\ unit'.op = "YIELD_FROM" /\ unit'.op \notin Moves
    BY <1>1, <1>2, <1>4, <2>1
  <2> QED BY <1>23, <1>26, <1>27, <1>28, <2>2, <2>3 DEF InUnit
<1>30. Compiled(code)' /\ (initial_stack_height \in 0 .. MaxHeight)'
  BY <1>17
<1> QED BY <1>29, <1>30 DEF IInv

-----------------------------------------------------------------------------
(* The instruction completes.                                              *)

\* Values counted at some places of a stack.
Places(s, S) == Indexed(s) /\ S \in SUBSET (1 .. Len(s))

LEMMA CountIs ==
  ASSUME NEW s, NEW S, Places(s, S), NEW o
  PROVE  /\ Count(s, S, o) \in Nat
         /\ S \subseteq Owned(s) => Count(s, S, o) <= UpTo(Mine(s, o), Len(s))
         /\ S = Owned(s) => Count(s, S, o) = UpTo(Mine(s, o), Len(s))
         /\ UpTo(Mine(s, o), Len(s)) \in Nat
<1>1. Indexed(s) /\ S \in SUBSET (1 .. Len(s)) /\ Len(s) \in Nat
  BY DEF Places, Indexed
<1>2. PICK X, Y : X = {i \in S : s[i].value = o} /\ Y = Mine(s, o)
  OBVIOUS
<1>3. IsFiniteSet(1 .. Len(s))
  BY <1>1, FS_Interval
<1>4. X \subseteq 1 .. Len(s) /\ Y \subseteq 1 .. Len(s)
  BY <1>1, <1>2, OwnedIs
<1>5. IsFiniteSet(X) /\ IsFiniteSet(Y)
  BY <1>3, <1>4, FS_Subset
<1>6. Cardinality(X) \in Nat
  BY <1>5, FS_CardinalityType
<1>7. Count(s, S, o) = Cardinality(X)
  BY <1>2 DEF Count
<1>8. UpTo(Mine(s, o), Len(s)) = Cardinality(Y) /\ UpTo(Mine(s, o), Len(s)) \in Nat
  <2>1. Mine(s, o) \in SUBSET (1 .. Len(s)) /\ UpTo(Mine(s, o), Len(s)) \in Nat
    BY <1>1, OwnedIs
  <2> QED BY <1>1, <1>2, <2>1, UpToAll
<1>9. S \subseteq Owned(s) => Cardinality(X) <= Cardinality(Y)
  <2> SUFFICES ASSUME S \subseteq Owned(s) PROVE Cardinality(X) <= Cardinality(Y)
    OBVIOUS
  <2>1. X \subseteq Y
    BY <1>2 DEF Mine
  <2> QED BY <1>5, <2>1, FS_Subset
<1>10. S = Owned(s) => Cardinality(X) = Cardinality(Y)
  <2> SUFFICES ASSUME S = Owned(s) PROVE Cardinality(X) = Cardinality(Y)
    OBVIOUS
  <2>1. X = Y
    BY <1>2 DEF Mine
  <2> QED BY <2>1
<1> QED BY <1>6, <1>7, <1>8, <1>9, <1>10

\* New objects N + 1 .. N + q pushed.
Fresh(T, q, N) == q \in Nat /\ N \in Nat /\ T = [i \in 1 .. q |-> Pushed(N + i)]

LEMMA FreshAre ==
  ASSUME NEW T, NEW q, NEW N, Fresh(T, q, N)
  PROVE  /\ Indexed(T) /\ Len(T) = q
         /\ \A i \in 1 .. q : T[i].really_pushed /\ T[i].value = N + i
         /\ Owned(T) = 1 .. q /\ \A k \in 1 .. q : UpTo(Owned(T), k) = k
         /\ UpTo(Owned(T), Len(T)) = q
         /\ \A o \in 1 .. N : UpTo(Mine(T, o), Len(T)) = 0
         /\ \A o \in N + 1 .. N + q : UpTo(Mine(T, o), Len(T)) = 1
<1>0. q \in Nat /\ N \in Nat /\ T = [i \in 1 .. q |-> Pushed(N + i)]
  BY DEF Fresh
<1>1. Len(T) = q /\ DOMAIN T = 1 .. q /\ Indexed(T)
  BY <1>0 DEF Indexed
<1>2. \A i \in 1 .. q : T[i].really_pushed /\ T[i].value = N + i
  BY <1>0 DEF Pushed
<1>3. Owned(T) = 1 .. q
  BY <1>1, <1>2 DEF Owned
<1>4. ASSUME NEW k \in 0 .. q PROVE UpTo(Owned(T), k) = k
  <2>1. k \in Nat /\ k <= q
    BY <1>0
  <2>2. {j \in 1 .. q : j <= k} = 1 .. k
    BY <1>0, <2>1
  <2>3. Cardinality(1 .. k) = k
    BY <2>1, FS_Interval
  <2> QED BY <1>3, <2>2, <2>3 DEF UpTo
<1>5. q \in 0 .. q /\ \A k \in 1 .. q : k \in 0 .. q
  BY <1>0
<1>6. \A o : Mine(T, o) = {i \in 1 .. q : N + i = o} /\ Mine(T, o) \in SUBSET (1 .. q)
  BY <1>2, <1>3 DEF Mine
<1>7. \A o : UpTo(Mine(T, o), q) = Cardinality(Mine(T, o))
  BY <1>0, <1>6, UpToAll
<1>8. Cardinality({}) = 0 /\ \A x : Cardinality({x}) = 1
  BY FS_EmptySet, FS_Singleton
<1>9. ASSUME NEW o \in 1 .. N PROVE UpTo(Mine(T, o), q) = 0
  <2>1. \A i \in 1 .. q : N + i # o
    BY <1>0
  <2>2. Mine(T, o) = {}
    BY <1>6, <2>1
  <2> QED BY <1>7, <1>8, <2>2
<1>10. ASSUME NEW o \in N + 1 .. N + q PROVE UpTo(Mine(T, o), q) = 1
  <2>1. o - N \in 1 .. q /\ N + (o - N) = o /\ \A i \in 1 .. q : N + i = o => i = o - N
    BY <1>0
  <2>2. PICK x : x = o - N
    OBVIOUS
  <2>3. Mine(T, o) = {x}
    BY <1>6, <2>1, <2>2
  <2>4. Cardinality({x}) = 1
    BY <1>8
  <2> QED BY <1>7, <2>3, <2>4
<1> QED BY <1>1, <1>2, <1>3, <1>4, <1>5, <1>9, <1>10

\* What an instruction that completes releases, it owned.
LEMMA ReleasedAre ==
  ASSUME Compiled(code), NEW h, NEW N, NEW w, InUnit(h, N, w)
  PROVE  /\ Places(operands, Released) /\ Released \subseteq Owned(operands)
<1>1. PICK e : e = Emits(unit.op, unit.arg)
  OBVIOUS
<1>2. Takes(w, e) /\ Checked(unit.op, w, e) /\ Emitted(unit.op, e) /\ e.pop \in Nat
      /\ Len(w) \in Nat /\ e.take \in Nat /\ e.keep \in Nat
  BY <1>1, AtCall
<1>3. /\ Indexed(operands) /\ Len(operands) = e.pop
      /\ \A i \in 1 .. e.pop : operands[i] = w[Len(w) - e.pop + i]
      /\ Len(w) >= e.pop + e.take + e.keep
  BY <1>2 DEF Takes
<1>4. DOMAIN operands = 1 .. e.pop
  BY <1>3 DEF Indexed
<1>5. Released \in SUBSET (1 .. e.pop)
  BY <1>4 DEF Released
<1>6. ASSUME NEW i \in Released PROVE i \in Owned(operands)
  <2>1. /\ i \in 1 .. e.pop
        /\ \/ i > e.pop - e.always
           \/ operands[i].really_pushed
    BY <1>1, <1>3, <1>4 DEF Released
  <2>2. CASE i > e.pop - e.always
    <3>1. e.always = 1 /\ e.pop = 3
      <4>1. e.always = 0 \/ (e.always = 1 /\ e.pop = 3)
        BY <1>2 DEF Emitted
      <4> QED BY <1>2, <2>1, <2>2, <4>1
    <3>2. i = 3 /\ Len(w) - e.pop + i = Len(w)
      BY <1>2, <2>1, <2>2, <3>1
    <3>3. w[Len(w)].really_pushed
      BY <1>2, <3>1 DEF Checked
    <3>4. operands[i] = w[Len(w)]
      BY <1>3, <2>1, <3>2
    <3> QED BY <1>4, <2>1, <3>3, <3>4 DEF Owned
  <2>3. CASE operands[i].really_pushed
    BY <1>4, <2>1, <2>3 DEF Owned
  <2> QED BY <2>1, <2>2, <2>3
<1> QED BY <1>3, <1>5, <1>6 DEF Places

\* Of L values on the stack, m are left under those given away, B under those taken and
\* R under those popped.
Spots(e, L, R, B, m) ==
  /\ e.pop \in Nat /\ e.take \in Nat /\ e.keep \in Nat
  /\ L \in Nat /\ R \in Nat /\ B \in Nat /\ m \in Nat
  /\ R + e.pop = L /\ B + e.take = R /\ m + e.keep = B

LEMMA SpotsAre ==
  ASSUME Compiled(code), NEW h, NEW N, NEW w, InUnit(h, N, w),
         NEW e, e = Emits(unit.op, unit.arg)
  PROVE  \E R, B, m : Spots(e, Len(w), R, B, m)
<1>1. Takes(w, e) /\ Len(w) \in Nat /\ e.pop \in Nat /\ e.take \in Nat /\ e.keep \in Nat
  BY AtCall
<1>2. Len(w) >= e.pop + e.take + e.keep
  BY <1>1 DEF Takes
<1>3. PICK L \in Nat, p \in Nat, t \in Nat, k \in Nat :
        L = Len(w) /\ p = e.pop /\ t = e.take /\ k = e.keep
  BY <1>1
<1>4. L >= p + t + k
  BY <1>2, <1>3
<1>5. /\ L - p \in Nat /\ L - p - t \in Nat /\ L - p - t - k \in Nat
      /\ L - p + p = L /\ L - p - t + t = L - p /\ L - p - t - k + k = L - p - t
  BY <1>4
<1>6. Spots(e, L, L - p, L - p - t, L - p - t - k)
  BY <1>3, <1>5 DEF Spots
<1> QED BY <1>3, <1>6

\* Where what the instruction took was on the stack.
LEMMA TakenFrom ==
  ASSUME Compiled(code), NEW h, NEW N, NEW w, InUnit(h, N, w),
         NEW e, e = Emits(unit.op, unit.arg), NEW R, NEW B, NEW m, Spots(e, Len(w), R, B, m),
         NEW moved, moved = TopN(abstract_stack, e.keep)
  PROVE  /\ Part(operands, w, R, e.pop) /\ Len(operands) = e.pop
         /\ Part(taken, w, B, e.take) /\ Len(taken) = e.take
         /\ Owned(taken) = DOMAIN taken
         /\ Part(moved, w, m, e.keep) /\ Len(moved) = e.keep
         /\ stack_height = UpTo(Owned(w), B)
<1>1. /\ Takes(w, e) /\ Emitted(unit.op, e) /\ Indexed(w)
  BY AtCall
<1>2. PICK L \in Nat, p \in Nat, t \in Nat, k \in Nat :
        L = Len(w) /\ p = e.pop /\ t = e.take /\ k = e.keep
  BY DEF Spots
<1>3. /\ R \in Nat /\ B \in Nat /\ m \in Nat
      /\ R + p = L /\ B + t = R /\ m + k = B
  BY <1>2 DEF Spots
<1>4. /\ L - p = R /\ L - p - t = B
      /\ R + p <= Len(w) /\ B + t <= Len(w) /\ m + k <= Len(w) /\ p <= p /\ t <= t /\ k <= k
  <2>1. R + p <= L /\ B + t <= L /\ m + k <= L /\ L - p = R /\ L - p - t = B
    BY ONLY <1>3, p \in Nat, t \in Nat, k \in Nat, L \in Nat
  <2>2. p <= p /\ t <= t /\ k <= k
    OBVIOUS
  <2> QED BY ONLY <1>2, <2>1, <2>2
<1>5. /\ Indexed(operands) /\ Len(operands) = p
      /\ \A i \in 1 .. p : operands[i] = w[R + i]
      /\ Indexed(taken) /\ Len(taken) = t
      /\ \A i \in 1 .. t : taken[i] = w[B + i] /\ taken[i].really_pushed
      /\ Indexed(abstract_stack)
      /\ Len(abstract_stack) = IF e.blind THEN R ELSE B
      /\ \A i \in 1 .. Len(abstract_stack) : abstract_stack[i] = w[i]
      /\ stack_height = UpTo(Owned(w), B)
  BY <1>1, <1>2, <1>4 DEF Takes
<1>6. Part(operands, w, R, p)
  <2>1. R + p <= Len(w) /\ p <= Len(operands)
    BY ONLY <1>4, <1>5
  <2> QED BY <1>1, <1>3, <1>5, <2>1 DEF Part
<1>7. Part(taken, w, B, t)
  <2>1. B + t <= Len(w) /\ t <= Len(taken)
    BY ONLY <1>4, <1>5
  <2> QED BY <1>1, <1>3, <1>5, <2>1 DEF Part
<1>8. Owned(taken) = DOMAIN taken
  BY <1>5 DEF Owned, Indexed
<1>9. PICK A : A = Len(abstract_stack)
  OBVIOUS
<1>10. A \in Nat /\ A >= B
  BY <1>3, <1>5, <1>9
<1>11. k \in 0 .. A
  BY <1>3, <1>10
<1>12. /\ Indexed(moved) /\ Len(moved) = k
       /\ \A i \in 1 .. k : moved[i] = abstract_stack[A - k + i]
  <2>1. Indexed(abstract_stack) /\ k \in 0 .. Len(abstract_stack) /\ moved = TopN(abstract_stack, k)
    BY <1>2, <1>5, <1>9, <1>11
  <2>2. /\ Indexed(moved) /\ Len(moved) = k
        /\ \A i \in 1 .. k : moved[i] = abstract_stack[Len(abstract_stack) - k + i]
    BY ONLY <2>1, TopIs
  <2> QED BY <1>9, <2>2
<1>13. \A i \in 1 .. k : moved[i] = w[m + i]
  <2> SUFFICES ASSUME NEW i \in 1 .. k PROVE moved[i] = w[m + i]
    OBVIOUS
  <2>1. t = 0
    <3>1. t = 0 \/ p + k = 0
      BY <1>1, <1>2 DEF Emitted
    <3> QED BY <3>1
  <2>2. A = B
    <3>1. A = R \/ A = B
      BY <1>5, <1>9
    <3> QED BY <1>3, <2>1, <3>1
  <2>3. i \in Int /\ i >= 1 /\ i <= k
    OBVIOUS
  <2>4. A - k + i = m + i /\ m + i \in 1 .. A
    BY <1>3, <2>2, <2>3
  <2>5. \A j \in 1 .. A : abstract_stack[j] = w[j]
    BY <1>5, <1>9
  <2>6. moved[i] = abstract_stack[m + i]
    BY <1>12, <2>4
  <2> QED BY ONLY <2>4, <2>5, <2>6
<1>14. Part(moved, w, m, k)
  <2>1. m + k <= Len(w) /\ k <= Len(moved)
    BY ONLY <1>4, <1>12
  <2> QED BY <1>1, <1>3, <1>12, <1>13, <2>1 DEF Part
<1> QED BY <1>2, <1>5, <1>6, <1>7, <1>8, <1>12, <1>14

\* What is released or given away was counted for the stack.
LEMMA CompleteCounts ==
  ASSUME Compiled(code), NEW h, NEW N, NEW w, InUnit(h, N, w),
         NEW e, e = Emits(unit.op, unit.arg), NEW R, NEW B, NEW m, Spots(e, Len(w), R, B, m),
         NEW moved, moved = TopN(abstract_stack, e.keep), NEW o \in 1 .. N,
         NEW more, more = Count(moved, DOMAIN moved \ Owned(moved), o)
  PROVE  /\ refs[o] - Releases(o) + more \in Int
         /\ refs[o] - Releases(o) + more >= UpTo(Mine(w, o), m) + InLocals(fast, o) + Own(o)
<1>1. PICK L \in Nat, p \in Nat, t \in Nat, k \in Nat :
        L = Len(w) /\ p = e.pop /\ t = e.take /\ k = e.keep
  BY DEF Spots
<1>2. R \in Nat /\ B \in Nat /\ m \in Nat /\ R + p = L /\ B + t = R /\ m + k = B
  BY <1>1 DEF Spots
<1>3. /\ Part(operands, w, R, p) /\ Len(operands) = p
      /\ Part(taken, w, B, t) /\ Len(taken) = t
      /\ Owned(taken) = DOMAIN taken
      /\ Part(moved, w, m, k) /\ Len(moved) = k
  BY <1>1, TakenFrom
<1>4. ASSUME NEW M, NEW b \in Nat, NEW n \in Nat, NEW c \in Nat, b + n = c, Part(M, w, b, n),
             Len(M) = n
      PROVE  UpTo(Mine(w, o), c) = UpTo(Mine(w, o), b) + UpTo(Mine(M, o), Len(M))
  <2>1. \A i \in 0 .. n :
           /\ UpTo(Owned(w), b + i) = UpTo(Owned(w), b) + UpTo(Owned(M), i)
           /\ UpTo(Mine(w, o), b + i) = UpTo(Mine(w, o), b) + UpTo(Mine(M, o), i)
    BY ONLY b \in Nat, n \in Nat, <1>4, PartCounts
  <2>2. n \in 0 .. n
    OBVIOUS
  <2> QED BY <1>4, <2>1, <2>2
<1>5. UpTo(Mine(w, o), L) = UpTo(Mine(w, o), R) + UpTo(Mine(operands, o), Len(operands))
  BY <1>2, <1>3, <1>4
<1>6. UpTo(Mine(w, o), R) = UpTo(Mine(w, o), B) + UpTo(Mine(taken, o), Len(taken))
  <2>1. /\ B \in Nat /\ t \in Nat /\ R \in Nat /\ B + t = R /\ Part(taken, w, B, t)
        /\ Len(taken) = t
    BY <1>2, <1>3
  <2> QED BY ONLY <1>4, <2>1
<1>7. UpTo(Mine(w, o), B) = UpTo(Mine(w, o), m) + UpTo(Mine(moved, o), Len(moved))
  BY <1>2, <1>3, <1>4
<1>8. /\ Count(operands, Released, o) \in Nat
      /\ Count(operands, Released, o) <= UpTo(Mine(operands, o), Len(operands))
  <2>1. Places(operands, Released) /\ Released \subseteq Owned(operands)
    BY ReleasedAre
  <2> QED BY <2>1, CountIs
<1>9. /\ Count(taken, DOMAIN taken, o) = UpTo(Mine(taken, o), Len(taken))
      /\ UpTo(Mine(taken, o), Len(taken)) \in Nat
  <2>1. PICK S : S = DOMAIN taken
    OBVIOUS
  <2>2. Places(taken, S) /\ S = Owned(taken)
    BY <1>3, <2>1 DEF Places, Part, Indexed
  <2>3. /\ S = Owned(taken) => Count(taken, S, o) = UpTo(Mine(taken, o), Len(taken))
        /\ UpTo(Mine(taken, o), Len(taken)) \in Nat
    BY <2>2, CountIs
  <2> QED BY <2>1, <2>2, <2>3
<1>10. more \in Nat /\ UpTo(Mine(moved, o), Len(moved)) \in Nat
  <2>1. PICK S : S = DOMAIN moved \ Owned(moved)
    OBVIOUS
  <2>2. Places(moved, S)
    BY <1>3, <2>1 DEF Places, Part, Indexed
  <2>3. Count(moved, S, o) \in Nat /\ UpTo(Mine(moved, o), Len(moved)) \in Nat
    BY <2>2, CountIs
  <2> QED BY <2>1, <2>3
<1>11. refs[o] \in Int /\ refs[o] >= UpTo(Mine(w, o), L) + InLocals(fast, o) + Own(o)
  <2>1. Backed(w, slot, fast, refs, N)
    BY AtCall
  <2> QED BY <1>1, <2>1 DEF Backed
<1>12. UpTo(Mine(w, o), m) \in Nat /\ InLocals(fast, o) \in Nat /\ Own(o) \in Nat
  <2>1. Indexed(w)
    BY AtCall
  <2> QED BY <1>2, <2>1, OwnedIs, InLocalsType DEF Own
<1>13. PICK x1 \in Nat, x2 \in Nat, x3 \in Nat, y1 \in Nat, y2 \in Nat, u1 \in Nat,
            u2 \in Nat, z \in Nat :
         /\ x1 = UpTo(Mine(operands, o), Len(operands)) /\ x2 = UpTo(Mine(taken, o), Len(taken))
         /\ x3 = UpTo(Mine(moved, o), Len(moved))
         /\ y1 = Count(operands, Released, o) /\ y2 = Count(taken, DOMAIN taken, o)
         /\ u1 = InLocals(fast, o) /\ u2 = Own(o) /\ z = UpTo(Mine(w, o), m)
  <2>1. UpTo(Mine(operands, o), Len(operands)) \in Nat
    <3>1. Indexed(operands)
      BY <1>3 DEF Part
    <3>2. Len(operands) \in Nat
      BY <1>3
    <3> QED BY <3>1, <3>2, OwnedIs
  <2> QED BY <1>8, <1>9, <1>10, <1>12, <2>1
<1>14. Releases(o) = y1 + y2
  BY <1>13 DEF Releases
<1>15. y1 <= x1 /\ y2 = x2
  BY <1>8, <1>9, <1>13
<1>16. UpTo(Mine(w, o), L) = z + x3 + x2 + x1
  BY <1>5, <1>6, <1>7, <1>13
<1>17. refs[o] \in Int /\ refs[o] >= z + x3 + x2 + x1 + u1 + u2
  BY <1>11, <1>13, <1>16
<1>18. /\ refs[o] - (y1 + y2) + more \in Int
       /\ refs[o] - (y1 + y2) + more >= z + u1 + u2
  BY <1>10, <1>15, <1>17
<1> QED BY <1>13, <1>14, <1>18

\* Where a value comes from and goes to: what is on the stack once the instruction has
\* completed is new above what it left.
LEMMA CompleteStack ==
  ASSUME Compiled(code), NEW h, NEW N, NEW w, InUnit(h, N, w), Complete,
         NEW e, e = Emits(unit.op, unit.arg), NEW R, NEW B, NEW m, Spots(e, Len(w), R, B, m),
         NEW T, T = [i \in 1 .. e.push |-> Pushed(N + i)]
  PROVE  \E a : Joined(a, w, m, T) /\ (~e.blind => a = abstract_stack')
<1>1. Takes(w, e) /\ Emitted(unit.op, e) /\ Indexed(w) /\ N \in Nat /\ e.push \in Nat
      /\ DOMAIN refs = 1 .. N
  BY AtCall
<1>2. Fresh(T, e.push, N)
  BY <1>1 DEF Fresh
<1>3. Indexed(T) /\ Len(T) = e.push
  BY <1>2, FreshAre
<1>4. PICK L \in Nat, p \in Nat, t \in Nat, k \in Nat :
        L = Len(w) /\ p = e.pop /\ t = e.take /\ k = e.keep
  BY DEF Spots
<1>5. /\ R \in Nat /\ B \in Nat /\ m \in Nat /\ R + p = L /\ B + t = R /\ m + k = B
      /\ m \in 0 .. L /\ L - m \in 0 .. L /\ L - (L - m) = m
  <2>1. /\ R \in Nat /\ B \in Nat /\ m \in Nat /\ R + p = L /\ B + t = R /\ m + k = B
    BY <1>4 DEF Spots
  <2>2. m \in 0 .. L
    BY ONLY <2>1, p \in Nat, t \in Nat, k \in Nat, L \in Nat
  <2> QED BY <2>1, <2>2
<1>6. ASSUME NEW b, Indexed(b), Len(b) = m, \A i \in 1 .. m : b[i] = w[i], NEW a, a = b \o T
      PROVE  Joined(a, w, m, T)
  <2>1. Above(a, b, T)
    BY <1>3, <1>6 DEF Above
  <2>2. /\ Indexed(a) /\ Len(a) = Len(b) + Len(T)
        /\ \A i \in 1 .. Len(b) : a[i] = b[i]
        /\ \A i \in 1 .. Len(T) : a[Len(b) + i] = T[i]
    BY ONLY <2>1, AboveIs
  <2>3. m \in 0 .. Len(w)
    BY <1>4, <1>5
  <2> QED BY <1>1, <1>3, <1>6, <2>2, <2>3 DEF Joined
<1>7. CASE e.blind
  <2>1. PICK n : n = L - m
    OBVIOUS
  <2>2. n \in 0 .. Len(w) /\ Len(w) - n = m
    BY <1>4, <1>5, <2>1
  <2>3. PICK b : b = Below(w, n)
    OBVIOUS
  <2>4. Indexed(w) /\ n \in 0 .. Len(w) /\ b = Below(w, n)
    BY <1>1, <2>2, <2>3
  <2>5. Indexed(b) /\ Len(b) = Len(w) - n /\ \A i \in 1 .. Len(w) - n : b[i] = w[i]
    BY ONLY <2>4, BelowIs
  <2>6. PICK a : a = b \o T
    OBVIOUS
  <2>7. Joined(a, w, m, T)
    BY <1>6, <2>2, <2>5, <2>6
  <2> QED BY <1>7, <2>7
<1>8. CASE ~e.blind
  <2>1. PICK b : b = Below(abstract_stack, k)
    OBVIOUS
  <2>2. /\ Indexed(abstract_stack) /\ Len(abstract_stack) = B
        /\ \A i \in 1 .. B : abstract_stack[i] = w[i]
    <3>1. L - p - t = B
      BY <1>5
    <3> QED BY <1>1, <1>4, <1>8, <3>1 DEF Takes
  <2>3. k \in 0 .. Len(abstract_stack) /\ Len(abstract_stack) - k = m
    <3>1. k \in 0 .. B /\ B - k = m
      BY ONLY <1>5, k \in Nat
    <3> QED BY <2>2, <3>1
  <2>4. Indexed(abstract_stack) /\ k \in 0 .. Len(abstract_stack) /\ b = Below(abstract_stack, k)
    BY <2>1, <2>2, <2>3
  <2>5. /\ Indexed(b) /\ Len(b) = Len(abstract_stack) - k
        /\ \A i \in 1 .. Len(abstract_stack) - k : b[i] = abstract_stack[i]
    BY ONLY <2>4, BelowIs
  <2>6. \A i \in 1 .. m : i \in 1 .. B
    BY <1>5
  <2>7. Indexed(b) /\ Len(b) = m /\ \A i \in 1 .. m : b[i] = w[i]
    BY <2>2, <2>3, <2>5, <2>6
  <2>8. abstract_stack' = b \o T
    <3>1. Results(e) = [i \in 1 .. e.push |-> N + i]
      <4>1. Cardinality(DOMAIN refs) = N
        BY <1>1, FS_Interval
      <4>2. e.borrowed = FALSE
        BY <1>1 DEF Emitted
      <4> QED BY <4>1, <4>2 DEF Results
    <3>2. [i \in DOMAIN Results(e) |-> Pushed(Results(e)[i])] = T
      BY <3>1
    <3> QED BY <1>4, <1>8, <2>1, <3>2 DEF Complete
  <2>9. PICK a : a = b \o T
    OBVIOUS
  <2>10. Joined(a, w, m, T)
    BY <1>6, <2>7, <2>9
  <2> QED BY <2>8, <2>9, <2>10
<1> QED BY <1>7, <1>8

\* Once the instruction has completed every value is in its slot and counted.
LEMMA CompleteBacked ==
  ASSUME Compiled(code), NEW h, NEW N, NEW w, InUnit(h, N, w), Complete,
         NEW e, e = Emits(unit.op, unit.arg), NEW R, NEW B, NEW m, Spots(e, Len(w), R, B, m),
         NEW T, T = [i \in 1 .. e.push |-> Pushed(N + i)], NEW a, Joined(a, w, m, T)
  PROVE  /\ Backed(a, slot', fast', refs', N + e.push)
         /\ stack_height' = UpTo(Owned(a), Len(a)) /\ stack_height' \in Nat
<1>1. /\ Backed(w, slot, fast, refs, N) /\ Checked(unit.op, w, e) /\ Emitted(unit.op, e)
      /\ Indexed(w) /\ N \in Nat /\ e.push \in Nat /\ DOMAIN refs = 1 .. N
      /\ DOMAIN fast = Local /\ \A x \in Local : fast[x] \in 0 .. N
  BY AtCall
<1>2. PICK L \in Nat, p \in Nat, t \in Nat, k \in Nat, q \in Nat :
        L = Len(w) /\ p = e.pop /\ t = e.take /\ k = e.keep /\ q = e.push
  BY <1>1 DEF Spots
<1>3. R \in Nat /\ B \in Nat /\ m \in Nat /\ R + p = L /\ B + t = R /\ m + k = B
  BY <1>2 DEF Spots
<1>4. Fresh(T, q, N)
  BY <1>1, <1>2 DEF Fresh
<1>5. /\ Indexed(T) /\ Len(T) = q
      /\ \A i \in 1 .. q : T[i].really_pushed /\ T[i].value = N + i
      /\ Owned(T) = 1 .. q /\ \A i \in 1 .. q : UpTo(Owned(T), i) = i
      /\ UpTo(Owned(T), Len(T)) = q
      /\ \A o \in 1 .. N : UpTo(Mine(T, o), Len(T)) = 0
      /\ \A o \in N + 1 .. N + q : UpTo(Mine(T, o), Len(T)) = 1
  BY ONLY <1>4, FreshAre
<1>6. PICK moved : moved = TopN(abstract_stack, e.keep)
  OBVIOUS
<1>7. PICK H \in Nat : H = UpTo(Owned(w), m)
  BY <1>1, <1>3, OwnedIs
<1>8. stack_height - Cardinality(Owned(moved)) = H
  <2>1. Part(moved, w, m, k) /\ Len(moved) = k /\ stack_height = UpTo(Owned(w), B)
    BY <1>2, <1>6, TakenFrom
  <2>2. PICK o : o = Const
    OBVIOUS
  <2>3. \A i \in 0 .. k : /\ UpTo(Owned(w), m + i) = UpTo(Owned(w), m) + UpTo(Owned(moved), i)
                          /\ UpTo(Mine(w, o), m + i) = UpTo(Mine(w, o), m) + UpTo(Mine(moved, o), i)
    BY ONLY <1>3, k \in Nat, <2>1, PartCounts
  <2>4. k \in 0 .. k
    OBVIOUS
  <2>5. UpTo(Owned(w), B) = H + UpTo(Owned(moved), k)
    BY <1>3, <1>7, <2>3, <2>4
  <2>6. Owned(moved) \in SUBSET (1 .. k) /\ UpTo(Owned(moved), k) \in Nat
    BY <2>1, OwnedIs DEF Part
  <2>7. UpTo(Owned(moved), k) = Cardinality(Owned(moved))
    BY <2>6, UpToAll
  <2> QED BY <2>1, <2>5, <2>6, <2>7
<1>9. PICK results : results = Results(e)
  OBVIOUS
<1>10. results = [i \in 1 .. q |-> N + i] /\ Len(results) = q /\ DOMAIN results = 1 .. q
  <2>1. Cardinality(DOMAIN refs) = N
    BY <1>1, FS_Interval
  <2>2. e.borrowed = FALSE
    BY <1>1 DEF Emitted
  <2>3. results = [i \in 1 .. q |-> N + i]
    BY <1>2, <1>9, <2>1, <2>2 DEF Results
  <2> QED BY <2>3
<1>11. /\ stack_height' = H + q
       /\ slot' = [i \in DOMAIN slot |-> IF i \in H + 1 .. H + q THEN results[i - H] ELSE slot[i]]
       /\ fast' = fast
       /\ refs' = [o \in DOMAIN refs \cup {results[i] : i \in 1 .. q} |->
                     IF o \in DOMAIN refs
                       THEN refs[o] - Releases(o) + Count(moved, DOMAIN moved \ Owned(moved), o)
                       ELSE 1]
  <2>1. PICK height : height = stack_height - Cardinality(Owned(moved))
    OBVIOUS
  <2>2. /\ stack_height' = height + Len(results)
        /\ slot' = [i \in DOMAIN slot |-> IF i \in height + 1 .. height + Len(results)
                                            THEN results[i - height] ELSE slot[i]]
    BY <1>2, <1>6, <1>9, <2>1 DEF Complete
  <2>3. fast' = fast
    BY DEF Complete
  <2>4. refs' = [o \in DOMAIN refs \cup {results[i] : i \in DOMAIN results} |->
                     IF o \in DOMAIN refs
                       THEN refs[o] - Releases(o) + Count(moved, DOMAIN moved \ Owned(moved), o)
                       ELSE 1]
    BY <1>2, <1>6, <1>9 DEF Complete
  <2>5. height = H
    BY <1>8, <2>1
  <2> QED BY <1>10, <2>2, <2>3, <2>4, <2>5
<1>12. {results[i] : i \in 1 .. q} = N + 1 .. N + q
  <2>1. \A i \in 1 .. q : results[i] = N + i
    BY <1>10
  <2>2. \A o \in N + 1 .. N + q : o - N \in 1 .. q /\ N + (o - N) = o
    BY <1>1
  <2>3. \A i \in 1 .. q : N + i \in N + 1 .. N + q
    BY <1>1
  <2> QED BY <2>1, <2>2, <2>3
<1>13. /\ DOMAIN refs' = 1 .. N + q
       /\ \A o \in 1 .. N : refs'[o] = refs[o] - Releases(o)
                                         + Count(moved, DOMAIN moved \ Owned(moved), o)
       /\ \A o \in N + 1 .. N + q : refs'[o] = 1
  <2>1. (1 .. N) \cup (N + 1 .. N + q) = 1 .. N + q
    BY <1>1
  <2>2. \A o \in N + 1 .. N + q : o \notin 1 .. N
    BY <1>1
  <2> QED BY <1>1, <1>11, <1>12, <2>1, <2>2
<1>14. H <= m /\ m + q <= MaxHeight /\ Len(a) = m + q
  <2>1. UpTo(Owned(w), m) \in 0 .. m
    <3>1. m \in 0 .. Len(w)
      <4>1. m \in 0 .. L
        BY ONLY <1>3, p \in Nat, t \in Nat, k \in Nat, L \in Nat
      <4> QED BY <1>2, <4>1
    <3> QED BY <1>1, <3>1, HeightIs
  <2>2. L - (p + t + k) + q <= MaxHeight
    BY <1>1, <1>2 DEF Checked
  <2>3. L - (p + t + k) = m
    BY ONLY <1>3, p \in Nat, t \in Nat, k \in Nat, L \in Nat
  <2>4. Len(a) = m + q
    BY <1>5 DEF Joined
  <2> QED BY <1>3, <1>7, <2>1, <2>2, <2>3, <2>4
<1>15. /\ DOMAIN slot' = 1 .. MaxHeight /\ \A i \in 1 .. H : slot'[i] = slot[i]
       /\ \A i \in 1 .. q : slot'[H + i] = N + i
  <2>1. DOMAIN slot = 1 .. MaxHeight
    BY <1>1 DEF Backed
  <2>2. \A i \in 1 .. H : i \in 1 .. MaxHeight /\ i \notin H + 1 .. H + q
    BY <1>3, <1>14, NumbersAssumption
  <2>3. \A i \in 1 .. q : H + i \in 1 .. MaxHeight /\ H + i \in H + 1 .. H + q /\ H + i - H = i
    BY <1>3, <1>14, NumbersAssumption
  <2>4. \A i \in 1 .. q : results[i] = N + i
    BY <1>10
  <2>5. DOMAIN slot' = 1 .. MaxHeight
    BY <1>11, <2>1
  <2>6. \A i \in 1 .. H : slot'[i] = slot[i]
    BY <1>11, <2>1, <2>2
  <2>7. \A i \in 1 .. q : slot'[H + i] = N + i
    <3> SUFFICES ASSUME NEW i \in 1 .. q PROVE slot'[H + i] = N + i
      OBVIOUS
    <3>1. PICK j : j = H + i /\ j \in 1 .. MaxHeight /\ j \in H + 1 .. H + q /\ j - H = i
      <4>1. H + i \in 1 .. MaxHeight /\ H + i \in H + 1 .. H + q /\ H + i - H = i
        BY ONLY <2>3, i \in 1 .. q
      <4> QED BY ONLY <4>1
    <3>2. slot'[j] = results[j - H]
      BY <1>11, <2>1, <3>1
    <3> QED BY <2>4, <3>1, <3>2
  <2> QED BY <2>5, <2>6, <2>7
<1>16. ASSUME NEW o \in 1 .. N + q
       PROVE  /\ refs'[o] \in Int
              /\ refs'[o] >= UpTo(Mine(w, o), m) + UpTo(Mine(T, o), Len(T))
                               + InLocals(fast, o) + Own(o)
  <2>1. UpTo(Mine(w, o), m) \in Nat /\ InLocals(fast, o) \in Nat /\ Own(o) \in Nat
    BY <1>1, <1>3, OwnedIs, InLocalsType DEF Own
  <2>2. CASE o \in 1 .. N
    <3>1. PICK more : more = Count(moved, DOMAIN moved \ Owned(moved), o)
      OBVIOUS
    <3>2. /\ refs[o] - Releases(o) + more \in Int
          /\ refs[o] - Releases(o) + more >= UpTo(Mine(w, o), m) + InLocals(fast, o) + Own(o)
      BY <1>6, <2>2, <3>1, CompleteCounts
    <3>3. refs'[o] = refs[o] - Releases(o) + more
      BY <1>13, <2>2, <3>1
    <3>4. UpTo(Mine(T, o), Len(T)) = 0
      BY <1>5, <2>2
    <3>5. PICK x \in Nat, y \in Nat, z \in Nat :
            x = UpTo(Mine(w, o), m) /\ y = InLocals(fast, o) /\ z = Own(o)
      BY <2>1
    <3>6. refs'[o] \in Int /\ refs'[o] >= x + y + z
      BY ONLY <3>2, <3>3, <3>5
    <3>7. refs'[o] >= x + 0 + y + z
      BY <3>6
    <3> QED BY ONLY <3>4, <3>5, <3>6, <3>7
  <2>3. CASE o \notin 1 .. N
    <3>1. o \in N + 1 .. N + q /\ o \in Nat /\ o > N
      BY <1>1, <2>3
    <3>2. UpTo(Mine(w, o), m) = 0 /\ InLocals(fast, o) = 0 /\ Own(o) = 0
      BY <1>1, <1>3, <3>1, NewObject
    <3>3. refs'[o] = 1 /\ UpTo(Mine(T, o), Len(T)) = 1
      BY <1>5, <1>13, <3>1
    <3>4. 1 \in Int /\ 1 >= 0 + 1 + 0 + 0
      OBVIOUS
    <3> QED BY ONLY <3>2, <3>3, <3>4
  <2> QED BY <2>2, <2>3
<1>17. Backed(a, slot', fast, refs', N + q)
  <2>1. Len(a) <= MaxHeight
    BY <1>14
  <2>2. \A i \in 1 .. UpTo(Owned(w), m) : slot'[i] = slot[i]
    BY <1>7, <1>15
  <2>3. \A i \in Owned(T) : slot'[UpTo(Owned(w), m) + UpTo(Owned(T), i)] = T[i].value
    BY <1>5, <1>7, <1>15, ZenonT(60)
  <2>4. \A i \in 1 .. Len(T) : T[i].value \in 1 .. N + q
    <3>1. \A i \in 1 .. q : N + i \in 1 .. N + q
      BY <1>1
    <3>2. Len(T) = q /\ \A i \in 1 .. q : T[i].value = N + i
      BY <1>5
    <3> QED BY ONLY <3>1, <3>2
  <2>5. N + q \in Nat /\ N <= N + q /\ \A x \in Local : fast[x] \in 0 .. N + q
    <3>1. \A x \in Local : fast[x] \in 0 .. N
      BY <1>1
    <3>2. 0 .. N \subseteq 0 .. N + q
      BY <1>1
    <3> QED BY <1>1, <3>1, <3>2
  <2>6. Rebacked(a, w, m, T, slot, fast, refs, N, slot', fast, refs', N + q)
    BY <1>1, <1>13, <1>15, <1>16, <2>1, <2>2, <2>3, <2>4, <2>5 DEF Rebacked
  <2>7. PICK M : M = N + q
    OBVIOUS
  <2>8. Rebacked(a, w, m, T, slot, fast, refs, N, slot', fast, refs', M)
    BY <2>6, <2>7
  <2>9. Backed(a, slot', fast, refs', M)
    BY <2>8, BackedJoined
  <2> QED BY <2>7, <2>9
<1>18. UpTo(Owned(a), Len(a)) = H + q
  <2>1. PICK o : o = Const
    OBVIOUS
  <2>2. \A i \in 0 .. Len(T) :
          /\ UpTo(Owned(a), m + i) = UpTo(Owned(w), m) + UpTo(Owned(T), i)
          /\ UpTo(Mine(a, o), m + i) = UpTo(Mine(w, o), m) + UpTo(Mine(T, o), i)
    BY ONLY Joined(a, w, m, T), JoinedCounts
  <2>3. q \in 0 .. Len(T)
    <3>1. q \in 0 .. q
      OBVIOUS
    <3>2. Len(T) = q
      BY <1>5
    <3> QED BY ONLY <3>1, <3>2
  <2>4. UpTo(Owned(T), q) = q
    BY <1>5
  <2> QED BY <1>7, <1>14, <2>2, <2>3, <2>4
<1>19. H + q \in Nat
  OBVIOUS
<1> QED BY <1>2, <1>11, <1>17, <1>18, <1>19

\* What is on the stack once the instruction has completed lasts as long as it is needed.
LEMMA CompleteLasts ==
  ASSUME Compiled(code), NEW h, NEW N, NEW w, InUnit(h, N, w), Complete,
         NEW e, e = Emits(unit.op, unit.arg), NEW R, NEW B, NEW m, Spots(e, Len(w), R, B, m),
         NEW T, T = [i \in 1 .. e.push |-> Pushed(N + i)], NEW a, Joined(a, w, m, T)
  PROVE  /\ Lasts(code, a, h[vpc + 1].until, vpc + 1, fast')
         /\ Len(a) + h[vpc + 1].effect = Total
<1>1. /\ Size(code) \in Nat /\ vpc \in 0 .. Size(code) - 1 /\ vpc \in Nat
      /\ unit.op \in Supported \ Moves /\ unit.arg \in Nat
      /\ Analysed(code, h, 0) /\ Lasts(code, w, h[vpc].until, vpc, fast)
      /\ Len(w) + h[vpc].effect = Total /\ N \in Nat /\ e.push \in Nat
  BY AtCall
<1>2. PICK row : row = RowAt(code, h, vpc)
  OBVIOUS
<1>3. Match(unit.op, row, e, vpc)
  <2>1. unit.op # "RERAISE"
    BY DEF Complete, NoReturn
  <2>2. row = Assumes(unit.op, unit.arg, h[vpc + 1].until, vpc)
    BY <1>2 DEF RowAt, unit
  <2> QED BY <1>1, <2>1, <2>2, TablesMatch
<1>4. row.undo = e.push /\ Len(row.marks) = e.pop + e.take + e.keep
  BY <1>3 DEF Match, Marks
<1>5. Len(T) = e.push /\ \A j \in 1 .. e.push : T[j].really_pushed
  <2>1. Fresh(T, e.push, N)
    BY <1>1 DEF Fresh
  <2> QED BY ONLY <2>1, FreshAre
<1>6. Len(w) = m + Len(row.marks)
  <2>1. PICK L \in Nat, p \in Nat, t \in Nat, k \in Nat :
          L = Len(w) /\ p = e.pop /\ t = e.take /\ k = e.keep
    BY DEF Spots
  <2>2. R \in Nat /\ B \in Nat /\ m \in Nat /\ R + p = L /\ B + t = R /\ m + k = B
    BY <2>1 DEF Spots
  <2>3. L = m + (p + t + k)
    BY <2>2
  <2> QED BY <1>4, <2>1, <2>3
<1>7. fast' = fast
  BY DEF Complete
<1>8. Moved(code, h, vpc, row, a, w, m, T, fast, fast')
  <2>1. \A j \in 1 .. Len(T) :
          Lasting(code, T[j], Due(h[vpc + 1].until, Len(T), j), vpc + 1, fast')
    BY <1>5 DEF Lasting
  <2> QED BY <1>1, <1>2, <1>4, <1>5, <1>6, <1>7, <2>1 DEF Moved
<1>9. /\ Lasts(code, a, h[vpc + 1].until, vpc + 1, fast')
      /\ Len(a) + h[vpc + 1].effect = Len(w) + h[vpc].effect
  BY <1>8, LastsMoved
<1> QED BY <1>1, <1>9

LEMMA CompleteStep ==
  ASSUME Compiled(code), initial_stack_height \in 0 .. MaxHeight,
         NEW h, NEW N, NEW w, InUnit(h, N, w), Complete
  PROVE  IInv'
<1>1. PICK e : e = Emits(unit.op, unit.arg)
  OBVIOUS
<1>2. /\ Size(code) \in Nat /\ vpc \in 0 .. Size(code) - 1 /\ vpc \in Nat
      /\ unit.op \in Supported \ Moves /\ Emitted(unit.op, e)
      /\ Analysed(code, h, 0) /\ Known(h)
  BY <1>1, AtCall
<1>3. PICK R, B, m : Spots(e, Len(w), R, B, m)
  BY <1>1, SpotsAre
<1>4. PICK T : T = [i \in 1 .. e.push |-> Pushed(N + i)]
  OBVIOUS
<1>5. PICK a : Joined(a, w, m, T) /\ (~e.blind => a = abstract_stack')
  BY <1>1, <1>3, <1>4, CompleteStack, ZenonT(60)
<1>6. PICK M : M = N + e.push
  OBVIOUS
<1>7. /\ Backed(a, slot', fast', refs', M)
      /\ stack_height' = UpTo(Owned(a), Len(a)) /\ stack_height' \in Nat
  BY <1>1, <1>3, <1>4, <1>5, <1>6, CompleteBacked
<1>8. Lasts(code, a, h[vpc + 1].until, vpc + 1, fast') /\ Len(a) + h[vpc + 1].effect = Total
  BY <1>1, <1>3, <1>4, <1>5, CompleteLasts
<1>9. /\ code' = code /\ initial_stack_height' = initial_stack_height
      /\ redundant_loads' = redundant_loads /\ stack_effect' = stack_effect
      /\ phase' \in Leaving /\ vpc' = vpc + 1 /\ sp' = stack_height'
      /\ operands' = <<>> /\ taken' = <<>>
  BY DEF Complete, Kept, analysis
<1>10. Compiled(code)' /\ (initial_stack_height \in 0 .. MaxHeight)'
  BY <1>9
<1>11. unit.op \in Ending => vpc + 1 = Size(code)
  BY <1>2, SizeIs DEF unit
<1>12. unit.op \notin OrPopJumps
  BY <1>2 DEF Supported, Wrong
<1>13. code_instr_num = Size(code)
  BY DEF code_instr_num, Size
<1>14. CASE vpc + 1 # Size(code)
  <2>1. phase' = "emit"
    <3>1. unit.op \notin Ending
      BY <1>11, <1>14
    <3>2. /\ unit.op \notin {"JUMP_FORWARD", "JUMP_ABSOLUTE"}
          /\ unit.op \notin PopJumps \cup OrPopJumps \cup {"JUMP_IF_NOT_EXC_MATCH"}
          /\ unit.op # "RETURN_VALUE"
      BY <1>12, <3>1 DEF Ending
    <3>3. Leaving = {"emit"}
      BY <1>13, <1>14, <3>2 DEF Leaving
    <3> QED BY <1>9, <3>3
  <2>2. a = abstract_stack'
    <3>1. unit.op # "SETUP_WITH"
      BY <1>11, <1>14 DEF Ending
    <3>2. e.blind = FALSE
      BY <1>2, <3>1 DEF Emitted
    <3> QED BY <1>5, <3>2
  <2>3. vpc' \in 0 .. Size(code') - 1 /\ vpc + 1 \in 0 .. Size(code) - 1
    BY <1>2, <1>9, <1>14
  <2>4. Known(h)'
    BY <1>2, <1>9 DEF Known
  <2>5. Before(code, h, abstract_stack, vpc, slot, fast, refs, M, Total)'
    BY <1>7, <1>8, <1>9, <2>2 DEF Before, Total
  <2>6. stack_height' = UpTo(Owned(abstract_stack'), Len(abstract_stack'))
    BY <1>7, <2>2
  <2>7. unit'.op # "UNPACK_SEQUENCE"
    <3>1. unit' = code[vpc + 1]
      BY <1>9 DEF unit
    <3>2. PICK v \in 0 .. Size(code) - 1 : v = vpc + 1
      BY <2>3
    <3>3. ASSUME code[v].op = "UNPACK_SEQUENCE" PROVE FALSE
      <4>1. code[v - 1].op = "LOAD_FAST" /\ v - 1 = vpc
        BY <1>2, <3>2, <3>3, SizeIs
      <4> QED BY <1>2, <4>1 DEF unit, Moves
    <3> QED BY <3>1, <3>2, <3>3
  <2>8. BetweenUnits(h, M)'
    BY <1>9, <2>1, <2>3, <2>4, <2>5, <2>6, <2>7 DEF BetweenUnits
  <2> QED BY <1>10, <2>8 DEF IInv
<1>15. CASE vpc + 1 = Size(code)
  <2>1. phase' \in {"fell", "branched", "returned"}
    <3>1. Leaving \in SUBSET {"fell", "branched", "returned"}
      BY <1>13, <1>15 DEF Leaving
    <3> QED BY <1>9, <3>1
  <2>2. phase' = "branched" =>
          unit.op \in {"JUMP_FORWARD", "JUMP_ABSOLUTE", "JUMP_IF_NOT_EXC_MATCH"} \cup PopJumps
    <3> SUFFICES ASSUME unit.op \notin {"JUMP_FORWARD", "JUMP_ABSOLUTE",
                                        "JUMP_IF_NOT_EXC_MATCH"} \cup PopJumps
                 PROVE  phase' # "branched"
      OBVIOUS
    <3>1. Leaving \in SUBSET {"fell", "returned"}
      BY <1>12, <1>13, <1>15 DEF Leaving
    <3> QED BY <1>9, <3>1
  <2>3. Indexed(a) /\ Len(a) \in Nat
    BY <1>7 DEF Backed, Indexed
  <2>4. /\ h[Size(code)].effect = 0
        /\ Lasts(code, a, h[Size(code)].until, Size(code), fast')
        /\ Len(a) + h[Size(code)].effect = Total
    BY <1>2, <1>8, <1>15 DEF Analysed
  <2>5. UpTo(Owned(a), Len(a)) = Len(a)
    BY <1>2, <2>3, <2>4, AllOwned
  <2>6. stack_height' = Total
    BY <1>7, <2>3, <2>4, <2>5
  <2>7. HeightsAgree'
    <3>1. code_instr_num' - 1 = vpc /\ code'[code_instr_num' - 1] = unit
      BY <1>2, <1>9, <1>13, <1>15 DEF unit, code_instr_num
    <3>2. phase' = "branched" => branch_stack_difference(unit.op) = 0
      <4> SUFFICES ASSUME NEW op, op \in {"JUMP_FORWARD", "JUMP_ABSOLUTE",
                                          "JUMP_IF_NOT_EXC_MATCH"} \cup PopJumps
                   PROVE  branch_stack_difference(op) = 0
        BY <2>2
      <4> QED BY DEF branch_stack_difference, OrPopJumps, PopJumps
    <3>3. initial_stack_height' + stack_effect' = stack_height'
      BY <1>9, <2>6 DEF Total
    <3> QED BY <1>7, <3>1, <3>2, <3>3 DEF HeightsAgree
  <2>8. TakenAreOwned'
    BY <1>9 DEF TakenAreOwned
  <2>9. depth' = stack_height'
    BY <2>1 DEF depth
  <2>10. depth' \in Nat /\ depth' <= UpTo(Owned(a), Len(a))
    BY <1>7, <2>9
  <2>11. phase' \in {"fell", "branched", "returned", "raised"}
    BY <2>1
  <2>12. Left'
    BY <1>7, <2>7, <2>8, <2>10, <2>11, LeftIs
  <2> QED BY <1>10, <2>12 DEF IInv
<1> QED BY <1>14, <1>15

-----------------------------------------------------------------------------
(* The properties, and the theorems.                                       *)

\* What an instruction popped is alive: the stack owns it, or it is a constant, or its local
\* still holds it.
LEMMA PoppedAlive ==
  ASSUME Compiled(code), NEW h, NEW N, NEW w, InUnit(h, N, w), unit.op # "POP_TOP",
         NEW i \in DOMAIN operands
  PROVE  refs[operands[i].value] > 0
<1>1. PICK e : e = Emits(unit.op, unit.arg)
  OBVIOUS
<1>2. /\ Size(code) \in Nat /\ vpc \in 0 .. Size(code) - 1 /\ vpc \in Nat
      /\ unit.op \in Supported \ Moves /\ unit.arg \in Nat
      /\ Takes(w, e) /\ Analysed(code, h, 0)
      /\ Backed(w, slot, fast, refs, N) /\ Lasts(code, w, h[vpc].until, vpc, fast)
      /\ Indexed(w) /\ N \in Nat /\ N >= 1
  BY <1>1, AtCall
<1>3. PICK R, B, m : Spots(e, Len(w), R, B, m)
  BY <1>1, SpotsAre
<1>4. PICK L \in Nat, p \in Nat, t \in Nat, k \in Nat :
        L = Len(w) /\ p = e.pop /\ t = e.take /\ k = e.keep
  BY <1>3 DEF Spots
<1>5. R \in Nat /\ B \in Nat /\ m \in Nat /\ R + p = L /\ B + t = R /\ m + k = B
  BY <1>3, <1>4 DEF Spots
<1>6. i \in 1 .. p /\ operands[i] = w[L - p + i]
  <2>1. Indexed(operands) /\ Len(operands) = p
        /\ \A j \in 1 .. p : operands[j] = w[L - p + j]
    BY <1>2, <1>4 DEF Takes
  <2> QED BY <2>1 DEF Indexed
<1>7. PICK j \in 1 .. L : j = L - p + i
  <2>1. L - p + i \in 1 .. L
    BY <1>5, <1>6
  <2> QED BY <2>1
<1>8. PICK o : o = w[j].value
  OBVIOUS
<1>9. /\ o \in 1 .. N /\ refs[o] \in Int
      /\ refs[o] >= UpTo(Mine(w, o), L) + InLocals(fast, o) + Own(o)
  BY <1>2, <1>4, <1>8 DEF Backed
<1>10. UpTo(Mine(w, o), L) \in Nat /\ InLocals(fast, o) \in Nat /\ Own(o) \in Nat
  BY <1>2, OwnedIs, InLocalsType DEF Own
<1>11. UpTo(Mine(w, o), L) >= 1 \/ InLocals(fast, o) >= 1 \/ Own(o) = 1
  <2>1. CASE w[j].really_pushed
    <3>1. j \in Mine(w, o)
      BY <1>2, <1>4, <1>8, <2>1 DEF Mine, Owned, Indexed
    <3>2. Mine(w, o) \in SUBSET (1 .. L)
      BY <1>2, <1>4, OwnedIs
    <3>3. UpTo(Mine(w, o), L) = Cardinality(Mine(w, o)) /\ IsFiniteSet(Mine(w, o))
      BY <3>2, UpToAll
    <3>4. Cardinality(Mine(w, o)) # 0
      BY <3>1, <3>3, FS_EmptySet
    <3> QED BY <1>10, <3>3, <3>4
  <2>2. CASE ~w[j].really_pushed
    <3>1. PICK row : row = RowAt(code, h, vpc)
      OBVIOUS
    <3>2. unit.op # "RERAISE"
      <4>1. Plain.pop = 0
        BY DEF Plain
      <4>2. p # 0
        BY <1>6
      <4> QED BY <1>1, <1>4, <4>1, <4>2, EmitsOfSome
    <3>3. Match(unit.op, row, e, vpc)
      <4>1. row = Assumes(unit.op, unit.arg, h[vpc + 1].until, vpc)
        BY <3>1 DEF RowAt, unit
      <4> QED BY <1>1, <1>2, <3>2, <4>1, TablesMatch
    <3>4. PICK n \in Nat : n = p + t + k
      OBVIOUS
    <3>5. Marks(row.marks, n, {vpc, Forever})
      <4>1. \/ Marks(row.marks, n, {vpc, Forever})
            \/ Marks(row.marks, n, {Forever})
        BY <1>4, <3>3, <3>4 DEF Match
      <4>2. {Forever} \subseteq {vpc, Forever}
        OBVIOUS
      <4> QED BY <4>1, <4>2, MarksIn
    <3>6. Len(row.marks) = n /\ \A q \in 1 .. n : row.marks[q] \in {vpc, Forever}
      BY <3>5 DEF Marks
    <3>7. n <= L
      BY <1>5, <3>4
    <3>8. PICK q \in 1 .. n : q = n - p + i /\ L - n + q = j
      <4>1. n - p + i \in 1 .. n /\ L - n + (n - p + i) = j
        BY <1>5, <1>6, <1>7, <3>4
      <4> QED BY <4>1
    <3>9. Lasting(code, w[j], row.marks[q], vpc, fast)
      <4>1. Len(row.marks) <= Len(w)
        BY <1>4, <3>6, <3>7
      <4>2. \A r \in 1 .. Len(row.marks) :
              /\ row.marks[r] \in Nat
              /\ Lasting(code, w[Len(w) - Len(row.marks) + r], row.marks[r], vpc, fast)
        BY <1>2, <3>1, <4>1, MarkedLast
      <4> QED BY <1>4, <3>6, <3>8, <4>2
    <3>10. row.marks[q] >= vpc
      <4>1. Forever >= vpc
        <5>1. Size(code) < Forever
          BY SizeIs
        <5> QED BY <1>2, <5>1, NumbersAssumption
      <4>2. row.marks[q] = vpc \/ row.marks[q] = Forever
        BY <3>6
      <4> QED BY <1>2, <4>1, <4>2
    <3>11. w[j].value = Const \/ (w[j].local \in Local /\ fast[w[j].local] = w[j].value)
      BY <2>2, <3>9, <3>10 DEF Lasting
    <3>12. CASE w[j].value = Const
      BY <1>8, <3>12 DEF Own
    <3>13. CASE w[j].local \in Local /\ fast[w[j].local] = w[j].value
      BY <1>8, <3>13, InLocalsSome
    <3> QED BY <3>11, <3>12, <3>13
  <2> QED BY <2>1, <2>2
<1>12. refs[o] > 0
  BY <1>9, <1>10, <1>11
<1> QED BY <1>6, <1>7, <1>8, <1>12

\* What holds while the block is analysed, emitted and run.
LEMMA InvariantGives ==
  ASSUME IInv
  PROVE  /\ NothingReleasedTwice /\ OperandsAlive /\ TakenAreOwned /\ MirrorsFrame
         /\ HeightsAgree
<1>0. Compiled(code) /\ initial_stack_height \in 0 .. MaxHeight
  BY DEF IInv
<1>1. ASSUME NEW s, NEW N, Backed(s, slot, fast, refs, N), depth \in Nat,
             depth <= UpTo(Owned(s), Len(s))
      PROVE  NothingReleasedTwice
  <2>1. \A o \in DOMAIN refs :
          refs[o] >= Cardinality({i \in 1 .. depth : slot[i] = o}) + InLocals(fast, o) + Own(o)
    BY <1>1, BackedCounts
  <2> QED BY <2>1 DEF NothingReleasedTwice, Holders, InLocals, Own
<1>2. CASE \E h, N : Analysing(h, N)
  <2>1. PICK h, N : Analysing(h, N)
    BY <1>2
  <2>2. /\ phase = "analyse" /\ taken = <<>> /\ stack_height = initial_stack_height
        /\ Backed(abstract_stack, slot, fast, refs, N)
        /\ \A i \in 1 .. Len(abstract_stack) : abstract_stack[i].really_pushed
        /\ Len(abstract_stack) = initial_stack_height
    BY <2>1 DEF Analysing
  <2>3. Indexed(abstract_stack)
    BY <2>2 DEF Backed
  <2>4. UpTo(Owned(abstract_stack), Len(abstract_stack)) = Len(abstract_stack)
    BY <2>2, <2>3, AllPushed
  <2>5. depth \in Nat /\ depth <= UpTo(Owned(abstract_stack), Len(abstract_stack))
    BY <1>0, <2>2, <2>4, NumbersAssumption DEF depth
  <2>6. NothingReleasedTwice
    BY <1>1, <2>2, <2>5
  <2> QED BY <2>2, <2>6 DEF OperandsAlive, TakenAreOwned, MirrorsFrame, HeightsAgree
<1>3. CASE \E h, N : BetweenUnits(h, N)
  <2>1. PICK h, N : BetweenUnits(h, N)
    BY <1>3
  <2>2. /\ Backed(abstract_stack, slot, fast, refs, N) /\ stack_height \in Nat
        /\ stack_height = UpTo(Owned(abstract_stack), Len(abstract_stack))
        /\ Indexed(abstract_stack) /\ Len(abstract_stack) \in Nat
    BY <1>0, <2>1, AtUnit
  <2>3. phase = "emit" /\ taken = <<>>
    BY <2>1 DEF BetweenUnits
  <2>4. depth \in Nat /\ depth <= UpTo(Owned(abstract_stack), Len(abstract_stack))
    BY <2>2, <2>3 DEF depth
  <2>5. NothingReleasedTwice
    BY <1>1, <2>2, <2>4
  <2>6. MirrorsFrame
    <3>1. Owned(abstract_stack) \in SUBSET (1 .. Len(abstract_stack))
      BY <2>2, OwnedIs
    <3>2. Cardinality(Owned(abstract_stack)) = stack_height
      BY <2>2, <3>1, UpToAll
    <3>3. Placed(abstract_stack, slot)
      BY <2>2 DEF Backed
    <3> QED BY <3>2, <3>3 DEF MirrorsFrame, Placed
  <2> QED BY <2>3, <2>5, <2>6 DEF OperandsAlive, TakenAreOwned, HeightsAgree
<1>4. CASE \E h, N, w : InUnit(h, N, w)
  <2>1. PICK h, N, w : InUnit(h, N, w)
    BY <1>4
  <2>2. PICK e : e = Emits(unit.op, unit.arg)
    OBVIOUS
  <2>3. /\ Takes(w, e) /\ Backed(w, slot, fast, refs, N)
        /\ sp \in Nat /\ sp <= UpTo(Owned(w), Len(w))
    BY <1>0, <2>1, <2>2, AtCall
  <2>4. phase = "call"
    BY <2>1 DEF InUnit
  <2>5. depth = sp
    BY <2>4 DEF depth
  <2>6. NothingReleasedTwice
    BY <1>1, <2>3, <2>5
  <2>7. TakenAreOwned
    <3>1. Indexed(taken) /\ Len(taken) = e.take /\ \A i \in 1 .. e.take : taken[i].really_pushed
      BY <2>3 DEF Takes
    <3> QED BY <3>1 DEF TakenAreOwned, Indexed
  <2>8. OperandsAlive
    BY <1>0, <2>1, PoppedAlive DEF OperandsAlive
  <2> QED BY <2>4, <2>6, <2>7, <2>8 DEF MirrorsFrame, HeightsAgree
<1>5. CASE Left
  BY <1>5 DEF Left, OperandsAlive, MirrorsFrame
<1> QED BY <1>2, <1>3, <1>4, <1>5 DEF IInv

LEMMA NextIInv ==
  IInv /\ [Next]_vars => IInv'
<1> SUFFICES ASSUME IInv, [Next]_vars PROVE IInv'
  OBVIOUS
<1>0. Compiled(code) /\ initial_stack_height \in 0 .. MaxHeight
  BY DEF IInv
<1>1. CASE UNCHANGED vars
  <2>1. /\ code' = code /\ initial_stack_height' = initial_stack_height /\ phase' = phase
        /\ vpc' = vpc /\ until' = until /\ locals' = locals
        /\ redundant_loads' = redundant_loads /\ stack_effect' = stack_effect
        /\ abstract_stack' = abstract_stack /\ stack_height' = stack_height /\ sp' = sp
        /\ slot' = slot /\ fast' = fast /\ refs' = refs /\ operands' = operands
        /\ taken' = taken
    BY <1>1 DEF vars
  <2>2. unit' = unit /\ Total' = Total /\ code_instr_num' = code_instr_num
    BY <2>1 DEF unit, Total, code_instr_num
  <2>3. ASSUME NEW h, NEW N, Analysing(h, N) PROVE Analysing(h, N)'
    BY <2>1, <2>3 DEF Analysing
  <2>4. ASSUME NEW h, NEW N, BetweenUnits(h, N) PROVE BetweenUnits(h, N)'
    BY <2>1, <2>2, <2>4 DEF BetweenUnits, Known
  <2>5. ASSUME NEW h, NEW N, NEW w, InUnit(h, N, w) PROVE InUnit(h, N, w)'
    <3>1. Takes(w, Emits(unit.op, unit.arg))' /\ Checked(unit.op, w, Emits(unit.op, unit.arg))'
      BY <2>1, <2>2, <2>5 DEF InUnit, Takes, Checked
    <3> QED BY <2>1, <2>2, <2>5, <3>1 DEF InUnit, Known
  <2>6. ASSUME Left PROVE Left'
    <3>1. depth' = depth
      BY <2>1 DEF depth
    <3> QED BY <2>1, <2>2, <2>6, <3>1 DEF Left, NothingReleasedTwice, TakenAreOwned,
              HeightsAgree, Holders
  <2>7. Compiled(code)' /\ (initial_stack_height \in 0 .. MaxHeight)'
    BY <1>0, <2>1
  <2> QED BY <2>3, <2>4, <2>5, <2>6, <2>7 DEF IInv
<1>2. CASE Next
  <2>1. CASE \E h, N : Analysing(h, N)
    <3>1. PICK h, N : Analysing(h, N)
      BY <2>1
    <3>2. phase = "analyse"
      BY <3>1 DEF Analysing
    <3>3. Analyse
      BY <1>2, <3>2 DEF Next, LoadConst, LoadFast, StoreFast, DeleteFast, RaiseUnbound, Rotate,
            Duplicate, Emitting, Begin, Complete, Exhaust, Suspend, Raise
    <3> QED BY <1>0, <3>1, <3>3, AnalyseStep
  <2>2. CASE \E h, N : BetweenUnits(h, N)
    <3>1. PICK h, N : BetweenUnits(h, N)
      BY <2>2
    <3>2. phase = "emit"
      BY <3>1 DEF BetweenUnits
    <3>3. \/ LoadConst \/ LoadFast \/ StoreFast \/ DeleteFast \/ RaiseUnbound \/ Rotate
          \/ Duplicate \/ Begin
      BY <1>2, <3>2 DEF Next, Analyse, Complete, Exhaust, Suspend, Raise
    <3>4. CASE LoadConst
      BY <1>0, <3>1, <3>4, LoadConstStep
    <3>5. CASE LoadFast
      BY <1>0, <3>1, <3>5, LoadFastStep
    <3>6. CASE StoreFast
      BY <1>0, <3>1, <3>6, StoreFastStep
    <3>7. CASE DeleteFast
      BY <1>0, <3>1, <3>7, DeleteFastStep
    <3>8. CASE RaiseUnbound
      BY <1>0, <3>1, <3>8, RaiseUnboundStep
    <3>9. CASE Rotate
      BY <1>0, <3>1, <3>9, RotateStep
    <3>10. CASE Duplicate
      BY <1>0, <3>1, <3>10, DuplicateStep
    <3>11. CASE Begin
      BY <1>0, <3>1, <3>11, BeginStep
    <3> QED BY <3>3, <3>4, <3>5, <3>6, <3>7, <3>8, <3>9, <3>10, <3>11
  <2>3. CASE \E h, N, w : InUnit(h, N, w)
    <3>1. PICK h, N, w : InUnit(h, N, w)
      BY <2>3
    <3>2. phase = "call"
      BY <3>1 DEF InUnit
    <3>3. Complete \/ Exhaust \/ Suspend \/ Raise
      BY <1>2, <3>2 DEF Next, Analyse, LoadConst, LoadFast, StoreFast, DeleteFast, RaiseUnbound,
            Rotate, Duplicate, Emitting, Begin
    <3>4. CASE Complete
      BY <1>0, <3>1, <3>4, CompleteStep
    <3>5. CASE Exhaust
      BY <1>0, <3>1, <3>5, ExhaustStep
    <3>6. CASE Suspend
      BY <1>0, <3>1, <3>6, SuspendStep
    <3>7. CASE Raise
      BY <1>0, <3>1, <3>7, RaiseStep
    <3> QED BY <3>3, <3>4, <3>5, <3>6, <3>7
  <2>4. CASE Left
    <3>1. phase \notin {"analyse", "emit", "call"}
      BY <2>4 DEF Left
    <3> QED BY <1>2, <3>1 DEF Next, Analyse, LoadConst, LoadFast, StoreFast, DeleteFast,
              RaiseUnbound, Rotate, Duplicate, Emitting, Begin, Complete, Exhaust, Suspend, Raise
  <2> QED BY <2>1, <2>2, <2>3, <2>4 DEF IInv
<1> QED BY <1>1, <1>2

\* In every state of a block of any length, begun at any height, compiled and run, what the
\* analysis knew of each unit accounts for the stack the emitter keeps and for the frame.
THEOREM Invariance == Spec => []IInv
<1>1. Init => IInv
  BY InitIInv
<1>2. IInv /\ [Next]_vars => IInv'
  BY NextIInv
<1> QED BY <1>1, <1>2, PTL DEF Spec

\* Whenever a call may raise, every slot that sp_map makes the unwinder release, and every
\* local, is still counted: what was released at once is not released again.
THEOREM UnwinderReleasesOnce == Spec => []NothingReleasedTwice
<1>1. IInv => NothingReleasedTwice
  BY InvariantGives
<1> QED BY <1>1, Invariance, PTL

\* The analysis never calls a load redundant of which the value may be gone when it is used,
\* whatever is stored to the local in between.  A local is deleted only where
\* DeletesBetweenStatements lets it be: what a deletion would do to a copy is not proved.
THEOREM RedundantLoadsSafe == Spec => []OperandsAlive
<1>1. IInv => OperandsAlive
  BY InvariantGives
<1> QED BY <1>1, Invariance, PTL

\* The assertion of do_POP_N holds: what a callee takes from the stack in place is in its slots.
THEOREM HandedOverInPlace == Spec => []TakenAreOwned
<1>1. IInv => TakenAreOwned
  BY InvariantGives
<1> QED BY <1>1, Invariance, PTL

\* Between instructions the frame holds, in order, what the emitter believes is in its slots.
THEOREM FrameMirrored == Spec => []MirrorsFrame
<1>1. IInv => MirrorsFrame
  BY InvariantGives
<1> QED BY <1>1, Invariance, PTL

\* The assertion at the end of emitBlock holds, and each successor finds the stack at the
\* height the second worklist computes from stack_effect.
THEOREM BlockHeightsAgree == Spec => []HeightsAgree
<1>1. IInv => HeightsAgree
  BY InvariantGives
<1> QED BY <1>1, Invariance, PTL
=============================================================================
