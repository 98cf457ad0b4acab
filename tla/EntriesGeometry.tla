-------------------------- MODULE EntriesGeometry ---------------------------
(***************************************************************************)
(* Proofs about the entries of timestamps, the first part: where a world   *)
(* has the entry of a timestamp, what a copy of the world has in common    *)
(* with it, and that the steps which change no entry keep the invariant of *)
(* WorldStorageInvariant: those that prepare a copy, by adding, growing or *)
(* rotating storages, and those that set the bit or take the lock.         *)
(***************************************************************************)
EXTENDS WorldStorageInvariant, WorldStorageProofs

-----------------------------------------------------------------------------
(* Arithmetic of entries.                                                  *)

\* What the division of a timestamp by N gives.
LEMMA Quotient ==
  ASSUME NEW a \in Nat
  PROVE  /\ a \div N \in Nat /\ a % N \in 0 .. N - 1
         /\ (a \div N) * N \in Nat
         /\ a = ((a \div N) * N) + (a % N)
BY StorageAssumption, SMT

\* A timestamp has one storage number and one place in it.
LEMMA QuotientIsUnique ==
  ASSUME NEW q \in Nat, NEW r \in 0 .. N - 1
  PROVE  (q * N + r) \div N = q /\ (q * N + r) % N = r
BY StorageAssumption, SMT

\* More storages have more entries.
LEMMA ProductMonotonic ==
  ASSUME NEW p \in Nat, NEW q \in Nat
  PROVE  /\ p * N \in Nat /\ q * N \in Nat
         /\ (p + q) * N = p * N + q * N
         /\ p <= q <=> p * N <= q * N
         /\ p < q <=> p * N < q * N
         /\ p < q => p * N + N <= q * N
BY StorageAssumption, SMT

\* Two offsets are storages apart, or the same.
LEMMA OffsetsApart ==
  ASSUME NEW a \in Nat, NEW b \in Nat, a % N = 0, b % N = 0, a < b
  PROVE  a + N <= b
<1> DEFINE p == a \div N
           q == b \div N
<1>1. p \in Nat /\ a = p * N /\ q \in Nat /\ b = q * N
  BY Quotient
<1> HIDE DEF p, q
<1> QED
  BY <1>1, ProductMonotonic

\* An offset is a number of storages.
LEMMA OffsetIsMultiple ==
  ASSUME NEW a \in Nat, a % N = 0
  PROVE  \E n \in Nat : a = n * N
<1>1. /\ a \div N \in Nat /\ (a \div N) * N \in Nat
      /\ a = ((a \div N) * N) + (a % N)
  BY Quotient
<1>2. a = (a \div N) * N
  BY <1>1
<1> QED
  BY <1>1, <1>2

\* Adding or taking away whole storages does not change the place in one.
LEMMA SamePlace ==
  ASSUME NEW a \in Nat, NEW n \in Nat
  PROVE  /\ a + n * N \in Nat /\ (a + n * N) % N = a % N
         /\ (a + n * N) \div N = a \div N + n
<1> DEFINE q == a \div N
           r == a % N
<1>1. q \in Nat /\ r \in 0 .. N - 1 /\ a = q * N + r /\ n * N \in Nat /\ q * N \in Nat
  BY Quotient, ProductMonotonic
<1> HIDE DEF q, r
<1>2. a + n * N = (q + n) * N + r /\ q + n \in Nat
  BY <1>1, ProductMonotonic
<1>3. ((q + n) * N + r) \div N = q + n /\ ((q + n) * N + r) % N = r
  BY <1>1, <1>2, QuotientIsUnique
<1> QED
  BY <1>1, <1>2, <1>3 DEF q, r

-----------------------------------------------------------------------------
(* The entries of a world.                                                 *)

\* What is known of the size of things.
LEMMA Sizes ==
  ASSUME NEW world \in WorldType
  PROVE  /\ world.ts \in Nat /\ world.off \in Nat /\ Len(world.st) \in Nat
         /\ Len(world.st) * N \in Nat /\ N \in Nat /\ N > 1
         /\ DOMAIN world.st = 1 .. Len(world.st)
         /\ \A k \in 1 .. Len(world.st) : world.st[k] \in StoragesOf(world)
         /\ StoragesOf(world) \subseteq Storages
BY Fields, StoragesType, ProductMonotonic, StorageAssumption DEF StoragesOf

\* The entry of a timestamp is in a storage of the world.
LEMMA SlotStorage ==
  ASSUME NEW world \in WorldType, NEW T \in Slots(world)
  PROVE  /\ T \in Nat /\ world.off <= T /\ T < world.off + Len(world.st) * N
         /\ T - world.off \in Nat
         /\ StorageIndex(world, T) \in 0 .. Len(world.st) - 1
         /\ StorageIndex(world, T) + 1 \in 1 .. Len(world.st)
         /\ StorageOf(world, T) \in StoragesOf(world)
         /\ StorageOf(world, T) \in Storages
         /\ Index(T) \in Indices
<1>1. T \in Nat /\ world.off <= T /\ T < world.off + Len(world.st) * N
  BY Sizes DEF Slots
<1>2. T - world.off \in Nat /\ T - world.off < Len(world.st) * N
  BY <1>1, Sizes
<1>3. StorageIndex(world, T) \in Nat /\ StorageIndex(world, T) < Len(world.st)
  BY <1>2, Sizes, StorageExists, Quotient DEF StorageIndex
<1>4. /\ StorageIndex(world, T) \in 0 .. Len(world.st) - 1
      /\ StorageIndex(world, T) + 1 \in 1 .. Len(world.st)
  BY <1>3, Sizes
<1>5. StorageOf(world, T) \in StoragesOf(world) /\ StorageOf(world, T) \in Storages
  BY <1>4, Sizes DEF StorageOf
<1>6. Index(T) \in Indices
  BY <1>1, Quotient DEF Index, Indices
<1> QED
  BY <1>1, <1>2, <1>4, <1>5, <1>6

\* HasEntry, in terms of the slots of a world.
LEMMA SlotHasEntry ==
  ASSUME NEW world \in WorldType, NEW T \in Nat
  PROVE  HasEntry(world, T) <=> T # 0 /\ T \in Slots(world)
<1>1. CASE T >= world.off
  <2>1. T - world.off \in Nat
    BY <1>1, Sizes
  <2>2. StorageIndex(world, T) < Len(world.st) <=> T - world.off < Len(world.st) * N
    BY <2>1, Sizes, StorageExists DEF StorageIndex
  <2> QED
    BY <1>1, <2>2, Sizes DEF HasEntry, Slots
<1>2. CASE ~ (T >= world.off)
  BY <1>2, Sizes DEF HasEntry, Slots
<1> QED
  BY <1>1, <1>2

\* Two timestamps of a world have two entries.
LEMMA SlotsAreDistinct ==
  ASSUME NEW world \in WorldType, world.off % N = 0, Distinct(world.st),
         NEW T \in Slots(world), NEW X \in Slots(world),
         StorageOf(world, T) = StorageOf(world, X), Index(T) = Index(X)
  PROVE  T = X
<1>1. StorageIndex(world, T) = StorageIndex(world, X)
  <2>1. StorageIndex(world, T) + 1 = StorageIndex(world, X) + 1
    BY SlotStorage, Sizes DEF StorageOf, Distinct
  <2>2. StorageIndex(world, T) \in Int /\ StorageIndex(world, X) \in Int
    BY SlotStorage
  <2> QED
    BY <2>1, <2>2
<1>2. PICK n \in Nat : world.off = n * N
  BY OffsetIsMultiple, Sizes
<1>3. ASSUME NEW Y \in Slots(world)
      PROVE  Y = world.off + StorageIndex(world, Y) * N + Index(Y)
  <2>1. Y - world.off \in Nat /\ Y \in Nat
    BY SlotStorage
  <2> DEFINE a == Y - world.off
  <2>2. a \in Nat /\ Y = a + n * N
    BY <1>2, <2>1, Sizes
  <2> HIDE DEF a
  <2>3. Y % N = a % N /\ a = ((a \div N) * N) + (a % N) /\ a % N \in Nat /\ (a \div N) * N \in Nat
    BY <1>2, <2>2, SamePlace, Quotient
  <2>4. StorageIndex(world, Y) = a \div N /\ Index(Y) = a % N
    BY <2>3 DEF StorageIndex, Index, a
  <2> QED
    BY <1>2, <2>2, <2>3, <2>4, Sizes
<1> QED
  BY <1>1, <1>3

\* Storages of a world hold the entries of N timestamps each.
LEMMA StorageSlots ==
  ASSUME NEW world \in WorldType, world.off % N = 0,
         NEW j \in 0 .. Len(world.st) - 1, NEW r \in 0 .. N - 1
  PROVE  /\ j * N \in Nat /\ world.off + j * N + r \in Slots(world)
         /\ StorageOf(world, world.off + j * N + r) = world.st[j + 1]
         /\ Index(world.off + j * N + r) = r
<1>0. j \in Nat /\ r \in Nat /\ N \in Nat /\ world.off \in Nat /\ Len(world.st) \in Nat
      /\ r < N /\ j < Len(world.st)
  BY Sizes
<1>1. j * N \in Nat /\ j * N + N <= Len(world.st) * N /\ Len(world.st) * N \in Nat
  BY <1>0, ProductMonotonic
<1> DEFINE T == world.off + j * N + r
<1>2. T \in Nat /\ T - world.off = j * N + r /\ T \in Slots(world)
  <2>1. T \in Nat /\ T - world.off = j * N + r
    BY SMTT(30), <1>0, <1>1
  <2>2. T >= world.off /\ T <= world.off + Len(world.st) * N - 1
    BY SMTT(30), <1>0, <1>1
  <2> QED
    BY <1>0, <1>1, <2>1, <2>2 DEF Slots
<1>3. StorageIndex(world, T) = j
  BY <1>0, <1>2, QuotientIsUnique DEF StorageIndex
<1>4. Index(T) = r
  <2>1. PICK n \in Nat : world.off = n * N
    BY <1>0, OffsetIsMultiple
  <2>2. T = (j * N + r) + n * N /\ j * N + r \in Nat
    BY <1>0, <1>1, <2>1
  <2>3. (j * N + r) % N = r
    BY <1>0, QuotientIsUnique
  <2> HIDE DEF T
  <2>4. T % N = r
    BY <2>1, <2>2, <2>3, SamePlace
  <2> QED
    BY <2>4 DEF Index
<1> QED
  BY <1>1, <1>2, <1>3, <1>4 DEF StorageOf

\* The first timestamp of a storage.
LEMMA BaseOf ==
  ASSUME NEW world \in WorldType, world.off % N = 0, NEW T \in Nat, world.off <= T
  PROVE  /\ Base(world, T) \in Nat /\ Base(world, T) % N = 0
         /\ world.off <= Base(world, T) /\ Base(world, T) <= T /\ T < Base(world, T) + N
         /\ StorageIndex(world, T) \in Nat /\ StorageIndex(world, T) * N \in Nat
         /\ Base(world, T) - world.off = StorageIndex(world, T) * N
<1> DEFINE a == T - world.off
           q == a \div N
<1>1. world.off \in Nat /\ N \in Nat /\ N > 1 /\ a \in Nat /\ T = world.off + a
  BY Sizes
<1> HIDE DEF a
<1>2. /\ q \in Nat /\ a % N \in 0 .. N - 1 /\ q * N \in Nat
      /\ a = (q * N) + (a % N)
  BY <1>1, Quotient
<1>3. (world.off + q * N) % N = 0
  BY <1>1, <1>2, SamePlace
<1>4. Base(world, T) = world.off + q * N /\ StorageIndex(world, T) = q
  BY DEF Base, StorageIndex, a
<1> HIDE DEF q
<1>5. q * N <= a /\ a < q * N + N
  BY <1>1, <1>2
<1> QED
  BY <1>1, <1>2, <1>3, <1>4, <1>5

\* The entry of the timestamp of a world, and of the next one, if it fits.
LEMMA CurrentSlot ==
  ASSUME NEW world \in WorldType, WellFormed(world)
  PROVE  /\ world.ts # 0 => \A T \in Nat : world.off <= T /\ T <= world.ts => T \in Slots(world)
         /\ Fits(world) => world.ts + 1 \in Slots(world)
         /\ world.off <= world.ts
         /\ world.ts = 0 => Slots(world) = {}
<1>1. world.off <= world.ts
  BY Sizes DEF WellFormed
<1>2. world.ts # 0 => \A T \in Nat : world.off <= T /\ T <= world.ts => T \in Slots(world)
  BY Sizes DEF WellFormed, Slots
<1>3. Fits(world) => world.ts + 1 \in Slots(world)
  BY SMTT(30), <1>1, Sizes DEF WellFormed, Slots, Fits
<1>4. world.ts = 0 => Slots(world) = {}
  <2>1. world.ts = 0 => Len(world.st) = 0 /\ world.off = 0
    BY DEF WellFormed
  <2> QED
    BY <2>1, ZeroOffset DEF Slots
<1> QED
  BY <1>1, <1>2, <1>3, <1>4

-----------------------------------------------------------------------------
(* Copies of worlds.                                                       *)

\* A copy with the same storages.
LEMMA ContinuesSame ==
  ASSUME NEW world \in WorldType, NEW copy \in WorldType,
         copy.st = world.st, copy.off = world.off, copy.nt = world.nt
  PROVE  Slots(copy) = Slots(world) /\ Continues(world, copy, None)
<1>1. Slots(copy) = Slots(world) /\ \A T : StorageOf(copy, T) = StorageOf(world, T)
  BY DEF Slots, StorageOf, StorageIndex
<1> QED
  BY <1>1, Sizes DEF Continues

\* A copy with one storage more.
LEMMA ContinuesPushed ==
  ASSUME NEW world \in WorldType, NEW copy \in WorldType, NEW s \in Storages,
         copy.st = Append(world.st, s), copy.off = world.off, copy.nt = world.nt
  PROVE  Continues(world, copy, s)
<1> DEFINE n == Len(world.st)
<1>1. world.st \in Seq(Storages) /\ n \in Nat
  BY Fields
<1>2. /\ Len(copy.st) = n + 1 /\ copy.st[n + 1] = s
      /\ \A k \in 1 .. n : copy.st[k] = world.st[k]
  BY <1>1
<1>3. (n + 1) * N = n * N + N /\ n * N \in Nat /\ N \in Nat
  BY <1>1, Sizes, NextStorage
<1>4. world.off \in Nat /\ s # None /\ world.off <= copy.off
  BY Fields, StorageAssumption
<1>5. ASSUME NEW T \in Slots(world)
      PROVE  T \in Slots(copy) /\ StorageOf(copy, T) = StorageOf(world, T)
  <2>1. /\ StorageIndex(world, T) + 1 \in 1 .. n
        /\ StorageIndex(copy, T) = StorageIndex(world, T)
    BY SlotStorage DEF StorageIndex
  <2>2. T \in Slots(copy)
    BY <1>2, <1>3, <1>4 DEF Slots
  <2> QED
    BY <1>2, <2>1, <2>2 DEF StorageOf
<1>6. ASSUME NEW T \in Slots(copy) \ Slots(world) PROVE StorageOf(copy, T) = s
  <2>1. /\ T \in Nat /\ T - world.off \in Nat
        /\ StorageIndex(copy, T) \in Nat /\ StorageIndex(copy, T) <= n
    BY <1>1, <1>2, <1>6, SlotStorage
  <2>2. ~ T - world.off < n * N
    BY <1>3, <1>4, <1>6, <2>1 DEF Slots
  <2>3. ~ StorageIndex(copy, T) < n
    BY <1>1, <2>1, <2>2, StorageExists DEF StorageIndex
  <2>4. StorageIndex(copy, T) = n
    BY <1>1, <2>1, <2>3
  <2> QED
    BY <1>2, <2>4 DEF StorageOf
<1> QED
  BY <1>4, <1>5, <1>6 DEF Continues

\* Rotating a copy once more.
LEMMA RotatedSlots ==
  ASSUME NEW copy \in WorldType, copy.off % N = 0, Len(copy.st) > 0
  PROVE  /\ \A T \in Slots(copy) : T >= copy.off + N =>
              T \in Slots(Rotated(copy)) /\ StorageOf(Rotated(copy), T) = StorageOf(copy, T)
         /\ \A T \in Slots(Rotated(copy)) \ Slots(copy) : \E X \in Slots(copy) :
              X < copy.off + N /\ Index(X) = Index(T)
                /\ StorageOf(copy, X) = StorageOf(Rotated(copy), T)
<1> DEFINE n == Len(copy.st)
           rot == Rotated(copy)
<1>1. /\ copy.st \in Seq(Storages) /\ n \in Nat /\ n > 0 /\ copy.off \in Nat
      /\ n * N \in Nat /\ N \in Nat /\ N > 1 /\ n * N >= N
  <2>1. 1 * N = N
    BY StorageAssumption
  <2> QED
    BY <2>1, Sizes, Fields, ProductMonotonic
<1>2. /\ rot \in WorldType /\ Len(rot.st) = n /\ rot.off = copy.off + N
      /\ rot.st = Append(Tail(copy.st), Head(copy.st))
  BY RotatedType DEF Rotated, WorldType
<1>3. /\ \A k \in 1 .. n - 1 : rot.st[k] = copy.st[k + 1]
      /\ rot.st[n] = copy.st[1]
  <2>1. Tail(copy.st) \in Seq(Storages) /\ Len(Tail(copy.st)) = n - 1 /\ Head(copy.st) = copy.st[1]
    BY <1>1
  <2>2. \A k \in 1 .. n - 1 : Tail(copy.st)[k] = copy.st[k + 1]
    BY <1>1
  <2> QED
    BY <1>1, <1>2, <2>1, <2>2
<1> HIDE DEF n, rot
<1>4. ASSUME NEW T \in Slots(copy), T >= copy.off + N
      PROVE  T \in Slots(rot) /\ StorageOf(rot, T) = StorageOf(copy, T)
  <2>0. T \in Nat /\ T < copy.off + n * N
    BY SlotStorage DEF n
  <2>1. T \in Slots(rot)
    BY <1>1, <1>2, <1>4, <2>0 DEF Slots
  <2> DEFINE a == T - rot.off
  <2>2. a \in Nat /\ T - copy.off = a + 1 * N
    BY <1>1, <1>2, <1>4, <2>0, StorageAssumption
  <2> HIDE DEF a
  <2>3. (a + 1 * N) \div N = a \div N + 1 /\ a \div N \in Nat
    BY <2>2, SamePlace, Quotient
  <2>4. StorageIndex(copy, T) = StorageIndex(rot, T) + 1 /\ StorageIndex(rot, T) \in Nat
    BY <2>2, <2>3 DEF StorageIndex, a
  <2>5. StorageIndex(copy, T) + 1 \in 1 .. n
    BY SlotStorage DEF n
  <2>6. StorageIndex(rot, T) + 1 \in 1 .. n - 1
    BY <1>1, <2>4, <2>5
  <2>7. rot.st[StorageIndex(rot, T) + 1] = copy.st[(StorageIndex(rot, T) + 1) + 1]
    BY <1>3, <2>6
  <2> QED
    BY <2>1, <2>4, <2>7 DEF StorageOf
<1>5. ASSUME NEW T \in Slots(rot) \ Slots(copy)
      PROVE  \E X \in Slots(copy) :
                X < copy.off + N /\ Index(X) = Index(T) /\ StorageOf(copy, X) = StorageOf(rot, T)
  <2>1. T \in Nat /\ T < rot.off + n * N /\ T >= rot.off /\ T - rot.off \in Nat
    BY <1>2, <1>5, SlotStorage
  <2>2. T >= copy.off + n * N
    BY <1>1, <1>2, <1>5, <2>1 DEF Slots, n
  <2> DEFINE X == T - n * N
  <2>3. X \in Nat /\ T = X + n * N /\ X >= copy.off /\ X < copy.off + N /\ X \in Slots(copy)
    <3> DEFINE nN == n * N
    <3>1. /\ nN \in Nat /\ N <= nN /\ T \in Nat /\ T >= copy.off + nN
          /\ rot.off = copy.off + N /\ T < rot.off + nN
      BY <1>1, <1>2, <2>1, <2>2
    <3> HIDE DEF nN
    <3>2. /\ T - nN \in Nat /\ T = T - nN + nN /\ T - nN >= copy.off
          /\ T - nN < copy.off + N /\ T - nN \in copy.off .. copy.off + nN - 1
      BY <1>1, <3>1
    <3> QED
      BY <3>2 DEF Slots, n, nN
  <2> HIDE DEF X
  <2>4. Index(T) = Index(X)
    BY <1>1, <2>3, SamePlace DEF Index
  <2>5. StorageIndex(copy, X) = 0
    <3>1. X - copy.off \in 0 .. N - 1 /\ 0 * N + (X - copy.off) = X - copy.off
      BY <1>1, <2>3, ZeroOffset
    <3> QED
      BY <3>1, QuotientIsUnique DEF StorageIndex
  <2>6. StorageIndex(rot, T) = n - 1
    <3> DEFINE m == n - 1
               r == T - rot.off - m * N
    <3>1. m \in Nat /\ m * N \in Nat /\ m * N + N = n * N
      BY <1>1, NextStorage
    <3>2. r \in 0 .. N - 1 /\ m * N + r = T - rot.off
      <4> DEFINE mN == m * N
                 nN == n * N
      <4>1. mN \in Nat /\ nN \in Nat /\ mN + N = nN /\ T \in Nat
        BY <1>1, <2>1, <3>1
      <4>2. T >= copy.off + nN /\ rot.off = copy.off + N /\ T < rot.off + nN
        BY <1>2, <2>1, <2>2
      <4> HIDE DEF mN, nN
      <4>3. T < (copy.off + N) + nN
        BY <4>2
      <4>4. T - rot.off - mN \in 0 .. N - 1
        BY <1>1, <4>1, <4>2
      <4>5. mN + (T - rot.off - mN) = T - rot.off
        BY <1>1, <4>1, <4>2
      <4> QED
        BY <4>4, <4>5 DEF mN
    <3> HIDE DEF m, r
    <3>3. StorageIndex(rot, T) = m
      BY <3>1, <3>2, QuotientIsUnique DEF StorageIndex
    <3> QED
      BY <3>3 DEF m
  <2>7. StorageOf(rot, T) = copy.st[1] /\ StorageOf(copy, X) = copy.st[1]
    BY <1>1, <1>3, <2>5, <2>6 DEF StorageOf
  <2> QED
    BY <2>3, <2>4, <2>7
<1> QED
  BY <1>4, <1>5 DEF rot

\* A rotated copy has the storage it took away at its end.
LEMMA ContinuesRotated ==
  ASSUME NEW world \in WorldType, NEW copy \in WorldType, Continues(world, copy, None),
         copy.off % N = 0, Len(copy.st) > 0
  PROVE  Continues(world, Rotated(copy), None)
<1> DEFINE rot == Rotated(copy)
<1>1. rot.off = copy.off + N /\ rot.nt = copy.nt /\ rot \in WorldType
  BY RotatedType DEF Rotated, WorldType
<1>2. copy.off \in Nat /\ world.off \in Nat /\ N \in Nat
  BY Sizes
<1> HIDE DEF rot
<1>3. world.off <= rot.off /\ rot.nt = world.nt
  BY <1>1, <1>2 DEF Continues
<1>4. ASSUME NEW T \in Slots(world), rot.off <= T
      PROVE  T \in Slots(rot) /\ StorageOf(rot, T) = StorageOf(world, T)
  <2>1. T \in Nat /\ copy.off <= T /\ T >= copy.off + N
    BY <1>1, <1>2, <1>4, SlotStorage
  <2>2. T \in Slots(copy) /\ StorageOf(copy, T) = StorageOf(world, T)
    BY <2>1 DEF Continues
  <2> QED
    BY <2>1, <2>2, RotatedSlots DEF rot
<1>5. ASSUME NEW T \in Slots(rot) \ Slots(world)
      PROVE  \E X \in Slots(world) :
                X < rot.off /\ Index(X) = Index(T) /\ StorageOf(world, X) = StorageOf(rot, T)
  <2>1. PICK Y \in Slots(copy) : Index(Y) = Index(T) /\ StorageOf(copy, Y) = StorageOf(rot, T)
                                  /\ (Y = T \/ Y < copy.off + N)
    <3>1. CASE T \in Slots(copy)
      <4>1. T >= copy.off + N /\ T \in Nat
        BY <1>1, <1>5, SlotStorage
      <4> QED
        BY <3>1, <4>1, RotatedSlots DEF rot
    <3>2. CASE T \notin Slots(copy)
      BY <1>5, <3>2, RotatedSlots DEF rot
    <3> QED
      BY <3>1, <3>2
  <2>2. Y \in Nat /\ Y >= copy.off
    BY SlotStorage
  <2>3. CASE Y \in Slots(world)
    <3>1. StorageOf(world, Y) = StorageOf(copy, Y) /\ Y # T
      BY <1>5, <2>2, <2>3 DEF Continues
    <3> QED
      BY <1>1, <2>1, <2>3, <3>1
  <2>4. CASE Y \notin Slots(world)
    <3>1. PICK X \in Slots(world) :
             X < copy.off /\ Index(X) = Index(Y) /\ StorageOf(world, X) = StorageOf(copy, Y)
      BY <2>4 DEF Continues
    <3>2. X \in Nat /\ X < rot.off
      BY <1>1, <1>2, <3>1, SlotStorage
    <3> QED
      BY <2>1, <3>1, <3>2
  <2> QED
    BY <2>3, <2>4
<1> QED
  BY <1>3, <1>4, <1>5 DEF Continues, rot

SInv == OInv /\ Sound

-----------------------------------------------------------------------------
(* What a step leaves alone.                                               *)

\* The thread u takes no step.
Stays(u) ==
    /\ tss'[u] = tss[u] /\ pc'[u] = pc[u] /\ op'[u] = op[u] /\ new'[u] = new[u]
    /\ cur'[u] = cur[u] /\ cwp'[u] = cwp[u] /\ owp'[u] = owp[u]
    /\ kind'[u] = kind[u] /\ mine'[u] = mine[u] /\ own'[u] = own[u] /\ i'[u] = i[u]

\* The types that the steps rely on.
LEMMA Types ==
  ASSUME SInv
  PROVE  /\ wp \in WorldType /\ WellFormed(wp)
         /\ wp.ts \in Nat /\ wp.off \in Nat /\ wp.bit \in 0 .. 1 /\ wp.nt \in Nat
         /\ bits \in [Storages -> SUBSET Indices]
         /\ rc \in [Storages -> [Indices -> Int]]
         /\ list \in [Storages -> [Indices -> SUBSET (1 .. MaxTimestamp)]]
         /\ pool \subseteq Storages /\ N \in Nat /\ N > 1
         /\ \A t \in Threads :
               /\ tss[t] \in Nat /\ cur[t] \in Nat /\ new[t] \in Nat /\ i[t] \in Nat
               /\ pc[t] \in Pcs /\ owp[t] \in WorldType /\ cwp[t] \in WorldType
               /\ mine[t] \in WorldType /\ own[t] \in Storages \cup {None}
               /\ Held(t) \in Nat /\ Cursor(t) \in Nat /\ Held(t) <= Cursor(t)
               /\ CallIsConsistent(t) /\ CopyIsOwned(t) /\ ThreadAgrees(t)
         /\ Distinct(wp.st) /\ wp.off % N = 0
<1> USE DEF SInv, OInv, IInv
<1>1. /\ wp \in WorldType /\ WellFormed(wp)
      /\ bits \in [Storages -> SUBSET Indices]
      /\ rc \in [Storages -> [Indices -> Int]]
      /\ list \in [Storages -> [Indices -> SUBSET (1 .. MaxTimestamp)]]
      /\ pool \subseteq Storages /\ N \in Nat /\ N > 1
      /\ Distinct(wp.st) /\ wp.off % N = 0
  BY StorageAssumption DEF TypeOK, WorldIsWellFormed, Disjoint, WellFormed
<1>2. wp.ts \in Nat /\ wp.off \in Nat /\ wp.bit \in 0 .. 1 /\ wp.nt \in Nat
  BY <1>1, Fields, Sizes
<1>3. ASSUME NEW t \in Threads
      PROVE  /\ tss[t] \in Nat /\ cur[t] \in Nat /\ new[t] \in Nat /\ i[t] \in Nat
             /\ pc[t] \in Pcs /\ owp[t] \in WorldType /\ cwp[t] \in WorldType
             /\ mine[t] \in WorldType /\ own[t] \in Storages \cup {None}
  BY StorageAssumption DEF TypeOK
<1>4. ASSUME NEW t \in Threads
      PROVE  Held(t) \in Nat /\ Cursor(t) \in Nat /\ Held(t) <= Cursor(t)
  BY <1>3 DEF Held, Cursor, InLoop
<1>5. \A t \in Threads : CallIsConsistent(t) /\ CopyIsOwned(t) /\ ThreadAgrees(t)
  BY DEF CallsAreConsistent, CopiesAreOwned, Sound, ThreadsAgree
<1> QED
  BY <1>1, <1>2, <1>3, <1>4, <1>5

\* What a thread relies on of its own variables and of the world, if these
\* stay as they are.
LEMMA SameThread ==
  ASSUME NEW u, Stays(u)
  PROVE  /\ Held(u)' = Held(u) /\ Cursor(u)' = Cursor(u)
         /\ InCheckin(u)' = InCheckin(u) /\ BitIsSet(u)' = BitIsSet(u)
         /\ KeepsOwp(u)' = KeepsOwp(u) /\ Filing(u)' = Filing(u) /\ Empties(u)' = Empties(u)
         /\ LocalsAgree(u) => LocalsAgree(u)'
<1> USE DEF Stays
<1>1. InLoop(u)' = InLoop(u)
  BY DEF InLoop
<1>2. Held(u)' = Held(u) /\ Cursor(u)' = Cursor(u)
  BY <1>1 DEF Held, Cursor
<1>3. InCheckin(u)' = InCheckin(u) /\ BitIsSet(u)' = BitIsSet(u) /\ KeepsOwp(u)' = KeepsOwp(u)
  BY <1>1 DEF InCheckin, BitIsSet, KeepsOwp
<1>4. Filing(u)' = Filing(u) /\ Empties(u)' = Empties(u)
  BY DEF Filing, Empties
<1>5. LocalsAgree(u) => LocalsAgree(u)'
  BY <1>3 DEF LocalsAgree
<1> QED
  BY <1>2, <1>3, <1>4, <1>5

\* The entry of a timestamp stays right if nothing about it changes.
LEMMA EntryKept ==
  ASSUME NEW T, EntryIsRight(T), StorageOf(wp', T) = StorageOf(wp, T),
         T \in 1 .. wp'.ts <=> T \in 1 .. wp.ts,
         EntryOf(rc', wp, T) = EntryOf(rc, wp, T), EntryOf(list', wp, T) = EntryOf(list, wp, T),
         Index(T) \in bits[StorageOf(wp, T)] => Index(T) \in bits'[StorageOf(wp, T)],
         T \in 1 .. wp.ts => Awaited(T)' = Awaited(T) /\ Holders(T)' = Holders(T),
         \A u \in Threads : Raiser(u, T)' = Raiser(u, T) /\ (Raiser(u, T) => cwp'[u].nt = cwp[u].nt)
  PROVE  EntryIsRight(T)'
<1>1. CASE T \notin 1 .. wp.ts
  BY <1>1 DEF EntryIsRight, Initial, EntryOf
<1>2. CASE T \in 1 .. wp.ts
  <2>1. /\ EntryOf(rc, wp, T)' = EntryOf(rc, wp, T) /\ EntryOf(list, wp, T)' = EntryOf(list, wp, T)
        /\ (Index(T) \in bits[StorageOf(wp, T)]) => (Index(T) \in bits[StorageOf(wp, T)])'
    BY DEF EntryOf
  <2> QED
    BY <1>2, <2>1 DEF EntryIsRight
<1> QED
  BY <1>1, <1>2

\* A world keeps the entries that somebody may still touch.
Keeps(world, copy) ==
    \A T \in Slots(world) : copy.off <= T /\ T <= world.ts =>
        T \in Slots(copy) /\ StorageOf(copy, T) = StorageOf(world, T)

\* What thread u relies on still holds after a step of another thread.
LEMMA OtherAgrees ==
  ASSUME SInv, NEW u \in Threads, Stays(u),
         wp'.ts \in Nat, wp'.bit \in 0 .. 1, wp'.ts >= wp.ts,
         wp'.ts + wp'.bit >= wp.ts + wp.bit,
         tss[u] # 0 => wp'.off <= Held(u), wp'.off \in Nat,
         Keeps(wp, wp'),
         u \in cfresh' => u \in cfresh /\ SameWorld(wp', wp),
         u \in ofresh' => u \in ofresh /\ SameWorld(wp', wp),
         own[u] # None => rc'[own[u]] = rc[own[u]] /\ list'[own[u]] = list[own[u]],
         u \in cfresh' => Registered' = Registered /\ \A v \in Registered : Held(v)' \in Nat /\ Held(v) <= Held(v)',
         u \in cfresh' /\ pc[u] = "cas" /\ Index(mine[u].ts) \in bits[StorageOf(mine[u], mine[u].ts)]
             => Index(mine[u].ts) \in bits'[StorageOf(mine[u], mine[u].ts)]
  PROVE  ThreadAgrees(u)'
<1>0. /\ ThreadAgrees(u) /\ wp.ts \in Nat /\ wp.off \in Nat /\ wp.bit \in 0 .. 1
      /\ tss[u] \in Nat /\ new[u] \in Nat /\ Held(u) \in Nat /\ Cursor(u) \in Nat
      /\ Held(u) <= Cursor(u) /\ cwp[u] \in WorldType /\ N \in Nat /\ mine[u] \in WorldType
      /\ wp \in WorldType /\ CallIsConsistent(u) /\ i[u] \in Nat
  BY Types
<1>s. /\ Held(u)' = Held(u) /\ Cursor(u)' = Cursor(u)
      /\ BitIsSet(u)' = BitIsSet(u) /\ KeepsOwp(u)' = KeepsOwp(u) /\ Filing(u)' = Filing(u)
      /\ tss'[u] = tss[u] /\ pc'[u] = pc[u] /\ new'[u] = new[u] /\ cwp'[u] = cwp[u]
      /\ owp'[u] = owp[u] /\ kind'[u] = kind[u] /\ mine'[u] = mine[u] /\ own'[u] = own[u]
      /\ i'[u] = i[u]
  BY SameThread DEF Stays
<1>1. LocalsAgree(u)'
  BY <1>0, SameThread DEF ThreadAgrees
<1>2. PointersAgree(u)'
  BY <1>0, <1>s DEF ThreadAgrees, PointersAgree, SameWorld
<1>3. CursorAgrees(u)'
  <2>1. CursorAgrees(u)
    BY <1>0 DEF ThreadAgrees
  <2> SUFFICES ASSUME tss[u] # 0
               PROVE  /\ wp'.off <= Held(u)' /\ Cursor(u)' <= wp'.ts + wp'.bit
                      /\ new'[u] <= wp'.ts
                      /\ BitIsSet(u)' => new'[u] + 1 <= wp'.ts + wp'.bit
                      /\ Filing(u)' => cwp'[u].ts \in 1 .. wp'.ts /\ Cursor(u)' <= cwp'[u].ts
                      /\ pc'[u] = "retain" => cwp'[u].nt \in 1 .. Cardinality(Threads)
    BY <1>s DEF CursorAgrees
  <2>2. /\ Cursor(u) <= wp.ts + wp.bit /\ new[u] <= wp.ts
        /\ BitIsSet(u) => new[u] + 1 <= wp.ts + wp.bit
        /\ Filing(u) => cwp[u].ts \in 1 .. wp.ts /\ Cursor(u) <= cwp[u].ts
        /\ pc[u] = "retain" => cwp[u].nt \in 1 .. Cardinality(Threads)
    BY <2>1 DEF CursorAgrees
  <2>3. Cursor(u) <= wp'.ts + wp'.bit /\ new[u] <= wp'.ts
    BY <1>0, <2>2
  <2>4. BitIsSet(u) => new[u] + 1 <= wp'.ts + wp'.bit
    BY <1>0, <2>2
  <2>5. Filing(u) => cwp[u].ts \in 1 .. wp'.ts
    BY <1>0, <2>2
  <2> QED
    BY <1>s, <2>2, <2>3, <2>4, <2>5
<1>4. WorldsAgree(u)'
  <2>1. WorldsAgree(u) /\ CursorAgrees(u) /\ LocalsAgree(u)
    BY <1>0 DEF ThreadAgrees
  <2>2. ASSUME Filing(u) PROVE Agrees(cwp[u], cwp[u].ts)'
    <3>1. tss[u] # 0
      BY <2>1, <2>2 DEF LocalsAgree, Filing, FreePcs
    <3>2. cwp[u].ts \in 1 .. wp.ts /\ Cursor(u) <= cwp[u].ts
      BY <2>1, <2>2, <3>1 DEF CursorAgrees
    <3>3. wp'.off <= cwp[u].ts /\ cwp[u].ts <= wp.ts
      BY <1>0, <3>1, <3>2
    <3>4. Agrees(cwp[u], cwp[u].ts)
      BY <2>1, <2>2 DEF WorldsAgree
    <3> QED
      BY <1>s, <3>3, <3>4 DEF Agrees, Keeps
  <2>3. ASSUME KeepsOwp(u) PROVE owp[u].ts # 0 /\ \A T \in Held(u) .. new[u] : Agrees(owp[u], T)'
    <3>1. tss[u] # 0
      BY <2>1, <2>3 DEF LocalsAgree, KeepsOwp, BitIsSet, InCheckin, InLoop, CheckinPcs
    <3>2. new[u] <= wp.ts /\ wp'.off <= Held(u)
      BY <2>1, <3>1 DEF CursorAgrees
    <3> SUFFICES ASSUME NEW T \in Held(u) .. new[u] PROVE Agrees(owp[u], T)'
      BY <2>1, <2>3 DEF WorldsAgree
    <3>3. Agrees(owp[u], T)
      BY <2>1, <2>3 DEF WorldsAgree
    <3>4. wp'.off <= T /\ T <= wp.ts
      BY <1>0, <3>2
    <3> QED
      BY <1>s, <3>3, <3>4 DEF Agrees, Keeps
  <2> QED
    BY <1>s, <2>2, <2>3 DEF WorldsAgree
<1>5. PrivateIsInitial(u)'
  BY <1>0, <1>s DEF ThreadAgrees, PrivateIsInitial, Initial
<1>6. CopyAgrees(u)'
  <2>1. CopyAgrees(u)
    BY <1>0 DEF ThreadAgrees
  <2>2. ASSUME pc[u] = "cas", u \in cfresh' PROVE \A v \in Registered' : mine[u].off <= Held(v)'
    <3>1. \A v \in Registered : mine[u].off <= Held(v)
      BY <2>1, <2>2 DEF CopyAgrees
    <3>2. mine[u].off \in Nat
      BY <1>0, Sizes
    <3>3. \A v \in Registered : Held(v) \in Nat
      BY Types DEF Registered
    <3> QED
      BY <2>2, <3>1, <3>2, <3>3
  <2>3. ASSUME pc[u] = "scan", kind[u] = "reorganize", u \in cfresh',
               NEW v \in Registered'
        PROVE  RotationIsSafe(u, v)'
    <3>1. RotationIsSafe(u, v) /\ v \in Registered /\ Held(v) <= Held(v)' /\ Held(v)' \in Nat
      BY <2>1, <2>3 DEF CopyAgrees
    <3>2. mine[u].off \in Nat /\ cwp[u].off \in Nat /\ cwp[u].ts \in Nat
      BY <1>0, Sizes
    <3>3. Held(v) \in Nat
      BY <3>1, Types DEF Registered
    <3>4. WellFormed(cwp[u])
      BY <1>0, <2>3 DEF CallIsConsistent
    <3>5. Base(cwp[u], cwp[u].ts) \in Nat /\ i[u] * N \in Nat
      <4>1. cwp[u].off <= cwp[u].ts /\ cwp[u].off % N = 0
        BY <1>0, <3>2, <3>4, CurrentSlot DEF WellFormed
      <4> QED
        BY <1>0, <3>2, <4>1, BaseOf, NextStorage
    <3> DEFINE b == Base(cwp[u], cwp[u].ts)
               x == i[u] * N
    <3>6. b' = b /\ x' = x
      BY <1>s DEF Base, StorageIndex
    <3>7. b \in Nat /\ x \in Nat
      BY <3>5
    <3>8. RotationIsSafe(u, v) <=> \/ mine[u].off - cwp[u].off = 0
                                   \/ Held(v) >= mine[u].off + (mine[u].off - cwp[u].off) - N
                                   \/ Held(v) >= (mine[u].off - cwp[u].off) + b - x
      BY DEF RotationIsSafe
    <3>9. RotationIsSafe(u, v)' <=> \/ mine[u].off - cwp[u].off = 0
                                    \/ Held(v)' >= mine[u].off + (mine[u].off - cwp[u].off) - N
                                    \/ Held(v)' >= (mine[u].off - cwp[u].off) + b - x
      BY <1>s, <3>6 DEF RotationIsSafe
    <3> HIDE DEF b, x
    <3> QED
      BY <1>0, <3>1, <3>2, <3>3, <3>7, <3>8, <3>9
  <2>5. ASSUME pc[u] = "cas"
        PROVE  /\ mine'[u].ts = cwp'[u].ts + 1 /\ mine'[u].bit = 0
               /\ cwp'[u].bit = 1 /\ cwp'[u].nt > 1
               /\ Continues(cwp[u], mine[u], own[u])'
               /\ u \in cfresh' => (Index(mine[u].ts) \in bits[StorageOf(mine[u], mine[u].ts)])'
    <3>1. /\ mine[u].ts = cwp[u].ts + 1 /\ mine[u].bit = 0
          /\ cwp[u].bit = 1 /\ cwp[u].nt > 1
          /\ Continues(cwp[u], mine[u], own[u])
          /\ u \in cfresh => Index(mine[u].ts) \in bits[StorageOf(mine[u], mine[u].ts)]
      BY <2>1, <2>5 DEF CopyAgrees
    <3>2. Continues(cwp[u], mine[u], own[u])'
      BY <1>s, <3>1
    <3>3. u \in cfresh' => Index(mine[u].ts) \in bits'[StorageOf(mine[u], mine[u].ts)]
      BY <2>5, <3>1
    <3> QED
      BY <1>s, <3>1, <3>2, <3>3
  <2>6. ASSUME pc[u] = "scan", kind[u] = "reorganize"
        PROVE  /\ mine'[u].bit = 1 /\ cwp'[u].bit = 1 /\ cwp'[u].nt > 1
               /\ Continues(cwp[u], mine[u], None)'
    <3>1. /\ mine[u].bit = 1 /\ cwp[u].bit = 1 /\ cwp[u].nt > 1
          /\ Continues(cwp[u], mine[u], None)
      BY <2>1, <2>6 DEF CopyAgrees
    <3>2. Continues(cwp[u], mine[u], None)'
      BY <1>s, <3>1
    <3> QED
      BY <1>s, <3>1, <3>2
  <2> QED
    BY <1>s, <2>2, <2>3, <2>5, <2>6 DEF CopyAgrees
<1> QED
  BY <1>1, <1>2, <1>3, <1>4, <1>5, <1>6 DEF ThreadAgrees

\* A copy of the current world is made of storages that are in use.
LEMMA CopyStorages ==
  ASSUME SInv, NEW u \in Threads, pc[u] = "cas", cwp[u].st = wp.st
  PROVE  /\ StorageOf(mine[u], mine[u].ts) \in StoragesOf(wp) \cup ({own[u]} \ {None})
         /\ StorageOf(mine[u], mine[u].ts) \in Storages \ pool
         /\ own[u] # None => own[u] \in Storages \ pool /\ own[u] \notin StoragesOf(wp)
         /\ mine[u].ts \in Slots(mine[u])
<1>1. /\ cwp[u] \in WorldType /\ mine[u] \in WorldType /\ WellFormed(mine[u])
      /\ CopyIsOwned(u) /\ CopyAgrees(u) /\ own[u] \in Storages \cup {None} /\ wp \in WorldType
  BY Types DEF CallIsConsistent, ThreadAgrees
<1>2. mine[u].ts \in Slots(mine[u])
  <2>1. mine[u].ts # 0 /\ mine[u].ts \in Nat
    BY <1>1, Sizes DEF CopyAgrees
  <2> QED
    BY <1>1, <2>1, CurrentSlot
<1>3. StorageOf(mine[u], mine[u].ts) \in StoragesOf(mine[u])
  BY <1>1, <1>2, SlotStorage
<1>4. StoragesOf(cwp[u]) = StoragesOf(wp)
  BY DEF StoragesOf
<1>5. StoragesOf(mine[u]) \subseteq StoragesOf(wp) \cup ({own[u]} \ {None})
  <2>1. CASE own[u] = None
    BY <1>1, <1>4, <2>1 DEF CopyIsOwned, SameStorages
  <2>2. CASE own[u] # None
    <3>1. mine[u].st = Append(cwp[u].st, own[u]) /\ own[u] \in Storages
      BY <1>1, <2>2 DEF CopyIsOwned
    <3>2. StoragesOf(mine[u]) = StoragesOf(cwp[u]) \cup {own[u]}
      BY SMTT(30), <1>1, <3>1, AppendedStorages
    <3> QED
      BY <1>4, <2>2, <3>2
  <2> QED
    BY <2>1, <2>2
<1>6. own[u] # None => own[u] \in Private(u)
  BY DEF Private
<1>7. Disjoint
  BY DEF SInv, OInv
<1>8. StoragesOf(wp) \subseteq Storages \ pool
  BY <1>1, <1>7, StoragesType DEF Disjoint
<1>9. own[u] # None => own[u] \in Storages \ pool /\ own[u] \notin StoragesOf(wp)
  BY <1>1, <1>6, <1>7 DEF Disjoint
<1> QED
  BY <1>2, <1>3, <1>5, <1>8, <1>9

\* A storage that a thread holds is neither pooled, nor in the world, nor held by
\* another thread.
LEMMA OwnIsNotPooled ==
  ASSUME SInv, NEW u \in Threads, own[u] # None
  PROVE  own[u] \in Storages \ pool /\ own[u] \notin StoragesOf(wp)
         /\ \A t \in Threads \ {u} : own[t] # own[u]
<1>1. own[u] \in Private(u) /\ own[u] \in Storages /\ Disjoint
  BY Types DEF Private, SInv, OInv
<1>2. \A t \in Threads : own[t] = own[u] => own[u] \in Private(t)
  BY DEF Private
<1> QED
  BY <1>1, <1>2 DEF Disjoint

\* The storages of the world are not pooled, and its timestamps have entries in them.
LEMMA WorldIsNotPooled ==
  ASSUME SInv
  PROVE  /\ StoragesOf(wp) \subseteq Storages \ pool
         /\ \A T \in Slots(wp) : StorageOf(wp, T) \in Storages \ pool /\ Index(T) \in Indices
<1>1. wp \in WorldType /\ Disjoint
  BY Types DEF SInv, OInv
<1>2. StoragesOf(wp) \subseteq Storages \ pool
  BY <1>1, StoragesType DEF Disjoint
<1> QED
  BY <1>1, <1>2, SlotStorage

\* The steps that neither replace the world by one with other contents nor
\* change an entry, an entry's users or what they have still to do.
Quiet(t) ==
    /\ \A u \in Threads \ {t} : Stays(u)
    /\ SameWorld(wp', wp) /\ wp'.bit \in 0 .. 1 /\ wp'.bit >= wp.bit
    /\ tss'[t] = 0 <=> tss[t] = 0
    /\ Held(t)' = Held(t) /\ Cursor(t)' = Cursor(t)
    /\ pc[t] \notin {"retain", "snip", "clear"} /\ pc'[t] \notin {"retain", "snip", "clear"}
    /\ cfresh' \ {t} \subseteq cfresh /\ ofresh' \ {t} \subseteq ofresh
    /\ \A s \in Storages \ pool :
          rc'[s] = rc[s] /\ list'[s] = list[s] /\ bits[s] \subseteq bits'[s]

\* No thread gets ahead or falls back in a quiet step.
LEMMA QuietProgress ==
  ASSUME NEW t \in Threads, Quiet(t)
  PROVE  /\ Registered' = Registered
         /\ \A u \in Threads : Held(u)' = Held(u) /\ Cursor(u)' = Cursor(u)
         /\ \A T : Awaited(T)' = Awaited(T) /\ Holders(T)' = Holders(T)
<1>1. \A u \in Threads : Held(u)' = Held(u) /\ Cursor(u)' = Cursor(u)
  BY SameThread DEF Quiet
<1>2. \A u \in Threads : tss'[u] = 0 <=> tss[u] = 0
  BY DEF Quiet, Stays
<1>3. Registered' = Registered
  BY <1>2 DEF Registered
<1>4. \A T : Awaited(T)' = Awaited(T) /\ Holders(T)' = Holders(T)
  <2> SUFFICES ASSUME NEW T PROVE Awaited(T)' = Awaited(T) /\ Holders(T)' = Holders(T)
    OBVIOUS
  <2>1. Registered \subseteq Threads
    BY DEF Registered
  <2> QED
    BY <1>1, <1>3, <2>1 DEF Awaited, Holders
<1> QED
  BY <1>1, <1>3, <1>4

\* A quiet step keeps the invariant, if the thread that takes it agrees.
LEMMA QuietSound ==
  ASSUME SInv, NEW t \in Threads, Quiet(t), ThreadAgrees(t)'
  PROVE  Sound'
<1> USE DEF Quiet
<1>0. /\ wp \in WorldType /\ wp.ts \in Nat /\ wp.bit \in 0 .. 1 /\ wp.off \in Nat
      /\ bits \in [Storages -> SUBSET Indices]
  BY Types
<1>1. /\ wp'.ts = wp.ts /\ wp'.off = wp.off /\ wp'.st = wp.st /\ wp'.nt = wp.nt
  BY DEF SameWorld
<1>2. /\ Slots(wp') = Slots(wp)
      /\ \A T : StorageOf(wp', T) = StorageOf(wp, T)
  BY <1>1 DEF Slots, StorageOf, StorageIndex
<1>3. ThreadsAgree'
  <2> SUFFICES ASSUME NEW u \in Threads \ {t} PROVE ThreadAgrees(u)'
    BY DEF ThreadsAgree
  <2>1. Stays(u) /\ ThreadAgrees(u) /\ CursorAgrees(u) /\ PointersAgree(u) /\ Held(u) \in Nat
    BY Types DEF ThreadAgrees
  <2>2. /\ wp'.ts \in Nat /\ wp'.bit \in 0 .. 1 /\ wp'.ts >= wp.ts
        /\ wp'.ts + wp'.bit >= wp.ts + wp.bit /\ wp'.off \in Nat
    BY <1>0, <1>1
  <2>3. tss[u] # 0 => wp'.off <= Held(u)
    BY <1>1, <2>1 DEF CursorAgrees
  <2>4. Keeps(wp, wp')
    BY <1>2 DEF Keeps
  <2>5. own[u] # None => rc'[own[u]] = rc[own[u]] /\ list'[own[u]] = list[own[u]]
    BY OwnIsNotPooled
  <2>6. Registered' = Registered /\ \A v \in Registered : Held(v)' \in Nat /\ Held(v) <= Held(v)'
    BY QuietProgress, Types DEF Registered
  <2>7. ASSUME u \in cfresh', pc[u] = "cas", Index(mine[u].ts) \in bits[StorageOf(mine[u], mine[u].ts)]
        PROVE  Index(mine[u].ts) \in bits'[StorageOf(mine[u], mine[u].ts)]
    <3>1. cwp[u].st = wp.st
      BY <2>1, <2>7 DEF PointersAgree, SameWorld
    <3> QED
      BY <2>7, <3>1, CopyStorages
  <2>8. /\ u \in cfresh' => u \in cfresh /\ SameWorld(wp', wp)
        /\ u \in ofresh' => u \in ofresh /\ SameWorld(wp', wp)
    OBVIOUS
  <2> QED
    BY <2>1, <2>2, <2>3, <2>4, <2>5, <2>6, <2>7, <2>8, OtherAgrees
<1>4. EntriesAreRight'
  <2> SUFFICES ASSUME NEW T \in Slots(wp) PROVE EntryIsRight(T)'
    BY <1>2 DEF EntriesAreRight
  <2>1. EntryIsRight(T)
    BY DEF SInv, Sound, EntriesAreRight
  <2>2. StorageOf(wp, T) \in Storages \ pool
    BY WorldIsNotPooled
  <2>3. /\ EntryOf(rc', wp, T) = EntryOf(rc, wp, T) /\ EntryOf(list', wp, T) = EntryOf(list, wp, T)
        /\ Index(T) \in bits[StorageOf(wp, T)] => Index(T) \in bits'[StorageOf(wp, T)]
    BY <2>2 DEF EntryOf
  <2>4. \A u \in Threads : Raiser(u, T)' = Raiser(u, T) /\ (Raiser(u, T) => cwp'[u].nt = cwp[u].nt)
    BY DEF Raiser, Stays
  <2> QED
    BY <1>1, <1>2, <2>1, <2>3, <2>4, QuietProgress, EntryKept
<1>5. WorldCounts'
  BY <1>1, QuietProgress DEF SInv, Sound, WorldCounts
<1>6. RaisersAgree'
  <2>1. \A u \in Threads : pc'[u] = "retain" => pc[u] = "retain" /\ cwp'[u] = cwp[u]
    BY DEF Stays
  <2> QED
    BY <2>1 DEF SInv, Sound, RaisersAgree
<1>7. EmptiersAgree'
  <2>1. \A u \in Threads : pc'[u] \in {"snip", "clear"} =>
            pc[u] = pc'[u] /\ cur'[u] = cur[u] /\ u # t
    BY DEF Stays
  <2>2. EmptiersAgree
    BY DEF SInv, Sound
  <2>3. ASSUME NEW u \in Threads, pc'[u] = "clear" PROVE EntryOf(list, wp, cur[u])' = {}
    <3>1. pc[u] = "clear" /\ cur'[u] = cur[u] /\ EntryOf(list, wp, cur[u]) = {}
      BY <2>1, <2>2, <2>3 DEF EmptiersAgree
    <3>2. InLoop(u) /\ cur[u] <= new[u] /\ WorldsAgree(u) /\ cur[u] \in Nat /\ new[u] \in Nat
      BY <3>1, Types DEF InLoop, CallIsConsistent, ThreadAgrees
    <3>3. cur[u] \in Slots(wp)
      BY <3>2 DEF WorldsAgree, KeepsOwp, Held, Agrees
    <3>4. StorageOf(wp, cur[u]) \in Storages \ pool
      BY <3>3, WorldIsNotPooled
    <3> QED
      BY <1>2, <3>1, <3>4 DEF EntryOf
  <2>4. \A u \in Threads : Empties(u)' => Empties(u) /\ cur'[u] = cur[u]
    BY <2>1 DEF Empties
  <2>5. \A u \in Threads : Empties(u)' => (Awaited(cur[u]))' = {}
    <3>1. \A u \in Threads : Empties(u) => Awaited(cur[u]) = {}
      BY <2>2 DEF EmptiersAgree
    <3>2. \A u \in Threads : Empties(u)' => Awaited(cur[u])' = Awaited(cur'[u])
      BY QuietProgress, <2>4
    <3> QED
      BY <2>4, <3>1, QuietProgress
  <2> QED
    BY <2>2, <2>3, <2>4, <2>5 DEF EmptiersAgree
<1> QED
  BY <1>3, <1>4, <1>5, <1>6, <1>7 DEF Sound

\* Of the functions, that they are functions of the threads.
LEMMA Domains ==
  ASSUME SInv
  PROVE  /\ tss \in [Threads -> Nat] /\ pc \in [Threads -> Pcs]
         /\ op \in [Threads -> {"none", "register", "free", "checkin", "unregister"}]
         /\ new \in [Threads -> Nat] /\ cur \in [Threads -> Nat] /\ chain \in [Threads -> Nat]
         /\ owp \in [Threads -> WorldType] /\ cwp \in [Threads -> WorldType]
         /\ kind \in [Threads -> Kinds] /\ mine \in [Threads -> WorldType]
         /\ own \in [Threads -> Storages \cup {None}] /\ i \in [Threads -> Nat]
         /\ ofresh \subseteq Threads /\ cfresh \subseteq Threads
         /\ wp \in WorldType
<1>1. TypeOK
  BY DEF SInv, OInv, IInv
<1>2. \A S, T : \A f \in [Threads -> S] : S \subseteq T => f \in [Threads -> T]
  OBVIOUS
<1>3. 0 .. MaxTimestamp \subseteq Nat /\ 0 .. MaxTimestamp + 1 \subseteq Nat
  BY StorageAssumption
<1> QED
  BY <1>1, <1>2, <1>3 DEF TypeOK

\* A thread that is not freeing has no storage and no copy.
LEMMA CallerHasNoCopy ==
  ASSUME SInv, NEW t \in Threads, own'[t] = own[t],
         pc[t] \notin {"try", "cas", "grow"}, pc'[t] \notin {"cas", "scan"}
  PROVE  PrivateIsInitial(t)' /\ CopyAgrees(t)'
<1>1. own[t] = None
  BY Types DEF CopyIsOwned
<1> QED
  BY <1>1 DEF PrivateIsInitial, CopyAgrees

\* A world that is locked or unlocked is the same world.
LEMMA LockOnly ==
  ASSUME NEW world \in WorldType, NEW lock \in 0 .. 1
  PROVE  LET copy == [world EXCEPT !.lock = lock]
         IN  /\ SameWorld(copy, world) /\ SameWorld(world, copy) /\ copy \in WorldType
             /\ copy.bit = world.bit /\ copy.lock = lock
BY DEF SameWorld, WorldType

\* So is one whose bit is set.
LEMMA BitOnly ==
  ASSUME NEW world \in WorldType, NEW bit \in 0 .. 1
  PROVE  LET copy == [world EXCEPT !.bit = bit]
         IN  /\ SameWorld(copy, world) /\ SameWorld(world, copy) /\ copy \in WorldType
             /\ copy.bit = bit
BY DEF SameWorld, WorldType

\* Every world is the same world as itself.
LEMMA SameWorldReflexive == \A world : SameWorld(world, world)
BY DEF SameWorld

-----------------------------------------------------------------------------
(* Register.                                                               *)

\* A registration locks the world.
LEMMA RegisterLockSound ==
  ASSUME SInv, NEW t \in Threads, RegisterLock(t) PROVE Sound'
<1> USE DEF Goto, freeing
<1>1. /\ pc' = [pc EXCEPT ![t] = "join"] /\ op' = [op EXCEPT ![t] = "register"]
      /\ wp' = [wp EXCEPT !.lock = 1] /\ owp' = [owp EXCEPT ![t] = wp']
      /\ ofresh' = ofresh \cup {t}
      /\ UNCHANGED <<bits, rc, list, pool, tss, new, cur, chain, cfresh, cwp, kind, mine, own, i>>
      /\ pc[t] \in {"idle", "lock"} /\ tss[t] = 0 /\ new[t] = 0
  BY Types DEF RegisterLock, ThreadAgrees, LocalsAgree
<1>2. /\ SameWorld(wp', wp) /\ SameWorld(wp, wp') /\ wp' \in WorldType /\ wp'.bit = wp.bit
  <2>1. wp \in WorldType /\ wp' = [wp EXCEPT !.lock = 1]
    BY <1>1, Domains
  <2>2. 1 \in 0 .. 1
    OBVIOUS
  <2> QED
    BY <2>1, <2>2, LockOnly, Zenon
<1>3. /\ pc'[t] = "join" /\ op'[t] = "register" /\ owp'[t] = wp'
      /\ \A u \in Threads \ {t} : Stays(u)
  <2> DEFINE world == wp'
  <2>1. owp' = [owp EXCEPT ![t] = world]
    BY <1>1
  <2> HIDE DEF world
  <2>2. owp'[t] = world /\ \A u \in Threads \ {t} : owp'[u] = owp[u]
    BY <2>1, Domains
  <2> QED
    BY <1>1, <2>2, Domains DEF Stays, world
<1>4. Quiet(t)
  <2>1. Held(t)' = Held(t) /\ Cursor(t)' = Cursor(t)
    BY <1>1, <1>3 DEF Held, Cursor, InLoop
  <2> QED
    BY <1>1, <1>2, <1>3, <2>1, Types DEF Quiet
<1>5. LocalsAgree(t)'
  <2>1. tss'[t] = 0 /\ new'[t] = 0 /\ pc'[t] = "join" /\ op'[t] = "register" /\ ~ InCheckin(t)'
    BY <1>1, <1>3 DEF InCheckin, FreePcs, CheckinPcs
  <2> QED
    BY <2>1 DEF LocalsAgree, FreePcs, CheckinPcs
<1>6. PointersAgree(t)'
  <2>1. PointersAgree(t)
    BY Types DEF ThreadAgrees
  <2> QED
    BY <1>1, <1>2, <1>3, <2>1, SameWorldReflexive DEF PointersAgree, SameWorld
<1>7. CursorAgrees(t)' /\ WorldsAgree(t)'
  BY <1>1, <1>3 DEF CursorAgrees, WorldsAgree, Filing, KeepsOwp, InLoop, BitIsSet, InCheckin,
                    FreePcs, CheckinPcs
<1> QED
  BY <1>1, <1>3, <1>4, <1>5, <1>6, <1>7, CallerHasNoCopy, QuietSound DEF ThreadAgrees

\* The compare-and-swap of a registration that came too late.
LEMMA RegisterFailSound ==
  ASSUME SInv, NEW t \in Threads, RegisterSwap(t), ~ (t \in ofresh /\ wp = owp[t]) PROVE Sound'
<1> USE DEF Goto, freeing
<1>1. /\ pc' = [pc EXCEPT ![t] = "lock"] /\ owp' = [owp EXCEPT ![t] = NoWorld]
      /\ ofresh' = ofresh \ {t} /\ wp' = wp
      /\ UNCHANGED <<bits, rc, list, pool, tss, op, new, cur, cfresh, cwp, kind, mine, own, i>>
      /\ pc[t] = "join" /\ tss[t] = 0 /\ new[t] = 0
  BY Types DEF RegisterSwap, ThreadAgrees, LocalsAgree
<1>3. /\ pc'[t] = "lock" /\ \A u \in Threads \ {t} : Stays(u)
  BY <1>1, Domains DEF Stays
<1>4. Quiet(t)
  <2>1. Held(t)' = Held(t) /\ Cursor(t)' = Cursor(t)
    BY <1>1, <1>3 DEF Held, Cursor, InLoop
  <2> QED
    BY <1>1, <1>3, <2>1, Types, SameWorldReflexive DEF Quiet
<1>5. LocalsAgree(t)'
  BY <1>1, <1>3 DEF LocalsAgree, FreePcs, CheckinPcs, InCheckin
<1>6. PointersAgree(t)'
  BY <1>1, Types DEF ThreadAgrees, PointersAgree
<1>7. CursorAgrees(t)' /\ WorldsAgree(t)'
  BY <1>1, <1>3 DEF CursorAgrees, WorldsAgree, Filing, KeepsOwp, InLoop, BitIsSet, InCheckin,
                    FreePcs, CheckinPcs
<1> QED
  BY <1>1, <1>3, <1>4, <1>5, <1>6, <1>7, CallerHasNoCopy, QuietSound DEF ThreadAgrees

-----------------------------------------------------------------------------
(* Checkin.                                                                *)

\* The world that is current now has the entries that a checkin looks up.
LEMMA CurrentAgrees ==
  ASSUME SInv, NEW t \in Threads, tss[t] # 0
  PROVE  /\ \A T \in Held(t) .. wp.ts : T \in Slots(wp)
         /\ Held(t) \in Nat /\ Held(t) >= wp.off /\ Held(t) # 0
<1>1. /\ CursorAgrees(t) /\ LocalsAgree(t) /\ Held(t) \in Nat /\ wp.ts \in Nat /\ wp.off \in Nat
      /\ wp \in WorldType /\ WellFormed(wp) /\ tss[t] \in Nat /\ cur[t] \in Nat
  BY Types DEF ThreadAgrees
<1>2. Held(t) >= wp.off
  BY <1>1 DEF CursorAgrees
<1>3. Held(t) # 0
  BY <1>1 DEF LocalsAgree, Held, InLoop
<1>4. \A T \in Held(t) .. wp.ts : T \in Nat /\ wp.off <= T /\ T <= wp.ts /\ wp.ts # 0
  BY <1>1, <1>2, <1>3
<1> QED
  BY <1>1, <1>2, <1>3, <1>4, CurrentSlot

\* Beginning a checkin of a checkin or of an unregistration.
LEMMA BeginSound ==
  ASSUME SInv, NEW t \in Threads, BeginCheckin(t), tss[t] # 0,
         NEW call \in {"checkin", "unregister"}, op' = [op EXCEPT ![t] = call],
         pc[t] \in {"idle", "ubegin"},
         UNCHANGED <<shared, tss, cur, chain, cfresh, freeing>>
  PROVE  Sound'
<1> USE DEF Goto, freeing, shared
<1>0. wp.bit \in 0 .. 1 /\ tss[t] \in Nat /\ wp.ts \in Nat /\ ThreadAgrees(t)
  BY Types
<1> DEFINE label == IF wp.lock = 1 THEN "copy" ELSE IF wp.bit = 1 THEN "range" ELSE "bit"
<1>1. /\ pc' = [pc EXCEPT ![t] = label] /\ owp' = [owp EXCEPT ![t] = wp]
      /\ new' = [new EXCEPT ![t] = wp.ts]
      /\ ofresh' = ofresh \cup {t} /\ tss[t] <= wp.ts
  BY DEF BeginCheckin
<1>2. label \in {"copy", "range", "bit"} /\ (label = "range" => wp.bit = 1)
  OBVIOUS
<1> HIDE DEF label
<1>3. /\ pc'[t] = label /\ op'[t] = call /\ owp'[t] = wp /\ new'[t] = wp.ts
      /\ tss'[t] = tss[t] /\ cwp'[t] = cwp[t]
      /\ \A u \in Threads \ {t} : Stays(u)
  BY <1>1, Domains DEF Stays
<1>4. Held(t)' = Held(t) /\ Cursor(t)' = Cursor(t) /\ Held(t) = tss[t] /\ Cursor(t) = tss[t]
  BY <1>2, <1>3 DEF Held, Cursor, InLoop
<1>5. Quiet(t)
  BY <1>0, <1>1, <1>2, <1>3, <1>4, SameWorldReflexive DEF Quiet
<1>6. LocalsAgree(t)'
  BY <1>1, <1>2, <1>3 DEF LocalsAgree, FreePcs, CheckinPcs, InCheckin
<1>7. PointersAgree(t)'
  BY <1>0, <1>1, <1>3, SameWorldReflexive DEF ThreadAgrees, PointersAgree
<1>8. CursorAgrees(t)'
  BY <1>0, <1>2, <1>3, <1>4 DEF ThreadAgrees, CursorAgrees, Filing, BitIsSet
<1>9. WorldsAgree(t)'
  <2>1. \A T \in Held(t) .. wp.ts : Agrees(wp, T)'
    BY CurrentAgrees DEF Agrees
  <2>2. ~ Filing(t)' /\ wp.ts # 0
    BY <1>0, <1>1, <1>2, <1>3 DEF Filing
  <2> QED
    BY <1>3, <1>4, <2>1, <2>2 DEF WorldsAgree
<1> QED
  BY <1>2, <1>3, <1>5, <1>6, <1>7, <1>8, <1>9, CallerHasNoCopy, QuietSound DEF ThreadAgrees

\* A checkin of the program begins.
LEMMA CheckinBeginSound ==
  ASSUME SInv, NEW t \in Threads, Checkin(t) PROVE Sound'
BY BeginSound DEF Checkin

\* The bit of the world is set, in place or in a copy.
LEMMA BitSetSound ==
  ASSUME SInv, NEW t \in Threads, pc[t] \in {"bit", "copy"},
         NEW world \in WorldType, wp' = world, SameWorld(world, wp), world.bit = 1,
         owp' = [owp EXCEPT ![t] = world],
         NEW label \in {"range", "drop"}, pc' = [pc EXCEPT ![t] = label],
         ofresh' \ {t} \subseteq ofresh, cfresh' \subseteq cfresh,
         UNCHANGED <<bits, rc, list, pool, tss, op, new, cur, freeing>>
  PROVE  Sound'
<1> USE DEF freeing
<1>0. /\ wp.bit \in 0 .. 1 /\ tss[t] \in Nat /\ new[t] \in Nat /\ wp.ts \in Nat
      /\ LocalsAgree(t) /\ PointersAgree(t) /\ CursorAgrees(t)
  BY Types DEF ThreadAgrees
<1>1. /\ pc'[t] = label /\ owp'[t] = world
      /\ op'[t] = op[t] /\ tss'[t] = tss[t] /\ new'[t] = new[t] /\ cwp'[t] = cwp[t]
      /\ \A u \in Threads \ {t} : Stays(u)
  BY Domains DEF Stays
<1>2. /\ tss[t] # 0 /\ tss[t] <= new[t] /\ op[t] \in {"checkin", "unregister"} /\ new[t] # 0
      /\ new[t] <= wp.ts /\ wp.ts # 0
  BY <1>0 DEF LocalsAgree, CheckinPcs, InCheckin, CursorAgrees
<1>3. Held(t)' = Held(t) /\ Cursor(t)' = Cursor(t) /\ Held(t) = tss[t] /\ Cursor(t) = tss[t]
  BY <1>1 DEF Held, Cursor, InLoop
<1>w. world.ts = wp.ts /\ world.off = wp.off /\ world.st = wp.st
  BY DEF SameWorld
<1>4. Quiet(t)
  BY <1>0, <1>1, <1>3 DEF Quiet
<1>5. LocalsAgree(t)'
  BY <1>1, <1>2 DEF LocalsAgree, FreePcs, CheckinPcs, InCheckin
<1>6. PointersAgree(t)'
  <2>1. t \in cfresh' => SameWorld(cwp[t], wp)
    BY <1>0 DEF PointersAgree
  <2> QED
    BY <1>1, <2>1 DEF PointersAgree, SameWorld
<1>7. CursorAgrees(t)'
  <2>1. tss[t] <= wp.ts + 1 /\ new[t] + 1 <= wp.ts + 1 /\ wp.off <= Held(t)
    BY <1>0, <1>2 DEF CursorAgrees
  <2>2. ~ Filing(t)' /\ pc'[t] # "retain"
    BY <1>1 DEF Filing
  <2> QED
    BY <1>1, <1>2, <1>3, <1>w, <2>1, <2>2 DEF CursorAgrees
<1>8. WorldsAgree(t)'
  <2>1. \A T \in Held(t) .. wp.ts : T \in Slots(wp)
    BY <1>2, CurrentAgrees
  <2>2. \A T \in Held(t) .. new[t] : T \in Slots(wp)
    <3>1. Held(t) .. new[t] \subseteq Held(t) .. wp.ts
      BY <1>0, <1>2, <1>3
    <3> QED
      BY <2>1, <3>1
  <2>3. \A T \in Held(t) .. new[t] : Agrees(world, T)'
    BY <1>w, <2>2 DEF Agrees, Slots
  <2>4. ~ Filing(t)'
    BY <1>1 DEF Filing
  <2> QED
    BY <1>1, <1>2, <1>3, <1>w, <2>3, <2>4 DEF WorldsAgree
<1> QED
  BY <1>1, <1>4, <1>5, <1>6, <1>7, <1>8, CallerHasNoCopy, QuietSound DEF ThreadAgrees

\* A thread goes on to the step of a label, and nothing else happens.
LEMMA StepsOnSound ==
  ASSUME SInv, NEW t \in Threads, pc[t] = "bit", pc' = [pc EXCEPT ![t] = "copy"],
         UNCHANGED <<wp, bits, rc, list, pool, tss, op, new, cur, owp, ofresh, cfresh, freeing>>
  PROVE  Sound'
<1> USE DEF freeing
<1>0. /\ wp.bit \in 0 .. 1 /\ LocalsAgree(t) /\ PointersAgree(t) /\ CursorAgrees(t)
  BY Types DEF ThreadAgrees
<1>1. /\ pc'[t] = "copy" /\ \A u \in Threads \ {t} : Stays(u)
  BY Domains DEF Stays
<1>3. Held(t)' = Held(t) /\ Cursor(t)' = Cursor(t)
  BY <1>1 DEF Held, Cursor, InLoop
<1>4. Quiet(t)
  BY <1>0, <1>1, <1>3, SameWorldReflexive DEF Quiet
<1>5. LocalsAgree(t)' /\ PointersAgree(t)'
  BY <1>0, <1>1 DEF LocalsAgree, FreePcs, CheckinPcs, InCheckin, PointersAgree
<1>6. ~ Filing(t)' /\ ~ BitIsSet(t)' /\ ~ KeepsOwp(t)'
  BY <1>1 DEF Filing, BitIsSet, KeepsOwp, InLoop
<1>7. CursorAgrees(t)' /\ WorldsAgree(t)'
  BY <1>0, <1>1, <1>3, <1>6 DEF CursorAgrees, WorldsAgree
<1> QED
  BY <1>1, <1>4, <1>5, <1>7, CallerHasNoCopy, QuietSound DEF ThreadAgrees

\* A checkin sets the bit in place, unless the world is locked.
LEMMA CheckinBitSound ==
  ASSUME SInv, NEW t \in Threads, CheckinBit(t) PROVE Sound'
<1>1. CASE wp.lock = 1
  BY <1>1, StepsOnSound DEF CheckinBit, Goto
<1>2. CASE wp.lock # 1
  <2>1. /\ pc[t] = "bit" /\ pc' = [pc EXCEPT ![t] = "range"] /\ owp' = [owp EXCEPT ![t] = wp']
        /\ ofresh' = ofresh \cup {t}
        /\ UNCHANGED <<bits, rc, list, pool, tss, op, new, cur, cfresh, freeing>>
    BY <1>2 DEF CheckinBit, Goto
  <2>2. wp' = [wp EXCEPT !.bit = 1] /\ wp \in WorldType /\ 1 \in 0 .. 1
    BY <1>2, Types DEF CheckinBit
  <2>3. wp' \in WorldType /\ SameWorld(wp', wp) /\ wp'.bit = 1
    BY <2>2, BitOnly, Zenon
  <2> QED
    BY <2>1, <2>3, BitSetSound
<1> QED
  BY <1>1, <1>2

\* A copy with the bit set and without the lock is the same world.
LEMMA BitSetUnlocked ==
  ASSUME NEW world \in WorldType
  PROVE  /\ [world EXCEPT !.bit = 1, !.lock = 0] \in WorldType
         /\ SameWorld([world EXCEPT !.bit = 1, !.lock = 0], world)
         /\ [world EXCEPT !.bit = 1, !.lock = 0].bit = 1
<1> DEFINE copy == [world EXCEPT !.bit = 1, !.lock = 0]
<1>1. /\ copy.bit = 1 /\ copy.ts = world.ts /\ copy.nt = world.nt /\ copy.off = world.off
      /\ copy.size = world.size /\ copy.st = world.st
  BY DEF WorldType
<1>2. 0 \in 0 .. 1 /\ 1 \in 0 .. 1
  OBVIOUS
<1>3. copy \in WorldType
  BY <1>2 DEF WorldType
<1> HIDE DEF copy
<1>4. copy \in WorldType /\ SameWorld(copy, world) /\ copy.bit = 1
  BY <1>1, <1>3 DEF SameWorld
<1> QED
  BY <1>4 DEF copy

\* Or it swaps in an unlocked copy.
LEMMA CheckinCopySound ==
  ASSUME SInv, NEW t \in Threads, CheckinCopy(t) PROVE Sound'
<1> DEFINE label == IF wp.lock = 1 THEN "range" ELSE "drop"
<1>1. /\ pc[t] = "copy" /\ pc' = [pc EXCEPT ![t] = label] /\ owp' = [owp EXCEPT ![t] = wp']
      /\ ofresh' = {t} /\ cfresh' = {}
      /\ UNCHANGED <<bits, rc, list, pool, tss, op, new, cur, freeing>>
  BY DEF CheckinCopy, Goto, Install
<1>2. wp' = [wp EXCEPT !.bit = 1, !.lock = 0] /\ wp \in WorldType /\ 1 \in 0 .. 1 /\ 0 \in 0 .. 1
  BY Types DEF CheckinCopy, Install
<1>3. wp' \in WorldType /\ SameWorld(wp', wp) /\ wp'.bit = 1
  BY <1>2, BitSetUnlocked, Zenon
<1>4. label \in {"range", "drop"}
  OBVIOUS
<1> HIDE DEF label
<1> QED
  BY <1>1, <1>3, <1>4, BitSetSound

\* Whatever world a checkin uses, it begins with the first timestamp.
LEMMA CheckinRangeSound ==
  ASSUME SInv, NEW t \in Threads, CheckinRange(t) PROVE Sound'
<1> USE DEF freeing, shared, Goto
<1>0. /\ wp.bit \in 0 .. 1 /\ tss[t] \in Nat /\ new[t] \in Nat /\ wp.ts \in Nat
      /\ LocalsAgree(t) /\ PointersAgree(t) /\ CursorAgrees(t) /\ WorldsAgree(t)
      /\ pc[t] = "range" /\ pc' = [pc EXCEPT ![t] = "dec"]
      /\ UNCHANGED <<wp, bits, rc, list, pool, tss, op, new, cfresh, freeing>>
  BY Types DEF ThreadAgrees, CheckinRange
<1>1. /\ tss[t] # 0 /\ tss[t] <= new[t] /\ op[t] \in {"checkin", "unregister"} /\ new[t] # 0
      /\ BitIsSet(t) /\ InCheckin(t)
      /\ new[t] <= wp.ts /\ wp.ts # 0 /\ new[t] + 1 <= wp.ts + wp.bit
  BY <1>0 DEF LocalsAgree, CheckinPcs, InCheckin, CursorAgrees, BitIsSet
<1>2. /\ ofresh' = ofresh \/ (ofresh' = ofresh \cup {t} /\ owp'[t] = wp)
      /\ owp'[t] = (IF op[t] = "checkin" THEN wp ELSE owp[t])
      /\ (op[t] # "checkin" => ofresh' = ofresh)
      /\ \A u \in Threads \ {t} : owp'[u] = owp[u]
  <2>1. CASE op[t] = "checkin"
    <3>1. owp' = [owp EXCEPT ![t] = wp] /\ ofresh' = ofresh \cup {t}
      BY <2>1 DEF CheckinRange
    <3> QED
      BY <2>1, <3>1, Domains
  <2>2. CASE op[t] # "checkin"
    BY <2>2 DEF CheckinRange
  <2> QED
    BY <2>1, <2>2
<1>3. Held(t) = tss[t] /\ Cursor(t) = tss[t]
  BY <1>0 DEF Held, Cursor, InLoop
<1>4. owp'[t].ts # 0 /\ \A T \in tss[t] .. new[t] : Agrees(owp'[t], T)
  <2>1. CASE op[t] = "checkin"
    <3>1. \A T \in tss[t] .. wp.ts : T \in Slots(wp)
      BY <1>1, <1>3, CurrentAgrees
    <3>2. tss[t] .. new[t] \subseteq tss[t] .. wp.ts
      BY <1>0, <1>1
    <3> QED
      BY <1>1, <1>2, <2>1, <3>1, <3>2 DEF Agrees
  <2>2. CASE op[t] = "unregister"
    <3>1. KeepsOwp(t)
      BY <1>1, <2>2 DEF KeepsOwp
    <3> QED
      BY <1>0, <1>2, <1>3, <2>2, <3>1 DEF WorldsAgree
  <2> QED
    BY <1>1, <2>1, <2>2
<1>5. cur' = [cur EXCEPT ![t] = tss[t]]
  BY <1>4 DEF CheckinRange
<1>6. /\ pc'[t] = "dec" /\ cur'[t] = tss[t]
      /\ op'[t] = op[t] /\ tss'[t] = tss[t] /\ new'[t] = new[t] /\ cwp'[t] = cwp[t]
      /\ \A u \in Threads \ {t} : Stays(u)
  BY <1>0, <1>2, <1>5, Domains DEF Stays
<1>7. Held(t)' = tss[t] /\ Cursor(t)' = tss[t]
  BY <1>6 DEF Held, Cursor, InLoop
<1>8. Quiet(t)
  BY <1>0, <1>2, <1>3, <1>6, <1>7, SameWorldReflexive DEF Quiet
<1>9. LocalsAgree(t)'
  BY <1>0, <1>1, <1>6 DEF LocalsAgree, FreePcs, CheckinPcs, InCheckin
<1>10. PointersAgree(t)'
  BY <1>0, <1>2, <1>6, SameWorldReflexive DEF PointersAgree
<1>11. CursorAgrees(t)'
  <2>1. ~ Filing(t)' /\ pc'[t] # "retain"
    BY <1>6 DEF Filing
  <2>2. wp.off <= tss[t] /\ tss[t] <= wp.ts + wp.bit
    BY <1>0, <1>1, <1>3 DEF CursorAgrees
  <2> QED
    BY <1>0, <1>1, <1>6, <1>7, <2>1, <2>2 DEF CursorAgrees
<1>12. WorldsAgree(t)'
  <2>1. ~ Filing(t)'
    BY <1>6 DEF Filing
  <2>2. \A T : Agrees(owp'[t], T) => Agrees(owp[t], T)'
    BY <1>0 DEF Agrees
  <2> QED
    BY <1>4, <1>6, <1>7, <2>1, <2>2 DEF WorldsAgree
<1> QED
  BY <1>0, <1>6, <1>8, <1>9, <1>10, <1>11, <1>12, CallerHasNoCopy, QuietSound DEF ThreadAgrees

\* A thread has checked in for all it had to.
LEMMA CheckinDoneSound ==
  ASSUME SInv, NEW t \in Threads, CheckinDone(t) PROVE Sound'
<1> USE DEF freeing, shared, Goto
<1>0. /\ wp.bit \in 0 .. 1 /\ tss[t] \in Nat /\ new[t] \in Nat /\ wp.ts \in Nat /\ cur[t] \in Nat
      /\ LocalsAgree(t) /\ PointersAgree(t) /\ CursorAgrees(t)
      /\ pc[t] = "dec" /\ cur[t] > new[t]
      /\ tss' = [tss EXCEPT ![t] = new[t] + 1] /\ cur' = [cur EXCEPT ![t] = 0]
      /\ UNCHANGED <<wp, bits, rc, list, pool, cfresh, freeing>>
  BY Types DEF ThreadAgrees, CheckinDone
<1>1. /\ tss[t] # 0 /\ cur[t] = new[t] + 1 /\ new[t] <= wp.ts /\ op[t] \in {"checkin", "unregister"}
  BY <1>0 DEF LocalsAgree, CheckinPcs, CursorAgrees
<1>2. \/ /\ pc'[t] = "idle" /\ new'[t] = 0 /\ ofresh' = ofresh \ {t} /\ op'[t] = "none"
      \/ /\ pc'[t] = "ulock" /\ op'[t] = op[t] /\ new'[t] = new[t]
         /\ owp'[t] = owp[t] /\ ofresh' = ofresh /\ op[t] = "unregister"
  BY <1>1, Domains DEF CheckinDone
<1>3. \A u \in Threads \ {t} : Stays(u)
  BY <1>0, Domains DEF CheckinDone, Stays
<1>4. tss'[t] = new[t] + 1 /\ cwp'[t] = cwp[t]
  BY <1>0, Domains
<1>5. /\ Held(t) = new[t] + 1 /\ Cursor(t) = new[t] + 1
      /\ Held(t)' = new[t] + 1 /\ Cursor(t)' = new[t] + 1
  BY <1>0, <1>1, <1>2, <1>4 DEF Held, Cursor, InLoop
<1>6. Quiet(t)
  <2>1. tss'[t] = 0 <=> tss[t] = 0
    BY <1>0, <1>1, <1>4
  <2> QED
    BY <1>0, <1>2, <1>3, <1>5, <2>1, SameWorldReflexive DEF Quiet
<1>7. LocalsAgree(t)'
  <2>1. ~ InCheckin(t)'
    BY <1>2 DEF InCheckin, CheckinPcs, FreePcs
  <2> QED
    BY <1>0, <1>2, <1>4, <2>1 DEF LocalsAgree, FreePcs, CheckinPcs
<1>8. PointersAgree(t)'
  BY <1>0, <1>2, <1>4 DEF PointersAgree
<1>9. ~ Filing(t)' /\ ~ BitIsSet(t)' /\ ~ KeepsOwp(t)' /\ pc'[t] # "retain"
  BY <1>2 DEF Filing, BitIsSet, KeepsOwp, InLoop, InCheckin, CheckinPcs, FreePcs
<1>10. CursorAgrees(t)'
  BY <1>0, <1>1, <1>2, <1>5, <1>9 DEF CursorAgrees
<1>11. WorldsAgree(t)'
  BY <1>9 DEF WorldsAgree
<1> QED
  BY <1>0, <1>2, <1>3, <1>6, <1>7, <1>8, <1>10, <1>11, CallerHasNoCopy, QuietSound DEF ThreadAgrees

-----------------------------------------------------------------------------
(* Unregister.                                                             *)

\* A thread that unregisters, or has done so, and not yet, or no longer,
\* checks in.
LEMMA UnregisterSound ==
  ASSUME SInv, NEW t \in Threads, pc[t] \in {"idle", "ubegin", "ulock", "leave", "wipe"},
         NEW label \in {"idle", "ubegin", "ulock", "leave", "drop"},
         pc' = [pc EXCEPT ![t] = label],
         NEW number \in Nat, new' = [new EXCEPT ![t] = number], number <= wp.ts,
         label \in {"ulock", "leave"} => number < tss[t],
         label \in {"idle", "ubegin", "drop"} => number = 0,
         label # "idle" => tss[t] # 0 /\ op'[t] = "unregister",
         \A u \in Threads \ {t} : op'[u] = op[u] /\ owp'[u] = owp[u],
         SameWorld(wp', wp), wp'.bit = wp.bit, cfresh' = cfresh, ofresh' \ {t} \subseteq ofresh,
         t \in ofresh' => SameWorld(owp'[t], wp),
         UNCHANGED <<bits, rc, list, tss, cur, freeing>>
  PROVE  Sound'
<1> USE DEF freeing
<1>0. /\ wp.bit \in 0 .. 1 /\ tss[t] \in Nat /\ wp.ts \in Nat
      /\ LocalsAgree(t) /\ PointersAgree(t) /\ CursorAgrees(t)
  BY Types DEF ThreadAgrees
<1>1. /\ pc'[t] = label /\ new'[t] = number /\ tss'[t] = tss[t] /\ cwp'[t] = cwp[t]
      /\ \A u \in Threads \ {t} : Stays(u)
  BY Domains DEF Stays
<1>2. Held(t)' = Held(t) /\ Cursor(t)' = Cursor(t)
  BY <1>1 DEF Held, Cursor, InLoop
<1>3. Quiet(t)
  BY <1>0, <1>1, <1>2 DEF Quiet
<1>4. ~ InCheckin(t)' /\ ~ Filing(t)' /\ ~ BitIsSet(t)' /\ ~ KeepsOwp(t)'
  BY <1>1 DEF Filing, BitIsSet, KeepsOwp, InLoop, InCheckin, CheckinPcs, FreePcs
<1>5. LocalsAgree(t)'
  BY <1>1, <1>4 DEF LocalsAgree, FreePcs, CheckinPcs
<1>6. PointersAgree(t)'
  BY <1>0, <1>1 DEF PointersAgree, SameWorld
<1>7. CursorAgrees(t)' /\ WorldsAgree(t)'
  BY <1>0, <1>1, <1>2, <1>4 DEF CursorAgrees, WorldsAgree, SameWorld, Filing
<1> QED
  BY <1>1, <1>3, <1>5, <1>6, <1>7, CallerHasNoCopy, QuietSound DEF ThreadAgrees

\* An unregistration begins.
LEMMA UnregisterBeginSound ==
  ASSUME SInv, NEW t \in Threads, UnregisterBegin(t) PROVE Sound'
<1> USE DEF Goto
<1>1. /\ pc[t] \in {"idle", "ubegin"} /\ tss[t] # 0 /\ op' = [op EXCEPT ![t] = "unregister"]
      /\ UNCHANGED <<shared, tss, cur, chain, cfresh, freeing>>
  BY Types DEF UnregisterBegin, ThreadAgrees, LocalsAgree
<1>2. CASE BeginCheckin(t)
  BY <1>1, <1>2, BeginSound
<1>3. CASE /\ tss[t] > wp.ts /\ new' = [new EXCEPT ![t] = wp.ts] /\ owp' = [owp EXCEPT ![t] = wp]
           /\ ofresh' = ofresh \cup {t} /\ pc' = [pc EXCEPT ![t] = "ulock"]
  <2>1. wp.ts \in Nat /\ wp.ts <= wp.ts /\ tss[t] \in Nat /\ wp.ts < tss[t]
    BY <1>3, Types
  <2>2. /\ op'[t] = "unregister" /\ owp'[t] = wp /\ wp' = wp
        /\ \A u \in Threads \ {t} : op'[u] = op[u] /\ owp'[u] = owp[u]
        /\ SameWorld(wp, wp)
    BY <1>1, <1>3, Domains, SameWorldReflexive DEF shared
  <2> QED
    BY <1>1, <1>3, <2>1, <2>2, UnregisterSound DEF shared
<1> QED
  BY <1>2, <1>3 DEF UnregisterBegin

\* It locks the world, or starts over.
LEMMA UnregisterLockSound ==
  ASSUME SInv, NEW t \in Threads, UnregisterLock(t) PROVE Sound'
<1> USE DEF Goto
<1>1. /\ pc[t] = "ulock" /\ tss[t] # 0 /\ op[t] = "unregister" /\ new[t] < tss[t]
      /\ new[t] \in Nat /\ new[t] <= wp.ts /\ wp.ts \in Nat /\ wp \in WorldType
      /\ UNCHANGED <<bits, rc, list, pool, tss, op, cur, cfresh, freeing>>
      /\ PointersAgree(t)
  BY Types DEF UnregisterLock, ThreadAgrees, LocalsAgree, CursorAgrees
<1>2. CASE t \in ofresh /\ wp.lock = 0 /\ owp[t].lock = 0
  <2>1. /\ wp' = [wp EXCEPT !.lock = 1] /\ owp' = [owp EXCEPT ![t] = wp']
        /\ pc' = [pc EXCEPT ![t] = "leave"] /\ ofresh' = ofresh /\ new' = new /\ 1 \in 0 .. 1
    BY <1>2 DEF UnregisterLock
  <2>2. SameWorld(wp', wp) /\ wp'.bit = wp.bit
    BY <1>1, <2>1, LockOnly, Zenon
  <2>3. new' = [new EXCEPT ![t] = new[t]]
    BY <2>1, Domains
  <2>4. owp'[t] = wp' /\ \A u \in Threads \ {t} : op'[u] = op[u] /\ owp'[u] = owp[u]
    BY <1>1, <2>1, Domains, Zenon
  <2> QED
    BY <1>1, <2>1, <2>2, <2>3, <2>4, UnregisterSound, Zenon
<1>3. CASE ~ (t \in ofresh /\ wp.lock = 0 /\ owp[t].lock = 0)
  <2>1. /\ wp' = wp /\ new' = [new EXCEPT ![t] = 0] /\ owp' = [owp EXCEPT ![t] = NoWorld]
        /\ ofresh' = ofresh \ {t} /\ pc' = [pc EXCEPT ![t] = "ubegin"] /\ 0 \in Nat /\ 0 <= wp.ts
    BY <1>1, <1>3 DEF UnregisterLock, Forget
  <2>2. \A u \in Threads \ {t} : op'[u] = op[u] /\ owp'[u] = owp[u]
    BY <1>1, <2>1, Domains
  <2> QED
    BY <1>1, <2>1, <2>2, SameWorldReflexive, UnregisterSound, Zenon
<1> QED
  BY <1>2, <1>3

\* It gives up its lock and starts over.
LEMMA UnregisterFailSound ==
  ASSUME SInv, NEW t \in Threads, UnregisterFail(t) PROVE Sound'
<1> USE DEF Goto
<1>1. /\ pc[t] = "leave" /\ tss[t] # 0 /\ op[t] = "unregister"
      /\ wp.ts \in Nat /\ 0 \in Nat /\ 0 <= wp.ts /\ wp \in WorldType
      /\ UNCHANGED <<bits, rc, list, pool, tss, op, cur, cfresh, freeing>>
      /\ new' = [new EXCEPT ![t] = 0] /\ owp' = [owp EXCEPT ![t] = NoWorld]
      /\ ofresh' = ofresh \ {t}
  BY Types DEF UnregisterFail, Forget, ThreadAgrees, LocalsAgree, CursorAgrees
<1>2. \A u \in Threads \ {t} : op'[u] = op[u] /\ owp'[u] = owp[u]
  BY <1>1, Domains
<1>3. \E label \in {"ubegin", "drop"} : pc' = [pc EXCEPT ![t] = label]
  BY DEF UnregisterFail
<1>4. SameWorld(wp', wp) /\ wp'.bit = wp.bit
  <2>1. CASE t \in ofresh
    <3>1. wp' = [wp EXCEPT !.lock = 0] /\ 0 \in 0 .. 1
      BY <2>1 DEF UnregisterFail
    <3> QED
      BY <1>1, <3>1, LockOnly, Zenon
  <2>2. CASE t \notin ofresh
    BY <2>2, SameWorldReflexive DEF UnregisterFail
  <2> QED
    BY <2>1, <2>2
<1> QED
  BY <1>1, <1>2, <1>3, <1>4, UnregisterSound, Zenon

\* The last thread has freed the storages.
LEMMA UnregisterWipeSound ==
  ASSUME SInv, NEW t \in Threads, UnregisterWipe(t) PROVE Sound'
<1> USE DEF Goto
<1>1. /\ pc[t] = "wipe" /\ pc' = [pc EXCEPT ![t] = "idle"]
      /\ wp.ts \in Nat /\ 0 \in Nat /\ 0 <= wp.ts /\ wp \in WorldType
      /\ UNCHANGED <<bits, rc, list, tss, cur, cfresh, freeing>>
      /\ new' = [new EXCEPT ![t] = 0] /\ owp' = [owp EXCEPT ![t] = NoWorld]
      /\ op' = [op EXCEPT ![t] = "none"] /\ ofresh' = ofresh \ {t}
  BY Types DEF UnregisterWipe, Forget
<1>2. \A u \in Threads \ {t} : op'[u] = op[u] /\ owp'[u] = owp[u]
  BY <1>1, Domains
<1>4. SameWorld(wp', wp) /\ wp'.bit = wp.bit
  <2>1. wp' = [wp EXCEPT !.lock = 0] /\ 0 \in 0 .. 1
    BY DEF UnregisterWipe
  <2> QED
    BY <1>1, <2>1, LockOnly, Zenon
<1> QED
  BY <1>1, <1>2, <1>4, UnregisterSound, Zenon

-----------------------------------------------------------------------------
(* Free.                                                                   *)

\* The thread t takes a step of a free: it starts one, goes on with it, or returns
\* to the caller.
FreeMoves(t) ==
    \/ pc[t] \in FreePcs /\ pc'[t] \in FreePcs \ {"retain"} /\ op'[t] = op[t]
    \/ pc[t] = "idle" /\ pc'[t] \in FreePcs \ {"retain"} /\ op'[t] = "free"
    \/ /\ pc[t] \in FreePcs /\ pc'[t] = "range" /\ op'[t] = op[t]
       /\ op[t] = "checkin" \/ (op[t] = "unregister" /\ new[t] # 0)
    \/ pc[t] \in FreePcs /\ pc'[t] = "ubegin" /\ op'[t] = op[t] /\ op[t] = "unregister"
    \/ pc[t] \in FreePcs /\ pc'[t] = "idle"

\* The thread t may file under the timestamp of its copy: it has not checked in yet,
\* and the current world has the same entry for it.
MayFile(t, world) ==
    world.ts \in 1 .. wp.ts /\ Cursor(t) <= world.ts /\ Agrees(world, world.ts)

\* A step of a free does not change how far the thread is in a checkin.
LEMMA FreeThread ==
  ASSUME SInv, NEW t \in Threads, tss[t] # 0, wp' = wp, UNCHANGED <<tss, new, cur, owp, ofresh>>,
         FreeMoves(t), t \in cfresh' => SameWorld(cwp'[t], wp),
         pc'[t] = "file" => MayFile(t, cwp'[t])
  PROVE  /\ LocalsAgree(t)' /\ PointersAgree(t)' /\ CursorAgrees(t)' /\ WorldsAgree(t)'
         /\ Held(t)' = Held(t) /\ Cursor(t)' = Cursor(t)
<1>0. /\ LocalsAgree(t) /\ PointersAgree(t) /\ CursorAgrees(t) /\ WorldsAgree(t)
  BY Types DEF ThreadAgrees
<1>1. Held(t)' = Held(t) /\ Cursor(t)' = Cursor(t)
  BY DEF FreeMoves, Held, Cursor, InLoop, FreePcs
<1>2. (InCheckin(t)' => InCheckin(t)) /\ (BitIsSet(t)' => BitIsSet(t))
      /\ (KeepsOwp(t)' => KeepsOwp(t)) /\ (Filing(t)' => pc'[t] = "file") /\ pc'[t] # "retain"
  BY DEF FreeMoves, InCheckin, BitIsSet, KeepsOwp, InLoop, FreePcs, CheckinPcs, Filing
<1>3. LocalsAgree(t)'
  BY <1>0, <1>2 DEF FreeMoves, LocalsAgree, FreePcs, CheckinPcs
<1>4. PointersAgree(t)'
  BY <1>0 DEF PointersAgree
<1>5. CursorAgrees(t)'
  BY <1>0, <1>1, <1>2 DEF CursorAgrees, MayFile
<1>6. WorldsAgree(t)'
  <2>1. Filing(t)' => Agrees(cwp[t], cwp[t].ts)'
    BY <1>2 DEF MayFile, Agrees
  <2>2. KeepsOwp(t)' => owp[t].ts # 0 /\ \A T \in Held(t) .. new[t] : Agrees(owp[t], T)
    BY <1>0, <1>2 DEF WorldsAgree
  <2>3. \A T : Agrees(owp[t], T) => Agrees(owp[t], T)'
    BY DEF Agrees
  <2> QED
    BY <1>1, <2>1, <2>2, <2>3 DEF WorldsAgree
<1> QED
  BY <1>1, <1>3, <1>4, <1>5, <1>6

\* What a free of thread t leaves alone.
FreesOnly(t) ==
    /\ wp' = wp /\ UNCHANGED <<tss, new, cur, owp, ofresh>>
    /\ cfresh' \ {t} \subseteq cfresh
    /\ \A u \in Threads \ {t} :
          /\ pc'[u] = pc[u] /\ op'[u] = op[u] /\ cwp'[u] = cwp[u] /\ kind'[u] = kind[u]
          /\ mine'[u] = mine[u] /\ own'[u] = own[u] /\ i'[u] = i[u]

\* A free that only prepares something keeps the invariant.
LEMMA QuietFree ==
  ASSUME SInv, NEW t \in Threads, tss[t] # 0, FreesOnly(t),
         FreeMoves(t), pc[t] # "retain", t \in cfresh' => SameWorld(cwp'[t], wp),
         pc'[t] = "file" => MayFile(t, cwp'[t]),
         \A s \in Storages \ pool : rc'[s] = rc[s] /\ list'[s] = list[s] /\ bits[s] \subseteq bits'[s],
         PrivateIsInitial(t)', CopyAgrees(t)'
  PROVE  Sound'
<1> USE DEF FreesOnly
<1>0. wp.bit \in 0 .. 1
  BY Types
<1>1. /\ LocalsAgree(t)' /\ PointersAgree(t)' /\ CursorAgrees(t)' /\ WorldsAgree(t)'
      /\ Held(t)' = Held(t) /\ Cursor(t)' = Cursor(t)
  BY FreeThread
<1>2. \A u \in Threads \ {t} : Stays(u)
  BY DEF Stays
<1>3. pc[t] \notin {"retain", "snip", "clear"} /\ pc'[t] \notin {"retain", "snip", "clear"}
  BY DEF FreeMoves, FreePcs
<1>4. Quiet(t)
  BY <1>0, <1>1, <1>2, <1>3, SameWorldReflexive DEF Quiet
<1> QED
  BY <1>1, <1>4, QuietSound DEF ThreadAgrees

\* A free returns to its caller,
LEMMA ReturnMoves ==
  ASSUME SInv, NEW t \in Threads, pc[t] \in FreePcs, NEW left \in Nat, ReturnFromFree(t, left)
  PROVE  /\ FreeMoves(t) /\ pc'[t] \notin {"cas", "scan", "file", "retain"} /\ t \notin cfresh'
         /\ cfresh' \subseteq cfresh
         /\ \A u \in Threads \ {t} :
              /\ pc'[u] = pc[u] /\ op'[u] = op[u] /\ cwp'[u] = cwp[u] /\ kind'[u] = kind[u]
              /\ mine'[u] = mine[u] /\ i'[u] = i[u]
<1>1. /\ pc'[t] = Caller(t, left)
      /\ op'[t] = (IF Caller(t, left) = "idle" THEN "none" ELSE op[t])
      /\ cfresh' = cfresh \ {t}
      /\ \A u \in Threads \ {t} :
              /\ pc'[u] = pc[u] /\ op'[u] = op[u] /\ cwp'[u] = cwp[u] /\ kind'[u] = kind[u]
              /\ mine'[u] = mine[u] /\ i'[u] = i[u]
  BY Domains DEF ReturnFromFree, Goto
<1>2. \/ Caller(t, left) = "drop"
      \/ Caller(t, left) = "range" /\ (op[t] = "checkin" \/ (op[t] = "unregister" /\ new[t] # 0))
      \/ Caller(t, left) = "ubegin" /\ op[t] = "unregister"
      \/ Caller(t, left) = "idle"
  BY DEF Caller
<1> QED
  BY <1>1, <1>2 DEF FreeMoves, FreePcs

\* or it goes on with a world.
LEMMA ProceedMoves ==
  ASSUME SInv, NEW t \in Threads, NEW world, Proceed(t, world)
  PROVE  /\ pc'[t] \in {"file", "try", "scan"} /\ kind'[t] \in {"file", "increment", "add", "count"}
         /\ pc'[t] = "file" => world.bit = 0 /\ HasEntry(world, world.ts + world.bit)
         /\ \A u \in Threads \ {t} : pc'[u] = pc[u] /\ kind'[u] = kind[u]
<1> DEFINE choice == Choice(world)
<1>1. /\ choice \in {"file", "increment", "add", "count"}
      /\ choice = "file" => world.bit = 0 /\ HasEntry(world, world.ts + world.bit)
  BY DEF Choice
<1>2. /\ kind' = [kind EXCEPT ![t] = choice]
      /\ pc' = [pc EXCEPT ![t] = CASE choice = "file"  -> "file"
                                   [] choice = "count" -> "scan"
                                   [] OTHER            -> "try"]
  BY DEF Proceed, Goto
<1> HIDE DEF choice
<1>3. /\ kind'[t] = choice
      /\ pc'[t] = CASE choice = "file"  -> "file"
                    [] choice = "count" -> "scan"
                    [] OTHER            -> "try"
      /\ \A u \in Threads \ {t} : pc'[u] = pc[u] /\ kind'[u] = kind[u]
  BY <1>2, Domains
<1> QED
  BY <1>1, <1>3

\* The world that a free has read has the entry of its timestamp.
LEMMA CurrentMayFile ==
  ASSUME SInv, NEW t \in Threads, tss[t] # 0, wp.bit = 0, HasEntry(wp, wp.ts + wp.bit)
  PROVE  MayFile(t, wp)
<1>1. wp.ts \in Nat /\ wp \in WorldType /\ CursorAgrees(t)
  BY Types DEF ThreadAgrees
<1>2. HasEntry(wp, wp.ts)
  BY <1>1
<1>3. wp.ts # 0 /\ wp.ts \in Slots(wp)
  BY <1>1, <1>2, SlotHasEntry
<1> QED
  BY <1>1, <1>3 DEF MayFile, CursorAgrees, Agrees

\* A free with a single thread does nothing.
LEMMA FreeNowSound ==
  ASSUME SInv, NEW t \in Threads, FreeNow(t) PROVE Sound'
<1>1. /\ pc[t] = "drop" /\ chain[t] # 0 /\ chain[t] \in Nat /\ tss[t] # 0
      /\ own[t] = None
  BY Types, Domains DEF FreeNow, CallIsConsistent, ThreadAgrees, LocalsAgree, FreePcs, CopyIsOwned
<1>2. /\ ReturnFromFree(t, chain[t] - 1) /\ chain[t] - 1 \in Nat /\ pc[t] \in FreePcs
      /\ UNCHANGED <<shared, tss, new, cur, owp, ofresh, own>>
  BY <1>1 DEF FreeNow, FreePcs
<1>3. /\ FreeMoves(t) /\ pc'[t] \notin {"cas", "scan", "file", "retain"} /\ t \notin cfresh'
      /\ FreesOnly(t)
  BY <1>2, ReturnMoves DEF FreesOnly, shared
<1>4. PrivateIsInitial(t)' /\ CopyAgrees(t)'
  BY <1>1, <1>2, <1>3, CallerHasNoCopy
<1> QED
  BY <1>1, <1>2, <1>3, <1>4, QuietFree DEF shared

\* A free reads the world pointer.
LEMMA ReadSound ==
  ASSUME SInv, NEW t \in Threads, tss[t] # 0, pc[t] \in {"idle", "drop", "reload"},
         \/ pc[t] = "idle" /\ op'[t] = "free"
         \/ pc[t] # "idle" /\ op'[t] = op[t],
         \A u \in Threads \ {t} : op'[u] = op[u],
         ReadCwp(t), Proceed(t, wp),
         UNCHANGED <<shared, tss, new, cur, owp, ofresh, mine, own, i>>
  PROVE  Sound'
<1>1. own[t] = None
  BY Types DEF CopyIsOwned
<1>2. /\ cwp'[t] = wp /\ cfresh' = cfresh \cup {t} /\ \A u \in Threads \ {t} : cwp'[u] = cwp[u]
  BY Domains DEF ReadCwp
<1>3. /\ pc'[t] \in {"file", "try", "scan"} /\ kind'[t] \in {"file", "increment", "add", "count"}
      /\ pc'[t] = "file" => wp.bit = 0 /\ HasEntry(wp, wp.ts + wp.bit)
      /\ \A u \in Threads \ {t} : pc'[u] = pc[u] /\ kind'[u] = kind[u]
  BY ProceedMoves
<1>4. FreeMoves(t) /\ FreesOnly(t)
  BY <1>2, <1>3 DEF FreeMoves, FreesOnly, FreePcs, shared
<1>5. pc'[t] = "file" => MayFile(t, cwp'[t])
  BY <1>2, <1>3, CurrentMayFile
<1>6. PrivateIsInitial(t)' /\ CopyAgrees(t)'
  BY <1>1, <1>3 DEF PrivateIsInitial, CopyAgrees
<1> QED
  BY <1>2, <1>4, <1>5, <1>6, SameWorldReflexive, QuietFree DEF shared

\* A free begins,
LEMMA FreeBeginSound ==
  ASSUME SInv, NEW t \in Threads, FreeBegin(t) PROVE Sound'
<1>1. /\ pc[t] \in {"idle", "drop", "reload"} /\ tss[t] # 0
      /\ ReadCwp(t) /\ Proceed(t, wp)
      /\ UNCHANGED <<shared, tss, new, cur, owp, ofresh, mine, own, i>>
  BY Types DEF FreeBegin, ThreadAgrees, LocalsAgree, FreePcs
<1>2. /\ \/ pc[t] = "idle" /\ op'[t] = "free"
         \/ pc[t] # "idle" /\ op'[t] = op[t]
      /\ \A u \in Threads \ {t} : op'[u] = op[u]
  BY Domains DEF FreeBegin
<1> QED
  BY <1>1, <1>2, ReadSound

\* or begins again.
LEMMA FreeReloadSound ==
  ASSUME SInv, NEW t \in Threads, FreeReload(t) PROVE Sound'
<1>1. /\ pc[t] \in {"idle", "drop", "reload"} /\ pc[t] # "idle" /\ tss[t] # 0 /\ op' = op
      /\ ReadCwp(t) /\ Proceed(t, wp)
      /\ UNCHANGED <<shared, tss, new, cur, owp, ofresh, mine, own, i>>
  BY Types DEF FreeReload, ThreadAgrees, LocalsAgree, FreePcs, calls
<1> QED
  BY <1>1, ReadSound

\* The copy is given up, and what was allocated for it.
LEMMA GivesUp ==
  ASSUME SInv, NEW t \in Threads, tss[t] # 0, FreesOnly(t), FreeMoves(t),
         pc[t] # "retain", pc'[t] \notin {"cas", "scan", "file"}, own'[t] = None,
         t \in cfresh' => SameWorld(cwp'[t], wp), UNCHANGED <<bits, rc, list>>
  PROVE  Sound'
<1>1. PrivateIsInitial(t)' /\ CopyAgrees(t)'
  BY DEF PrivateIsInitial, CopyAgrees
<1> QED
  BY <1>1, QuietFree

\* The copy is given up because the world has changed.
LEMMA BusyMoves ==
  ASSUME SInv, NEW t \in Threads, Busy(t)
  PROVE  /\ pc'[t] = "reload" /\ own'[t] = None
         /\ \A u \in Threads \ {t} :
              /\ pc'[u] = pc[u] /\ own'[u] = own[u] /\ kind'[u] = kind[u]
              /\ mine'[u] = mine[u] /\ i'[u] = i[u]
<1>1. own' = [own EXCEPT ![t] = None]
  BY DEF Busy, Discard
<1> QED
  BY <1>1, Domains DEF Busy, Goto

\* That keeps the invariant.
LEMMA BusySound ==
  ASSUME SInv, NEW t \in Threads, Busy(t), pc[t] \in FreePcs \ {"retain"},
         UNCHANGED <<wp, bits, rc, list, calls, ofresh, cwp, cfresh>>
  PROVE  Sound'
<1> USE DEF calls
<1>0. tss[t] # 0 /\ PointersAgree(t)
  BY Types DEF ThreadAgrees, LocalsAgree
<1>1. FreesOnly(t) /\ FreeMoves(t) /\ pc'[t] = "reload" /\ own'[t] = None
  BY BusyMoves DEF FreesOnly, FreeMoves, FreePcs
<1>2. t \in cfresh' => SameWorld(cwp'[t], wp)
  BY <1>0 DEF PointersAgree
<1> QED
  BY <1>0, <1>1, <1>2, GivesUp

\* A copy does not pass its checks.
LEMMA TryFailSound ==
  ASSUME SInv, NEW t \in Threads, TryFail(t) PROVE Sound'
<1>1. /\ pc[t] = "try" /\ pc[t] \in FreePcs \ {"retain"} /\ tss[t] # 0 /\ PointersAgree(t)
      /\ UNCHANGED <<wp, bits, rc, list, tss, new, cur, chain, owp, ofresh>>
  BY Types DEF TryFail, FreePcs, ThreadAgrees, LocalsAgree
<1>2. CASE Busy(t) /\ UNCHANGED <<op, cwp, cfresh>>
  BY <1>1, <1>2, BusySound DEF calls
<1>3. CASE Discard(t) /\ ReturnFromFree(t, chain[t])
  <2>1. own' = [own EXCEPT ![t] = None]
    BY <1>3 DEF Discard
  <2>2. own'[t] = None /\ \A u \in Threads \ {t} : own'[u] = own[u]
    BY <2>1, Domains
  <2>3. chain[t] \in Nat
    BY Domains
  <2>4. /\ FreeMoves(t) /\ pc'[t] \notin {"cas", "scan", "file", "retain"} /\ t \notin cfresh'
        /\ FreesOnly(t)
    BY <1>1, <1>3, <2>2, <2>3, ReturnMoves DEF FreesOnly
  <2> QED
    BY <1>1, <2>2, <2>4, GivesUp
<1> QED
  BY <1>2, <1>3 DEF TryFail

\* The copy with the next timestamp: its usage bit is set before anybody can
\* see the copy.
LEMMA RaisedCopyAgrees ==
  ASSUME SInv, NEW t \in Threads, NEW world \in WorldType, NEW usage \in [Storages -> SUBSET Indices],
         Fits(world), world.size # 0, Len(world.st) <= world.size,
         world.off % N = 0, world.off <= world.ts,
         RaiseTimestamp(t, world, usage), cwp' = cwp, UNCHANGED <<tss, cur>>,
         \A u \in Threads \ {t} : Held(u)' = Held(u), pc[t] \in FreePcs,
         world.ts = cwp[t].ts, cwp[t].bit = 1, cwp[t].nt > 1,
         Continues(cwp[t], world, own'[t]), cfresh' = cfresh,
         t \in cfresh => \A u \in Registered : world.off <= Held(u)
  PROVE  /\ CopyAgrees(t)' /\ pc'[t] = "cas"
         /\ \A s \in Storages : usage[s] \subseteq bits'[s]
         /\ \A u \in Threads \ {t} : pc'[u] = pc[u] /\ mine'[u] = mine[u]
<1> DEFINE copy == Raised(world)
<1>1. copy \in WorldType /\ WellFormed(copy)
  BY RaisedWellFormed DEF RaiseTimestamp
<1>2. /\ copy.ts = world.ts + 1 /\ copy.off = world.off /\ copy.st = world.st
      /\ copy.nt = world.nt /\ copy.bit = 0
  BY DEF Raised, WorldType
<1>3. /\ mine' = [mine EXCEPT ![t] = copy] /\ bits' = Used(usage, copy)
      /\ pc' = [pc EXCEPT ![t] = "cas"]
  BY DEF RaiseTimestamp, Goto
<1> HIDE DEF copy
<1>4. /\ mine'[t] = copy /\ pc'[t] = "cas"
      /\ \A u \in Threads \ {t} : pc'[u] = pc[u] /\ mine'[u] = mine[u]
  BY <1>3, Domains
<1>5. copy.ts # 0 /\ copy.ts \in Slots(copy)
  <2>1. world.ts \in Nat
    BY Fields
  <2> QED
    BY <1>1, <1>2, <2>1, Sizes, CurrentSlot
<1> DEFINE s0 == StorageOf(copy, copy.ts)
           x0 == Index(copy.ts)
<1>6. s0 \in Storages /\ x0 \in Indices
  BY <1>1, <1>5, SlotStorage
<1>7. bits' = [usage EXCEPT ![s0] = @ \cup {x0}]
  BY <1>3 DEF Used
<1>8. x0 \in bits'[s0] /\ \A s \in Storages : usage[s] \subseteq bits'[s]
  <2> HIDE DEF s0, x0
  <2> QED
    BY <1>6, <1>7
<1>9. Continues(cwp[t], copy, own'[t])
  BY <1>2 DEF Continues, Slots, StorageOf, StorageIndex
<1>10. \A u \in Registered' : u \in Registered /\ Held(u)' = Held(u)
  <2>1. Held(t)' = Held(t)
    BY <1>4 DEF Held, InLoop, FreePcs
  <2> QED
    BY <2>1 DEF Registered
<1>11. CopyAgrees(t)'
  <2>1. Continues(cwp[t], mine[t], own[t])'
    BY <1>4, <1>9 DEF Continues, Slots, StorageOf, StorageIndex
  <2>2. t \in cfresh' => /\ (Index(mine[t].ts) \in bits[StorageOf(mine[t], mine[t].ts)])'
                         /\ \A u \in Registered' : mine'[t].off <= Held(u)'
    BY <1>2, <1>4, <1>8, <1>10
  <2> QED
    BY <1>2, <1>4, <2>1, <2>2 DEF CopyAgrees
<1> QED
  BY <1>4, <1>8, <1>11

\* What the other threads hold does not change.
LEMMA OthersHold ==
  ASSUME SInv, NEW t \in Threads, UNCHANGED <<tss, cur>>,
         \A u \in Threads \ {t} : pc'[u] = pc[u]
  PROVE  \A u \in Threads \ {t} : Held(u)' = Held(u)
BY DEF Held, InLoop

\* What a copy is made of, if it is not a rotated one.
LEMMA TryFacts ==
  ASSUME SInv, NEW t \in Threads, pc[t] = "try"
  PROVE  /\ tss[t] # 0 /\ PointersAgree(t) /\ PrivateIsInitial(t) /\ CopyIsOwned(t)
         /\ cwp[t] \in WorldType /\ WellFormed(cwp[t])
         /\ Copy(t) \in WorldType /\ WellFormed(Copy(t))
         /\ Copy(t).ts = cwp[t].ts /\ Copy(t).off = cwp[t].off /\ Copy(t).st = cwp[t].st
         /\ Copy(t).nt = cwp[t].nt /\ Copy(t).bit = cwp[t].bit
         /\ kind[t] # "grow" => Copy(t) = cwp[t]
         /\ MayRaise(Copy(t)) => cwp[t].bit = 1 /\ cwp[t].nt > 1
         /\ t \in cfresh => \A u \in Registered : cwp[t].off <= Held(u)
         /\ Copy(t).off <= Copy(t).ts /\ Copy(t).size # 0 /\ Copy(t).off % N = 0
         /\ Len(Copy(t).st) <= Copy(t).size
<1>1. IInv
  BY DEF SInv, OInv
<1>2. /\ cwp[t] \in WorldType /\ WellFormed(cwp[t])
      /\ Copy(t) \in WorldType /\ WellFormed(Copy(t))
      /\ Copy(t).ts = cwp[t].ts /\ Copy(t).off = cwp[t].off /\ Copy(t).st = cwp[t].st
  BY <1>1, CopyWellFormed
<1> DEFINE size == IF kind[t] = "grow" THEN mine[t].size ELSE cwp[t].size
<1>3. Copy(t) = [cwp[t] EXCEPT !.size = size]
  BY DEF Copy
<1>4. Copy(t).nt = cwp[t].nt /\ Copy(t).bit = cwp[t].bit
  <2> HIDE DEF size
  <2> QED
    BY <1>2, <1>3 DEF WorldType
<1>5. kind[t] # "grow" => Copy(t) = cwp[t]
  BY <1>2, <1>3 DEF WorldType
<1>6. MayRaise(Copy(t)) => cwp[t].bit = 1 /\ cwp[t].nt > 1
  BY <1>2, <1>4, Fields DEF MayRaise, SingleThreaded
<1>7. tss[t] # 0 /\ PointersAgree(t) /\ PrivateIsInitial(t) /\ CopyIsOwned(t)
  BY Types DEF ThreadAgrees, LocalsAgree, FreePcs
<1>8. t \in cfresh => \A u \in Registered : cwp[t].off <= Held(u)
  <2>1. \A u \in Registered : wp.off <= Held(u)
    BY Types DEF ThreadAgrees, CursorAgrees, Registered
  <2> QED
    BY <1>7, <2>1 DEF PointersAgree, SameWorld
<1>9. Copy(t).off <= Copy(t).ts
  BY <1>2, OffsetBelow
<1> QED
  BY <1>2, <1>4, <1>5, <1>6, <1>7, <1>8, <1>9 DEF WellFormed

\* The next timestamp is in the storages that the world has.
LEMMA TryIncrementSound ==
  ASSUME SInv, NEW t \in Threads, TryIncrement(t) PROVE Sound'
<1>1. /\ pc[t] = "try" /\ kind[t] = "increment" /\ MayRaise(Copy(t)) /\ Fits(Copy(t))
      /\ RaiseTimestamp(t, Copy(t), bits)
      /\ UNCHANGED <<wp, rc, list, pool, calls, ofresh, cwp, cfresh, kind, own, i>>
      /\ pc[t] \in FreePcs
  BY DEF TryIncrement, FreePcs
<1>2. /\ tss[t] # 0 /\ PointersAgree(t) /\ PrivateIsInitial(t) /\ CopyIsOwned(t)
      /\ cwp[t] \in WorldType /\ Copy(t) = cwp[t] /\ cwp[t].bit = 1 /\ cwp[t].nt > 1
      /\ (t \in cfresh => \A u \in Registered : cwp[t].off <= Held(u))
      /\ cwp[t].off <= cwp[t].ts /\ cwp[t].size # 0 /\ cwp[t].off % N = 0
      /\ Len(cwp[t].st) <= cwp[t].size
  BY <1>1, TryFacts
<1>3. own[t] = None
  BY <1>1, <1>2 DEF CopyIsOwned
<1>4. Continues(cwp[t], cwp[t], None)
  BY <1>2, ContinuesSame
<1>5. UNCHANGED <<tss, new, cur, owp, op>> /\ own' = own /\ cwp' = cwp /\ cfresh' = cfresh
      /\ bits \in [Storages -> SUBSET Indices]
  BY <1>1, Types DEF calls
<1>6. \A u \in Threads \ {t} : pc'[u] = pc[u] /\ mine'[u] = mine[u]
  BY <1>1, Domains DEF RaiseTimestamp, Goto
<1>7. /\ CopyAgrees(t)' /\ pc'[t] = "cas"
      /\ \A s \in Storages : bits[s] \subseteq bits'[s]
  BY <1>1, <1>2, <1>3, <1>4, <1>5, <1>6, OthersHold, RaisedCopyAgrees
<1>8. PrivateIsInitial(t)'
  BY <1>3, <1>5 DEF PrivateIsInitial
<1>9. FreesOnly(t) /\ FreeMoves(t)
  BY <1>1, <1>5, <1>6, <1>7 DEF FreesOnly, FreeMoves, FreePcs
<1>10. t \in cfresh' => SameWorld(cwp'[t], wp)
  BY <1>2, <1>5 DEF PointersAgree
<1> QED
  BY <1>1, <1>2, <1>7, <1>8, <1>9, <1>10, QuietFree

\* A storage is added: the one it has, or a new one, which is initialised.
LEMMA TryAddSound ==
  ASSUME SInv, NEW t \in Threads, TryAdd(t) PROVE Sound'
<1>1. /\ pc[t] = "try" /\ MayRaise(Copy(t)) /\ Len(Copy(t).st) < Copy(t).size
      /\ UNCHANGED <<wp, calls, ofresh, cwp, cfresh, kind, i>>
      /\ pc[t] \in FreePcs
  BY DEF TryAdd, FreePcs
<1>2. /\ tss[t] # 0 /\ PointersAgree(t) /\ PrivateIsInitial(t) /\ CopyIsOwned(t)
      /\ cwp[t] \in WorldType /\ Copy(t) \in WorldType /\ WellFormed(Copy(t))
      /\ Copy(t).ts = cwp[t].ts /\ Copy(t).off = cwp[t].off /\ Copy(t).st = cwp[t].st
      /\ Copy(t).nt = cwp[t].nt
      /\ cwp[t].bit = 1 /\ cwp[t].nt > 1
      /\ (t \in cfresh => \A u \in Registered : cwp[t].off <= Held(u))
      /\ Copy(t).off <= Copy(t).ts /\ Copy(t).size # 0 /\ Copy(t).off % N = 0
  BY <1>1, TryFacts
<1>3. UNCHANGED <<tss, new, cur, owp, op>> /\ cwp' = cwp /\ cfresh' = cfresh
      /\ bits \in [Storages -> SUBSET Indices]
  BY <1>1, Types DEF calls
<1>4. ASSUME NEW s \in Storages, NEW usage \in [Storages -> SUBSET Indices],
             RaiseTimestamp(t, Pushed(Copy(t), s), usage), own'[t] = s,
             \A u \in Threads \ {t} : own'[u] = own[u],
             PrivateIsInitial(t)',
             \A r \in Storages \ pool :
                rc'[r] = rc[r] /\ list'[r] = list[r] /\ bits[r] \subseteq usage[r]
      PROVE  Sound'
  <2> DEFINE world == Pushed(Copy(t), s)
  <2>1. /\ world \in WorldType /\ Len(world.st) = Len(Copy(t).st) + 1
        /\ world.ts = cwp[t].ts /\ world.off = cwp[t].off /\ world.size = Copy(t).size
    BY <1>2, PushedType
  <2>2. Fits(world)
    BY <1>2, PushedFits
  <2>3. world.st = Append(cwp[t].st, s) /\ world.nt = cwp[t].nt
    <3>1. world = [Copy(t) EXCEPT !.st = Append(Copy(t).st, s)]
      BY DEF Pushed
    <3>2. world.st = Append(Copy(t).st, s) /\ world.nt = Copy(t).nt
      <4> DEFINE st == Append(Copy(t).st, s)
      <4>1. world = [Copy(t) EXCEPT !.st = st]
        BY <3>1
      <4> HIDE DEF st, world
      <4>2. world.st = st /\ world.nt = Copy(t).nt
        BY <1>2, <4>1 DEF WorldType
      <4> QED
        BY <4>2 DEF st
    <3> QED
      BY <1>2, <3>2
  <2>4. Len(world.st) <= world.size
    BY <1>1, <1>2, <2>1, Fields
  <2> HIDE DEF world
  <2>5. Continues(cwp[t], world, s)
    BY <1>2, <2>1, <2>3, ContinuesPushed
  <2>6. \A u \in Threads \ {t} : pc'[u] = pc[u] /\ mine'[u] = mine[u]
    BY <1>4, Domains DEF RaiseTimestamp, Goto
  <2>7. RaiseTimestamp(t, world, usage)
    BY <1>4 DEF world
  <2>8. /\ CopyAgrees(t)' /\ pc'[t] = "cas"
        /\ \A r \in Storages : usage[r] \subseteq bits'[r]
    BY <1>1, <1>2, <1>3, <1>4, <2>1, <2>2, <2>4, <2>5, <2>6, <2>7, OthersHold, RaisedCopyAgrees
  <2>9. FreesOnly(t) /\ FreeMoves(t)
    BY <1>1, <1>3, <1>4, <2>6, <2>8 DEF FreesOnly, FreeMoves, FreePcs
  <2>10. t \in cfresh' => SameWorld(cwp'[t], wp)
    BY <1>2, <1>3 DEF PointersAgree
  <2>11. \A r \in Storages \ pool :
            rc'[r] = rc[r] /\ list'[r] = list[r] /\ bits[r] \subseteq bits'[r]
    BY <1>4, <2>8
  <2> QED
    BY <1>1, <1>2, <1>4, <2>8, <2>9, <2>10, <2>11, QuietFree
<1>5. CASE own[t] # None
  <2>1. RaiseTimestamp(t, Pushed(Copy(t), own[t]), bits) /\ UNCHANGED <<rc, list, pool, own>>
    BY <1>5 DEF TryAdd
  <2>2. PrivateIsInitial(t)'
    BY <1>2, <2>1 DEF PrivateIsInitial, Initial
  <2>3. own[t] \in Storages
    BY <1>5, Types
  <2> QED
    BY <1>3, <1>4, <2>1, <2>2, <2>3
<1>6. CASE own[t] = None
  <2>1. PICK s \in pool :
            /\ RaiseTimestamp(t, Pushed(Copy(t), s), [bits EXCEPT ![s] = {}])
            /\ rc'   = [rc   EXCEPT ![s] = [x \in Indices |-> -1]]
            /\ list' = [list EXCEPT ![s] = [x \in Indices |-> {}]]
            /\ own'  = [own EXCEPT ![t] = s]
    BY <1>6 DEF TryAdd
  <2> DEFINE usage == [bits EXCEPT ![s] = {}]
  <2>2. s \in Storages /\ usage \in [Storages -> SUBSET Indices]
    BY <1>3, Types
  <2>3. own'[t] = s /\ \A u \in Threads \ {t} : own'[u] = own[u]
    BY <2>1, Domains
  <2>4. \A r \in Storages \ pool :
            rc'[r] = rc[r] /\ list'[r] = list[r] /\ bits[r] \subseteq usage[r]
    BY <2>1, <2>2, Types
  <2>5. \A x \in Indices : rc'[s][x] = -1 /\ list'[s][x] = {}
    BY <2>1, <2>2, Types
  <2>6. PrivateIsInitial(t)'
    BY <2>3, <2>5 DEF PrivateIsInitial, Initial
  <2>7. RaiseTimestamp(t, Pushed(Copy(t), s), usage)
    BY <2>1
  <2> HIDE DEF usage
  <2> QED
    BY <1>4, <2>2, <2>3, <2>4, <2>6, <2>7
<1> QED
  BY <1>5, <1>6

\* The copy will be scanned for unused storages.
LEMMA TryReorganizeSound ==
  ASSUME SInv, NEW t \in Threads, TryReorganize(t) PROVE Sound'
<1>1. /\ pc[t] = "try" /\ kind[t] = "reorganize" /\ MayRaise(Copy(t))
      /\ mine' = [mine EXCEPT ![t] = Copy(t)] /\ pc' = [pc EXCEPT ![t] = "scan"]
      /\ UNCHANGED <<shared, calls, ofresh, cwp, cfresh, kind, own, i>>
      /\ pc[t] \in FreePcs
  BY DEF TryReorganize, FreePcs, Goto
<1>2. /\ tss[t] # 0 /\ PointersAgree(t) /\ PrivateIsInitial(t) /\ CopyIsOwned(t)
      /\ cwp[t] \in WorldType /\ Copy(t) = cwp[t] /\ cwp[t].bit = 1 /\ cwp[t].nt > 1
  BY <1>1, TryFacts
<1>3. own[t] = None
  BY <1>1, <1>2 DEF CopyIsOwned
<1>4. Continues(cwp[t], cwp[t], None)
  BY <1>2, ContinuesSame
<1>5. /\ mine'[t] = cwp[t] /\ pc'[t] = "scan"
      /\ \A u \in Threads \ {t} : pc'[u] = pc[u] /\ mine'[u] = mine[u]
      /\ UNCHANGED <<wp, bits, rc, list, pool, tss, new, cur, owp, op, cwp, own, cfresh, kind, i, ofresh>>
  BY <1>1, <1>2, Domains DEF calls, shared
<1>6. CopyAgrees(t)'
  <2>1. Continues(cwp[t], mine[t], None)'
    BY <1>4, <1>5 DEF Continues, Slots, StorageOf, StorageIndex
  <2>2. cwp[t].off - cwp[t].off = 0
    BY <1>2, Fields
  <2>3. \A u : RotationIsSafe(t, u)'
    BY <1>5, <2>2 DEF RotationIsSafe
  <2> QED
    BY <1>2, <1>5, <2>1, <2>3 DEF CopyAgrees
<1>7. PrivateIsInitial(t)'
  BY <1>3, <1>5 DEF PrivateIsInitial
<1>8. FreesOnly(t) /\ FreeMoves(t)
  BY <1>1, <1>5 DEF FreesOnly, FreeMoves, FreePcs
<1>9. t \in cfresh' => SameWorld(cwp'[t], wp)
  BY <1>2, <1>5 DEF PointersAgree
<1> QED
  BY <1>1, <1>2, <1>5, <1>6, <1>7, <1>8, <1>9, QuietFree

-----------------------------------------------------------------------------
(* The scan for unused storages.                                           *)

\* A storage of the copy is unused: whoever still holds one of its
\* timestamps, or an earlier one, holds none that is current.
LEMMA UnusedIsDone ==
  ASSUME SInv, NEW t \in Threads, pc[t] = "scan", kind[t] = "reorganize", t \in cfresh,
         i[t] < Len(mine[t].st), Unused(mine[t].st[i[t] + 1]), NEW u \in Registered,
         NEW T \in Nat, Held(u) <= T, T <= wp.ts,
         mine[t].off + i[t] * N <= T, T < mine[t].off + i[t] * N + N
  PROVE  FALSE
<1>1. /\ CallIsConsistent(t) /\ CopyAgrees(t) /\ PointersAgree(t)
      /\ cwp[t] \in WorldType /\ mine[t] \in WorldType /\ wp \in WorldType /\ WellFormed(wp)
      /\ i[t] \in Nat /\ wp.ts \in Nat
  BY Types DEF ThreadAgrees
<1>2. Held(u) \in Nat /\ wp.off <= Held(u) /\ Held(u) # 0
  BY Types, CurrentAgrees DEF ThreadAgrees, CursorAgrees, Registered
<1>3. /\ wp.st = cwp[t].st /\ wp.off = cwp[t].off
      /\ mine[t].off % N = 0 /\ Continues(cwp[t], mine[t], None)
  BY <1>1 DEF PointersAgree, SameWorld, CopyAgrees, CallIsConsistent, Rotating
<1>4. /\ i[t] * N \in Nat /\ mine[t].off \in Nat /\ N \in Nat /\ i[t] \in 0 .. Len(mine[t].st) - 1
      /\ wp.off \in Nat
  BY SMTT(30), <1>1, Sizes, NextStorage
<1> DEFINE B == mine[t].off + i[t] * N
           r == T - B
<1>5. r \in 0 .. N - 1 /\ B + r = T
  <2>1. B \in Nat /\ N \in Nat
    BY <1>4
  <2>2. B <= T /\ T < B + N
    OBVIOUS
  <2> HIDE DEF B
  <2> QED
    BY <2>1, <2>2
<1>6. B + r \in Slots(mine[t]) /\ StorageOf(mine[t], B + r) = mine[t].st[i[t] + 1]
  <2> HIDE DEF r
  <2> QED
    BY <1>1, <1>3, <1>4, <1>5, StorageSlots
<1>7. T \in Slots(mine[t]) /\ StorageOf(mine[t], T) = mine[t].st[i[t] + 1]
  BY <1>5, <1>6
<1>8. T \in Slots(wp) /\ T \in 1 .. wp.ts /\ wp.ts # 0
  <2>1. T \in 1 .. wp.ts /\ wp.ts # 0 /\ wp.off <= T
    BY SMTT(30), <1>1, <1>2, <1>4
  <2> QED
    BY <1>1, <2>1, CurrentSlot
<1>9. mine[t].off <= T
  BY <1>1, <1>7, SlotStorage
<1>10. StorageOf(wp, T) = mine[t].st[i[t] + 1]
  <2>1. T \in Slots(cwp[t]) /\ StorageOf(cwp[t], T) = StorageOf(wp, T)
    BY <1>3, <1>8 DEF Slots, StorageOf, StorageIndex
  <2> QED
    BY <1>3, <1>7, <1>9, <2>1 DEF Continues
<1>11. EntryIsRight(T)
  BY <1>8 DEF SInv, Sound, EntriesAreRight
<1>12. u \in Holders(T)
  BY DEF Holders
<1> QED
  BY <1>8, <1>10, <1>11, <1>12 DEF EntryIsRight, Unused

\* A rotation takes away nothing that is held, also when the scan, which goes
\* on in the rotated copy, skips storages.
LEMMA RotationStaysSafe ==
  ASSUME SInv, NEW t \in Threads, pc[t] = "scan", kind[t] = "reorganize", t \in cfresh,
         ~ ScanEnds(t), Unused(mine[t].st[i[t] + 1]), NEW u \in Registered
  PROVE  LET taken == mine[t].off - cwp[t].off
         IN  \/ Held(u) >= mine[t].off + taken + N
             \/ Held(u) >= taken + Base(cwp[t], cwp[t].ts) - i[t] * N
<1> DEFINE d == mine[t].off - cwp[t].off
           x == i[t] * N
           b == Base(cwp[t], cwp[t].ts)
           q == StorageIndex(cwp[t], cwp[t].ts)
           h == Held(u)
<1>1. /\ CallIsConsistent(t) /\ CopyAgrees(t) /\ PointersAgree(t)
      /\ cwp[t] \in WorldType /\ mine[t] \in WorldType /\ WellFormed(cwp[t])
      /\ i[t] \in Nat /\ wp.ts \in Nat
  BY Types DEF ThreadAgrees, CallIsConsistent
<1>2. /\ Rotating(cwp[t], mine[t], i[t]) /\ RotationIsSafe(t, u) /\ wp.ts = cwp[t].ts
      /\ wp.off = cwp[t].off
  BY <1>1 DEF CallIsConsistent, CopyAgrees, PointersAgree, SameWorld
<1>3. i[t] < Len(cwp[t].st) /\ Len(mine[t].st) = Len(cwp[t].st)
      /\ (i[t] + 1) * N <= cwp[t].ts - cwp[t].off
  BY <1>2, ScanGoesOn DEF SInv, OInv, Rotating
<1>4. /\ x \in Nat /\ (i[t] + 1) * N = x + N /\ N \in Nat /\ N > 1
      /\ mine[t].off \in Nat /\ cwp[t].off \in Nat /\ cwp[t].ts \in Nat /\ h \in Nat
      /\ wp.off <= h
  BY <1>1, NextStorage, Sizes, Types DEF Registered, ThreadAgrees, CursorAgrees
<1>5. mine[t].off <= cwp[t].off + x /\ mine[t].off % N = 0 /\ cwp[t].off % N = 0
      /\ cwp[t].off <= cwp[t].ts
  BY <1>1, <1>2, OffsetBelow DEF Rotating, WellFormed
<1>6. /\ b \in Nat /\ b % N = 0 /\ cwp[t].off <= b /\ b <= cwp[t].ts /\ cwp[t].ts < b + N
      /\ q \in Nat /\ b - cwp[t].off = q * N
  BY <1>1, <1>4, <1>5, BaseOf
<1>7. RotationIsSafe(t, u) <=> d = 0 \/ h >= mine[t].off + d - N \/ h >= d + b - x
  BY DEF RotationIsSafe
<1>8. ASSUME NEW T \in Nat, h <= T, T <= cwp[t].ts, mine[t].off + x <= T, T < mine[t].off + x + N
      PROVE  FALSE
  BY <1>2, <1>3, <1>8, UnusedIsDone
<1>9. d \in Int /\ d <= x /\ d = mine[t].off - cwp[t].off
  BY <1>4, <1>5
<1>10. mine[t].off + x \in Nat /\ (mine[t].off + x) % N = 0
  BY <1>1, <1>4, <1>5, SamePlace
<1>11. x + N <= b - cwp[t].off
  <2>1. i[t] < q
    <3>1. (i[t] + 1) * N < q * N + N
      <4> DEFINE nN == (i[t] + 1) * N
                 qN == q * N
      <4>1. nN <= cwp[t].ts - cwp[t].off /\ b - cwp[t].off = qN /\ nN = x + N
        BY <1>3, <1>4, <1>6
      <4> HIDE DEF nN, qN, x, b
      <4> QED
        BY <1>4, <1>6, <4>1
    <3>2. q * N + N = (q + 1) * N /\ i[t] + 1 \in Nat /\ q + 1 \in Nat
      BY <1>1, <1>6, NextStorage
    <3>3. (i[t] + 1) * N < (q + 1) * N
      BY <3>1, <3>2
    <3>4. i[t] + 1 < q + 1
      BY Zenon, <3>2, <3>3, ProductMonotonic
    <3> QED
      BY <1>1, <1>6, <3>4
  <2>2. x + N <= q * N
    BY <1>1, <1>6, <2>1, ProductMonotonic
  <2> QED
    BY <1>6, <2>2
<1>12. b <= mine[t].off + x \/ mine[t].off + x + N <= b
  <2>1. CASE mine[t].off + x < b
    <3> DEFINE B == mine[t].off + x
    <3>1. B \in Nat /\ B % N = 0 /\ B < b
      BY <1>10, <2>1
    <3> HIDE DEF B, b
    <3>2. B + N <= b
      BY <1>6, <3>1, OffsetsApart
    <3> QED
      BY <3>2 DEF B
  <2>2. CASE ~ (mine[t].off + x < b)
    BY <1>6, <1>10, <2>2
  <2> QED
    BY <2>1, <2>2
<1>13. mine[t].off + x <= b \/ b + N <= mine[t].off + x
  <2>1. CASE b < mine[t].off + x
    <3> DEFINE B == mine[t].off + x
    <3>1. B \in Nat /\ B % N = 0 /\ b < B
      BY <1>10, <2>1
    <3> HIDE DEF B, b
    <3>2. b + N <= B
      BY <1>6, <3>1, OffsetsApart
    <3> QED
      BY <3>2 DEF B
  <2>2. CASE ~ (b < mine[t].off + x)
    BY <1>6, <1>10, <2>2
  <2> QED
    BY <2>1, <2>2
<1> SUFFICES h >= mine[t].off + d + N \/ h >= d + b - x
  OBVIOUS
<1> HIDE DEF d, x, b, q, h
<1>14. CASE mine[t].off + x + N <= b
  <2> DEFINE T == IF h <= mine[t].off + x THEN mine[t].off + x ELSE h
  <2>1. T \in Nat /\ h <= T /\ mine[t].off + x <= T
    BY <1>4
  <2>2. ~ (T <= cwp[t].ts /\ T < mine[t].off + x + N)
    BY <1>8, <2>1
  <2>3. h >= mine[t].off + x + N
    BY <1>4, <1>6, <1>14, <2>2
  <2> QED
    BY <1>4, <1>9, <2>3
<1>15. CASE b = mine[t].off + x
  <2> DEFINE T == IF h <= b THEN b ELSE h
  <2>1. T \in Nat /\ h <= T /\ mine[t].off + x <= T
    BY <1>4, <1>6, <1>15
  <2>2. ~ (T <= cwp[t].ts /\ T < mine[t].off + x + N)
    BY <1>8, <2>1
  <2>3. h > cwp[t].ts
    BY <1>4, <1>6, <1>15, <2>2
  <2> QED
    BY <1>4, <1>6, <1>9, <1>15, <2>3
<1>16. CASE b + N <= mine[t].off + x
  <2>1. d # 0
    BY <1>4, <1>6, <1>9, <1>11, <1>16
  <2> QED
    BY <1>2, <1>4, <1>6, <1>7, <1>9, <1>16, <2>1
<1> QED
  BY <1>4, <1>6, <1>10, <1>12, <1>13, <1>14, <1>15, <1>16

\* When the scan is over, what the copy took away nobody holds.
LEMMA RotationIsDone ==
  ASSUME SInv, NEW t \in Threads, pc[t] = "scan", kind[t] = "reorganize", t \in cfresh,
         ScanEnds(t), NEW u \in Registered
  PROVE  mine[t].off <= Held(u)
<1> DEFINE d == mine[t].off - cwp[t].off
           x == i[t] * N
           b == Base(cwp[t], cwp[t].ts)
           q == StorageIndex(cwp[t], cwp[t].ts)
           h == Held(u)
<1>1. /\ CallIsConsistent(t) /\ CopyAgrees(t) /\ PointersAgree(t)
      /\ cwp[t] \in WorldType /\ mine[t] \in WorldType /\ WellFormed(cwp[t])
      /\ i[t] \in Nat /\ x <= cwp[t].ts - cwp[t].off
  BY Types DEF ThreadAgrees, CallIsConsistent
<1>2. /\ Rotating(cwp[t], mine[t], i[t]) /\ RotationIsSafe(t, u) /\ wp.off = cwp[t].off
  BY <1>1 DEF CallIsConsistent, CopyAgrees, PointersAgree, SameWorld
<1>3. /\ x \in Nat /\ N \in Nat /\ N > 1
      /\ mine[t].off \in Nat /\ cwp[t].off \in Nat /\ cwp[t].ts \in Nat /\ h \in Nat
      /\ wp.off <= h /\ Len(cwp[t].st) \in Nat
  BY <1>1, NextStorage, Sizes, Types DEF Registered, ThreadAgrees, CursorAgrees
<1>4. mine[t].off <= cwp[t].off + x /\ mine[t].off % N = 0 /\ cwp[t].off % N = 0
      /\ cwp[t].off <= cwp[t].ts
  BY <1>1, <1>2, OffsetBelow DEF Rotating, WellFormed
<1>5. /\ b \in Nat /\ b - cwp[t].off = q * N /\ b <= cwp[t].ts /\ q \in Nat
  BY <1>1, <1>3, <1>4, BaseOf
<1>6. x = b - cwp[t].off
  <2>1. CASE cwp[t].ts = 0
    <3>1. cwp[t].off = 0
      BY <1>1, <2>1 DEF WellFormed
    <3> HIDE DEF x, b
    <3> QED
      BY <1>1, <1>3, <1>5, <2>1, <3>1
  <2>2. CASE cwp[t].ts # 0
    <3> DEFINE lN == Len(cwp[t].st) * N
    <3>1. lN \in Nat /\ cwp[t].ts - cwp[t].off < lN
      BY <1>1, <2>2, Sizes DEF WellFormed
    <3>2. x < lN
      <4> HIDE DEF x, lN
      <4> QED
        BY <1>1, <1>3, <3>1
    <3>3. i[t] < Len(cwp[t].st)
      BY <1>1, <1>3, <3>2, ProductMonotonic
    <3>4. i[t] = q
      BY <1>1, <1>3, <3>3 DEF ScanEnds
    <3> QED
      BY <1>5, <3>4
  <2> QED
    BY <2>1, <2>2
<1>7. d = 0 \/ h >= mine[t].off + d - N \/ h >= d + b - x
  BY <1>2 DEF RotationIsSafe
<1>8. d = mine[t].off - cwp[t].off
  OBVIOUS
<1>9. mine[t].off >= cwp[t].off
  BY <1>1 DEF CopyAgrees, Continues
<1>10. d = 0 \/ d >= N
  <2>1. CASE cwp[t].off < mine[t].off
    BY SMTT(30), <1>3, <1>4, <1>8, <2>1, OffsetsApart
  <2> QED
    BY <1>3, <1>9, <2>1
<1> SUFFICES mine[t].off <= h
  OBVIOUS
<1>11. /\ x \in Nat /\ N \in Nat /\ b \in Nat /\ h \in Nat /\ cwp[t].off <= h
       /\ mine[t].off \in Nat /\ cwp[t].off \in Nat
  BY <1>2, <1>3, <1>5
<1> HIDE DEF d, x, b, q, h
<1> QED
  BY <1>6, <1>7, <1>8, <1>10, <1>11

\* What a thread that scans a copy knows.
LEMMA ScanFacts ==
  ASSUME SInv, NEW t \in Threads, pc[t] \in {"scan", "grow", "cas", "try"}
  PROVE  /\ pc[t] \in FreePcs \ {"retain"} /\ tss[t] # 0
         /\ PointersAgree(t) /\ PrivateIsInitial(t) /\ CopyIsOwned(t) /\ CopyAgrees(t)
         /\ (t \in cfresh => SameWorld(cwp[t], wp))
         /\ cwp[t] \in WorldType /\ mine[t] \in WorldType /\ i[t] \in Nat
         /\ pc[t] = "scan" => own[t] = None
         /\ CallIsConsistent(t)
BY Types DEF ThreadAgrees, LocalsAgree, PointersAgree, FreePcs, CopyIsOwned

\* An unused storage is found, or the world has to grow.
LEMMA ScanCountSound ==
  ASSUME SInv, NEW t \in Threads, ScanCount(t) PROVE Sound'
<1>1. /\ pc[t] = "scan" /\ kind[t] = "count"
      /\ UNCHANGED <<shared, calls, ofresh, cwp, cfresh, own>>
  BY DEF ScanCount
<1>2. UNCHANGED <<wp, bits, rc, list, pool, tss, new, cur, owp, op, cwp, own, cfresh, ofresh>>
  BY <1>1 DEF calls, shared
<1>3. /\ pc[t] \in FreePcs \ {"retain"} /\ tss[t] # 0 /\ own[t] = None
      /\ (t \in cfresh => SameWorld(cwp[t], wp))
  BY <1>1, ScanFacts
<1>4. /\ \/ pc'[t] \in {"grow", "try"}
         \/ pc'[t] = "scan" /\ kind'[t] = "count"
      /\ \A u \in Threads \ {t} :
            pc'[u] = pc[u] /\ kind'[u] = kind[u] /\ mine'[u] = mine[u] /\ i'[u] = i[u]
  <2>1. CASE ScanEnds(t)
    <3> DEFINE m == mine'[t]
    <3>1. /\ pc' = [pc EXCEPT ![t] = "grow"] /\ kind' = [kind EXCEPT ![t] = "grow"]
          /\ i' = [i EXCEPT ![t] = 0]
          /\ mine' = [mine EXCEPT ![t] = [@ EXCEPT !.size = cwp[t].size + 1]]
      BY <1>1, <2>1 DEF ScanCount, Goto
    <3>2. \A u \in Threads \ {t} : mine'[u] = mine[u]
      BY <3>1, Domains, Zenon
    <3> QED
      BY <3>1, <3>2, Domains
  <2>2. CASE ~ ScanEnds(t) /\ Unused(cwp[t].st[i[t] + 1])
    BY <1>1, <2>2, Domains DEF ScanCount, Goto
  <2>3. CASE ~ ScanEnds(t) /\ ~ Unused(cwp[t].st[i[t] + 1])
    BY <1>1, <2>3, Domains DEF ScanCount, Goto
  <2> QED
    BY <2>1, <2>2, <2>3
<1>5. PrivateIsInitial(t)' /\ CopyAgrees(t)'
  BY <1>2, <1>3, <1>4 DEF PrivateIsInitial, CopyAgrees
<1>6. FreesOnly(t) /\ FreeMoves(t) /\ pc'[t] # "file"
  BY <1>2, <1>3, <1>4 DEF FreesOnly, FreeMoves, FreePcs
<1> QED
  BY <1>2, <1>3, <1>5, <1>6, QuietFree

\* One storage is looked at, and if it is unused the copy is rotated.
LEMMA ScanReorganizeSound ==
  ASSUME SInv, NEW t \in Threads, ScanReorganize(t) PROVE Sound'
<1> DEFINE copy == IF Unused(mine[t].st[i[t] + 1]) THEN Rotated(mine[t]) ELSE mine[t]
<1>1. /\ pc[t] = "scan" /\ kind[t] = "reorganize" /\ ~ ScanEnds(t)
      /\ i' = [i EXCEPT ![t] = i[t] + 1] /\ mine' = [mine EXCEPT ![t] = copy]
      /\ UNCHANGED <<shared, pc, calls, ofresh, cwp, cfresh, kind, own>>
  BY Domains DEF ScanReorganize
<1>2. UNCHANGED <<wp, bits, rc, list, pool, tss, new, cur, owp, op, cwp, own, cfresh, ofresh,
                  pc, kind>>
  BY <1>1 DEF calls, shared
<1>3. /\ pc[t] \in FreePcs \ {"retain"} /\ tss[t] # 0 /\ own[t] = None
      /\ (t \in cfresh => SameWorld(cwp[t], wp))
      /\ cwp[t] \in WorldType /\ mine[t] \in WorldType /\ i[t] \in Nat /\ CopyAgrees(t)
      /\ CallIsConsistent(t) /\ WellFormed(cwp[t]) /\ Rotating(cwp[t], mine[t], i[t])
  BY <1>1, ScanFacts DEF CallIsConsistent
<1>4. i[t] < Len(mine[t].st) /\ Len(mine[t].st) \in Nat
  BY <1>1, <1>3, ScanGoesOn, Fields DEF SInv, OInv, Rotating
<1> HIDE DEF copy
<1>5. /\ mine'[t] = copy /\ i'[t] = i[t] + 1
      /\ \A u \in Threads \ {t} : mine'[u] = mine[u] /\ i'[u] = i[u]
  <2>1. i[t] + 1 \in Nat
    BY <1>3
  <2> QED
    BY <1>1, Domains
<1>6. /\ mine[t].bit = 1 /\ cwp[t].bit = 1 /\ cwp[t].nt > 1
      /\ Continues(cwp[t], mine[t], None)
      /\ t \in cfresh => \A u \in Registered : RotationIsSafe(t, u)
  BY <1>1, <1>3 DEF CopyAgrees
<1>7. copy.bit = 1 /\ Continues(cwp[t], copy, None)
  <2>1. CASE Unused(mine[t].st[i[t] + 1])
    <3>1. copy = Rotated(mine[t])
      BY <2>1 DEF copy
    <3>2. Rotated(mine[t]).bit = mine[t].bit
      BY <1>3 DEF Rotated, WorldType
    <3>3. Len(mine[t].st) > 0
      BY <1>3, <1>4
    <3> QED
      BY <1>3, <1>6, <3>1, <3>2, <3>3, ContinuesRotated DEF Rotating
  <2>2. CASE ~ Unused(mine[t].st[i[t] + 1])
    BY <1>6, <2>2 DEF copy
  <2> QED
    BY <2>1, <2>2
<1>8. ASSUME t \in cfresh, NEW u \in Registered PROVE RotationIsSafe(t, u)'
  <2> DEFINE d == mine[t].off - cwp[t].off
             x == i[t] * N
             b == Base(cwp[t], cwp[t].ts)
             h == Held(u)
  <2>1. RotationIsSafe(t, u)' <=> \/ copy.off - cwp[t].off = 0
                                  \/ h >= copy.off + (copy.off - cwp[t].off) - N
                                  \/ h >= (copy.off - cwp[t].off) + b - (i[t] + 1) * N
    <3>1. Held(u)' = h /\ Base(cwp[t], cwp[t].ts)' = b
      BY <1>2 DEF Held, InLoop, Base, StorageIndex
    <3> HIDE DEF h, b
    <3> QED
      BY <1>2, <1>5, <3>1 DEF RotationIsSafe
  <2>2. /\ (i[t] + 1) * N = x + N /\ x \in Nat /\ N \in Nat /\ cwp[t].off \in Nat
        /\ mine[t].off \in Nat /\ h \in Nat
    BY <1>3, NextStorage, Sizes, Types DEF Registered
  <2>3. b \in Nat
    <3>1. cwp[t].off <= cwp[t].ts /\ cwp[t].off % N = 0 /\ cwp[t].ts \in Nat
      BY <1>3, OffsetBelow, Fields DEF WellFormed
    <3> QED
      BY <1>3, <3>1, BaseOf
  <2>4. d = mine[t].off - cwp[t].off
    OBVIOUS
  <2>5. CASE Unused(mine[t].st[i[t] + 1])
    <3>1. copy.off = mine[t].off + N
      BY <1>3, <1>4, <2>5, RotatedType DEF copy
    <3>2. h >= mine[t].off + d + N \/ h >= d + b - x
      BY <1>1, <1>8, <2>5, RotationStaysSafe
    <3>3. h >= copy.off + (copy.off - cwp[t].off) - N
            \/ h >= (copy.off - cwp[t].off) + b - (x + N)
      <4> HIDE DEF h, b, x, d
      <4> QED
        BY <2>2, <2>3, <2>4, <3>1, <3>2
    <3> HIDE DEF h, b, x, d
    <3> QED
      BY <2>1, <2>2, <3>3
  <2>6. CASE ~ Unused(mine[t].st[i[t] + 1])
    <3>1. copy = mine[t]
      BY <2>6 DEF copy
    <3>2. d = 0 \/ h >= mine[t].off + d - N \/ h >= d + b - x
      BY <1>6, <1>8 DEF RotationIsSafe
    <3>3. d = 0 \/ h >= mine[t].off + d - N \/ h >= d + b - (x + N)
      <4> HIDE DEF h, b, x, d
      <4> QED
        BY <2>2, <2>3, <2>4, <3>2
    <3> HIDE DEF h, b, x
    <3> QED
      BY <2>1, <2>2, <3>1, <3>3
  <2> QED
    BY <2>5, <2>6
<1>9. CopyAgrees(t)'
  <2>1. Continues(cwp[t], mine[t], None)'
    BY <1>2, <1>5, <1>7 DEF Continues, Slots, StorageOf, StorageIndex
  <2>2. Registered' = Registered
    BY <1>2 DEF Registered
  <2> QED
    BY <1>1, <1>2, <1>5, <1>6, <1>7, <1>8, <2>1, <2>2 DEF CopyAgrees
<1>10. PrivateIsInitial(t)'
  BY <1>2, <1>3 DEF PrivateIsInitial
<1>11. FreesOnly(t) /\ FreeMoves(t) /\ pc'[t] # "file"
  BY <1>1, <1>2, <1>3, <1>5 DEF FreesOnly, FreeMoves, FreePcs
<1> QED
  BY <1>2, <1>3, <1>9, <1>10, <1>11, QuietFree

\* The scan is over: the copy has room for the next timestamp, or it is given up.
LEMMA ReorganizeSound ==
  ASSUME SInv, NEW t \in Threads, Reorganize(t) PROVE Sound'
<1>1. /\ pc[t] = "scan" /\ kind[t] = "reorganize" /\ ScanEnds(t)
      /\ UNCHANGED <<wp, rc, list, calls, ofresh, cwp, cfresh>>
  BY DEF Reorganize
<1>2. /\ pc[t] \in FreePcs \ {"retain"} /\ tss[t] # 0 /\ own[t] = None
      /\ (t \in cfresh => SameWorld(cwp[t], wp))
      /\ cwp[t] \in WorldType /\ mine[t] \in WorldType /\ CopyAgrees(t)
      /\ WellFormed(cwp[t]) /\ Rotating(cwp[t], mine[t], i[t]) /\ i[t] * N <= cwp[t].ts - cwp[t].off
      /\ i[t] \in Nat
  BY <1>1, ScanFacts DEF CallIsConsistent
<1>3. CASE mine[t].off = cwp[t].off \/ ~ Fits(mine[t])
  BY <1>1, <1>2, <1>3, BusySound DEF Reorganize
<1>4. CASE ~ (mine[t].off = cwp[t].off \/ ~ Fits(mine[t]))
  <2>1. /\ RaiseTimestamp(t, mine[t], bits) /\ i' = [i EXCEPT ![t] = 0] /\ Fits(mine[t])
        /\ UNCHANGED <<pool, kind, own>>
    BY <1>1, <1>4 DEF Reorganize
  <2>2. UNCHANGED <<wp, rc, list, pool, tss, new, cur, owp, op, cwp, own, cfresh, ofresh, kind>>
        /\ bits \in [Storages -> SUBSET Indices]
    BY <1>1, <2>1, Types DEF calls
  <2>3. /\ mine[t].size # 0 /\ Len(mine[t].st) <= mine[t].size
        /\ mine[t].off % N = 0 /\ mine[t].ts = cwp[t].ts /\ mine[t].off <= mine[t].ts
    <3>1. i[t] * N \in Nat /\ mine[t].off \in Nat /\ cwp[t].off \in Nat /\ cwp[t].ts \in Nat
      BY <1>2, Sizes, NextStorage
    <3> DEFINE x == i[t] * N
    <3>2. x \in Nat /\ x <= cwp[t].ts - cwp[t].off /\ mine[t].off <= cwp[t].off + x
      BY <1>2, <3>1 DEF Rotating
    <3> HIDE DEF x
    <3>3. mine[t].off <= cwp[t].ts
      BY <3>1, <3>2
    <3> QED
      BY <1>2, <3>3 DEF Rotating, WellFormed
  <2>4. /\ cwp[t].bit = 1 /\ cwp[t].nt > 1 /\ Continues(cwp[t], mine[t], None)
    BY <1>1, <1>2 DEF CopyAgrees
  <2>5. t \in cfresh => \A u \in Registered : mine[t].off <= Held(u)
    BY <1>1, RotationIsDone
  <2>6. \A u \in Threads \ {t} : pc'[u] = pc[u] /\ mine'[u] = mine[u] /\ i'[u] = i[u]
    BY <2>1, Domains DEF RaiseTimestamp, Goto
  <2>7. /\ CopyAgrees(t)' /\ pc'[t] = "cas"
        /\ \A s \in Storages : bits[s] \subseteq bits'[s]
    BY <1>2, <2>1, <2>2, <2>3, <2>4, <2>5, <2>6, OthersHold, RaisedCopyAgrees
  <2>8. PrivateIsInitial(t)'
    BY <1>2, <2>2 DEF PrivateIsInitial
  <2>9. FreesOnly(t) /\ FreeMoves(t)
    BY <1>2, <2>2, <2>6, <2>7 DEF FreesOnly, FreeMoves, FreePcs
  <2> QED
    BY <1>2, <2>2, <2>7, <2>8, <2>9, QuietFree
<1> QED
  BY <1>3, <1>4

\* A larger world is tried, if it has not been made larger meanwhile.
LEMMA GrowSound ==
  ASSUME SInv, NEW t \in Threads, Grow(t) PROVE Sound'
<1>1. /\ pc[t] = "grow" /\ UNCHANGED <<wp, bits, rc, list, calls, ofresh>>
  BY DEF Grow
<1>2. /\ pc[t] \in FreePcs \ {"retain"} /\ tss[t] # 0 /\ PrivateIsInitial(t)
  BY <1>1, ScanFacts
<1>3. CASE Busy(t) /\ UNCHANGED <<cwp, cfresh>>
  BY <1>1, <1>2, <1>3, BusySound
<1>4. CASE ReadCwp(t) /\ Goto(t, "try") /\ UNCHANGED <<pool, kind, mine, own, i>>
  <2>1. /\ pc'[t] = "try" /\ cwp'[t] = wp /\ cfresh' = cfresh \cup {t}
        /\ \A u \in Threads \ {t} : pc'[u] = pc[u] /\ cwp'[u] = cwp[u]
    BY <1>4, Domains DEF ReadCwp, Goto
  <2>2. PrivateIsInitial(t)' /\ CopyAgrees(t)'
    BY <1>1, <1>2, <1>4, <2>1 DEF PrivateIsInitial, Initial, CopyAgrees
  <2>3. FreesOnly(t) /\ FreeMoves(t)
    BY <1>1, <1>2, <1>4, <2>1 DEF FreesOnly, FreeMoves, FreePcs, calls
  <2> QED
    BY <1>1, <1>2, <2>1, <2>2, <2>3, SameWorldReflexive, QuietFree
<1> QED
  BY <1>3, <1>4 DEF Grow

\* The compare-and-swap fails, and the free tries again.
LEMMA FreeSwapFailSound ==
  ASSUME SInv, NEW t \in Threads, FreeSwapFail(t) PROVE Sound'
<1>1. /\ pc[t] = "cas" /\ UNCHANGED <<wp, bits, rc, list, calls, ofresh, kind, mine, i>>
  BY DEF FreeSwapFail
<1>2. /\ pc[t] \in FreePcs \ {"retain"} /\ tss[t] # 0 /\ PrivateIsInitial(t)
      /\ (t \in cfresh => SameWorld(cwp[t], wp))
  BY <1>1, ScanFacts
<1>3. /\ pc'[t] \in {"grow", "try"} /\ cfresh' \ {t} \subseteq cfresh
      /\ cwp'[t] = wp \/ (cwp'[t] = cwp[t] /\ cfresh' = cfresh)
      /\ own'[t] = None \/ own'[t] = own[t]
      /\ \A u \in Threads \ {t} : pc'[u] = pc[u] /\ cwp'[u] = cwp[u] /\ own'[u] = own[u]
  <2>1. CASE kind[t] = "grow"
    BY <2>1, Domains DEF FreeSwapFail, Goto
  <2>2. CASE kind[t] # "grow"
    <3>1. /\ pc' = [pc EXCEPT ![t] = "try"] /\ cwp' = [cwp EXCEPT ![t] = wp]
          /\ cfresh' = cfresh \cup {t}
          /\ own' = own \/ own' = [own EXCEPT ![t] = None]
      BY <2>2 DEF FreeSwapFail, Goto, ReadCwp, Discard
    <3> QED
      BY <3>1, Domains
  <2> QED
    BY <2>1, <2>2
<1>4. PrivateIsInitial(t)' /\ CopyAgrees(t)'
  BY <1>1, <1>2, <1>3 DEF PrivateIsInitial, Initial, CopyAgrees
<1>5. FreesOnly(t) /\ FreeMoves(t) /\ pc'[t] # "file"
  BY <1>1, <1>2, <1>3 DEF FreesOnly, FreeMoves, FreePcs, calls
<1>6. t \in cfresh' => SameWorld(cwp'[t], wp)
  BY <1>2, <1>3, SameWorldReflexive
<1> QED
  BY <1>1, <1>2, <1>4, <1>5, <1>6, QuietFree

=============================================================================
