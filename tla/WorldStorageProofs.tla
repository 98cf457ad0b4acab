------------------------- MODULE WorldStorageProofs -------------------------
(***************************************************************************)
(* Proofs about the geometry of worlds, for any number of threads and of   *)
(* storages, any number N of entries per storage above 1, and any size of  *)
(* the first world: that the next timestamp always has a place, and that   *)
(* every storage has one owner, so that none is leaked, freed twice, or in *)
(* a world twice.                                                          *)
(***************************************************************************)
EXTENDS WorldStorageProperties, FiniteSetTheorems, TLAPS

IInv == TypeOK /\ WorldIsWellFormed /\ CallsAreConsistent

-----------------------------------------------------------------------------
(* Arithmetic of storages.                                                 *)

LEMMA StorageExists ==
  ASSUME NEW a \in Nat, NEW n \in Nat
  PROVE  a \div N < n <=> a < n * N
BY StorageAssumption, SMT

LEMMA NextOffset ==
  ASSUME NEW a \in Nat, a % N = 0
  PROVE  (a + N) % N = 0
BY StorageAssumption, SMT

LEMMA NextStorage ==
  ASSUME NEW n \in Nat
  PROVE  /\ n * N \in Nat
         /\ (n + 1) * N = n * N + N
         /\ (n + 1) * N \in Nat
BY StorageAssumption, SMT

LEMMA ZeroOffset == 0 % N = 0 /\ 0 * N = 0
BY StorageAssumption, SMT

-----------------------------------------------------------------------------
(* Worlds and the copies that are made of them.                            *)

LEMMA Fields ==
  ASSUME NEW world \in WorldType
  PROVE  /\ world.bit \in 0 .. 1 /\ world.lock \in 0 .. 1
         /\ world.ts \in 0 .. MaxTimestamp /\ world.nt \in Nat
         /\ world.off \in Nat /\ world.size \in Nat
         /\ world.st \in Seq(Storages) /\ Len(world.st) \in Nat
BY DEF WorldType

LEMMA CopyType ==
  ASSUME NEW world \in WorldType,
         NEW ts \in 0 .. MaxTimestamp, NEW bit \in 0 .. 1, NEW lock \in 0 .. 1
  PROVE  [world EXCEPT !.ts = ts, !.bit = bit, !.lock = lock] \in WorldType
BY DEF WorldType

LEMMA NoWorldType == NoWorld \in WorldType
BY StorageAssumption DEF NoWorld, WorldType

\* What free, checkin, register and unregister change apart from the storages.
LEMMA ChangeType ==
  ASSUME NEW world \in WorldType, NEW nt \in Nat, NEW bit \in 0 .. 1, NEW lock \in 0 .. 1
  PROVE  LET copy == [world EXCEPT !.nt = nt, !.bit = bit, !.lock = lock]
         IN  /\ copy \in WorldType
             /\ WellFormed(world) => WellFormed(copy)
<1> DEFINE copy == [world EXCEPT !.nt = nt, !.bit = bit, !.lock = lock]
<1>1. copy \in WorldType
  BY DEF WorldType
<1>2. /\ copy.ts = world.ts /\ copy.off = world.off
      /\ copy.size = world.size /\ copy.st = world.st
  BY DEF WorldType
<1> HIDE DEF copy
<1>3. WellFormed(world) => WellFormed(copy)
  BY <1>2 DEF WellFormed
<1> QED
  BY <1>1, <1>3 DEF copy

LEMMA ResetWellFormed ==
  ASSUME NEW world \in WorldType, world.size # 0, NEW lock \in 0 .. 1
  PROVE  LET copy == [ResetWorld(world) EXCEPT !.lock = lock]
         IN  copy \in WorldType /\ WellFormed(copy)
<1> DEFINE copy == [ResetWorld(world) EXCEPT !.lock = lock]
<1>1. copy = [bit |-> 0, lock |-> lock, ts |-> 0, nt |-> 0, off |-> 0,
              size |-> world.size, st |-> <<>>]
  <2>1. ResetWorld(world) = [bit |-> 0, lock |-> 0, ts |-> 0, nt |-> 0, off |-> 0,
                             size |-> world.size, st |-> <<>>]
    BY DEF ResetWorld, NoWorld
  <2> QED
    BY <2>1
<1> HIDE DEF copy
<1>2. copy \in WorldType
  BY <1>1, Fields, StorageAssumption DEF WorldType
<1>3. /\ copy.ts = 0 /\ copy.off = 0 /\ copy.st = <<>> /\ copy.size = world.size
      /\ Len(<<>>) = 0 /\ world.size \in Nat
  BY <1>1, Fields
<1>4. WellFormed(copy)
  BY <1>3, ZeroOffset DEF WellFormed
<1> QED
  BY <1>2, <1>4 DEF copy

LEMMA RaisedWellFormed ==
  ASSUME NEW world \in WorldType, world.ts < MaxTimestamp, Fits(world),
         world.size # 0, Len(world.st) <= world.size,
         world.off % N = 0, world.off <= world.ts
  PROVE  Raised(world) \in WorldType /\ WellFormed(Raised(world))
<1> DEFINE copy == Raised(world)
<1>1. copy \in WorldType
  <2>1. world.ts + 1 \in 0 .. MaxTimestamp /\ 0 \in 0 .. 1
    BY Fields, StorageAssumption
  <2> QED
    BY <2>1, CopyType DEF Raised
<1>2. /\ copy.ts = world.ts + 1 /\ copy.off = world.off
      /\ copy.size = world.size /\ copy.st = world.st
  BY DEF Raised, WorldType
<1>3. /\ world.ts \in Nat /\ world.off \in Nat /\ Len(world.st) * N \in Nat
  BY Fields, NextStorage, StorageAssumption
<1>4. /\ world.ts + 1 - world.off < Len(world.st) * N
      /\ world.off <= world.ts + 1 /\ world.ts + 1 # 0
  BY <1>3 DEF Fits
<1> HIDE DEF copy
<1>5. copy \in WorldType /\ WellFormed(copy)
  BY <1>1, <1>2, <1>3, <1>4 DEF WellFormed
<1> QED
  BY <1>5 DEF copy

LEMMA PushedType ==
  ASSUME NEW world \in WorldType, NEW s \in Storages
  PROVE  /\ Pushed(world, s) \in WorldType
         /\ Len(Pushed(world, s).st) = Len(world.st) + 1
         /\ Pushed(world, s).ts = world.ts /\ Pushed(world, s).off = world.off
         /\ Pushed(world, s).size = world.size
<1>1. /\ Append(world.st, s) \in Seq(Storages)
      /\ Len(Append(world.st, s)) = Len(world.st) + 1
  <2>1. world.st \in Seq(Storages)
    BY Fields
  <2> QED
    BY <2>1
<1> DEFINE st == Append(world.st, s)
<1>2. Pushed(world, s) = [world EXCEPT !.st = st]
  BY DEF Pushed
<1> HIDE DEF st
<1>3. st \in Seq(Storages) /\ Len(st) = Len(world.st) + 1
  BY <1>1 DEF st
<1> QED
  BY <1>2, <1>3 DEF WorldType

\* add_storage_and_increment_timestamp always has room for the timestamp.
LEMMA PushedFits ==
  ASSUME NEW world \in WorldType, WellFormed(world), NEW s \in Storages \cup {None}
  PROVE  Fits(Pushed(world, s))
<1>1. /\ Len(Pushed(world, s).st) = Len(world.st) + 1
      /\ Pushed(world, s).ts = world.ts /\ Pushed(world, s).off = world.off
  <2>1. world.st \in Seq(Storages \cup {None})
    BY DEF WorldType
  <2>2. Len(Append(world.st, s)) = Len(world.st) + 1
    BY <2>1
  <2> QED
    BY <2>2 DEF Pushed, WorldType
<1>2. /\ world.ts \in Nat /\ world.off \in Nat /\ N \in Nat /\ N > 1
      /\ (Len(world.st) + 1) * N = Len(world.st) * N + N /\ Len(world.st) * N \in Nat
  BY NextStorage, Fields, StorageAssumption
<1>3. world.ts - world.off < Len(world.st) * N + 1
  BY <1>2 DEF WellFormed
<1>4. world.ts - world.off + 1 < (Len(world.st) + 1) * N
  BY <1>2, <1>3
<1> QED
  BY <1>1, <1>4 DEF Fits

LEMMA RotatedType ==
  ASSUME NEW world \in WorldType, Len(world.st) > 0
  PROVE  /\ Rotated(world) \in WorldType
         /\ Len(Rotated(world).st) = Len(world.st)
         /\ Rotated(world).off = world.off + N
         /\ Rotated(world).ts = world.ts /\ Rotated(world).size = world.size
<1>1. /\ Append(Tail(world.st), Head(world.st)) \in Seq(Storages)
      /\ Len(Append(Tail(world.st), Head(world.st))) = Len(world.st)
  <2>1. world.st \in Seq(Storages) /\ world.st # <<>>
    BY Fields
  <2>2. Head(world.st) \in Storages /\ Tail(world.st) \in Seq(Storages)
    BY <2>1
  <2> QED
    BY <2>1, <2>2
<1>2. world.off + N \in Nat
  BY Fields, StorageAssumption
<1> QED
  BY <1>1, <1>2 DEF Rotated, WorldType

-----------------------------------------------------------------------------
(* Entries.                                                                *)

LEMMA UpdateType ==
  ASSUME NEW X, NEW entries \in [Storages -> [Indices -> X]], NEW world, NEW T, NEW value,
         StorageOf(world, T) \in Storages /\ Index(T) \in Indices => value \in X
  PROVE  UpdateEntry(entries, world, T, value) \in [Storages -> [Indices -> X]]
<1> DEFINE s == StorageOf(world, T)
           x == Index(T)
<1>1. CASE s \in Storages /\ x \in Indices
  BY <1>1 DEF UpdateEntry
<1>2. CASE s \in Storages /\ x \notin Indices
  <2>1. [entries[s] EXCEPT ![x] = value] \in [Indices -> X]
    BY <1>2
  <2> QED
    BY <1>2, <2>1 DEF UpdateEntry
<1>3. CASE s \notin Storages
  BY <1>3 DEF UpdateEntry
<1> QED
  BY <1>1, <1>2, <1>3

LEMMA CountType ==
  ASSUME rc \in [Storages -> [Indices -> Int]], NEW world, NEW T, NEW n \in Int
  PROVE  /\ UpdateEntry(rc, world, T, EntryOf(rc, world, T) + n) \in [Storages -> [Indices -> Int]]
         /\ UpdateEntry(rc, world, T, EntryOf(rc, world, T) - n) \in [Storages -> [Indices -> Int]]
<1>1. StorageOf(world, T) \in Storages /\ Index(T) \in Indices
        => EntryOf(rc, world, T) + n \in Int /\ EntryOf(rc, world, T) - n \in Int
  BY DEF EntryOf
<1> QED
  BY <1>1, UpdateType

LEMMA UsageType ==
  ASSUME NEW usage \in [Storages -> SUBSET Indices], NEW world, NEW T \in Nat
  PROVE  /\ [usage EXCEPT ![StorageOf(world, T)] = @ \cup {Index(T)}] \in [Storages -> SUBSET Indices]
         /\ [usage EXCEPT ![StorageOf(world, T)] = @ \ {Index(T)}] \in [Storages -> SUBSET Indices]
<1>1. Index(T) \in Indices
  BY StorageAssumption, SMT DEF Index, Indices
<1>2. CASE StorageOf(world, T) \in Storages
  BY <1>1, <1>2
<1>3. CASE StorageOf(world, T) \notin Storages
  BY <1>3
<1> QED
  BY <1>2, <1>3

-----------------------------------------------------------------------------
(* IInv is inductive.                                                      *)

LEMMA SetType ==
  ASSUME NEW X, NEW f \in [Threads -> X], NEW t \in Threads, NEW x \in X
  PROVE  [f EXCEPT ![t] = x] \in [Threads -> X]
OBVIOUS

LEMMA ForgottenType ==
  ASSUME TypeOK, NEW t \in Threads
  PROVE  /\ [cur EXCEPT ![t] = 0] \in [Threads -> 0 .. MaxTimestamp + 1]
         /\ [tss EXCEPT ![t] = 0] \in [Threads -> 0 .. MaxTimestamp + 1]
         /\ [new EXCEPT ![t] = 0] \in [Threads -> 0 .. MaxTimestamp]
         /\ [owp EXCEPT ![t] = NoWorld] \in [Threads -> WorldType]
         /\ [cwp EXCEPT ![t] = NoWorld] \in [Threads -> WorldType]
         /\ [mine EXCEPT ![t] = NoWorld] \in [Threads -> WorldType]
         /\ [i EXCEPT ![t] = 0] \in [Threads -> Nat]
<1>1. 0 \in 0 .. MaxTimestamp /\ 0 \in 0 .. MaxTimestamp + 1 /\ 0 \in Nat
  BY StorageAssumption
<1>2. /\ cur \in [Threads -> 0 .. MaxTimestamp + 1]
      /\ tss \in [Threads -> 0 .. MaxTimestamp + 1]
      /\ new \in [Threads -> 0 .. MaxTimestamp]
      /\ owp \in [Threads -> WorldType] /\ cwp \in [Threads -> WorldType]
      /\ mine \in [Threads -> WorldType] /\ i \in [Threads -> Nat]
  BY DEF TypeOK
<1> QED
  BY <1>1, <1>2, NoWorldType, SetType

\* A step of thread t leaves the local variables of the others alone.
LEMMA OthersAreConsistent ==
  ASSUME CallsAreConsistent, NEW t \in Threads, CallIsConsistent(t)',
         \A u \in Threads \ {t} :
            /\ pc'[u] = pc[u] /\ kind'[u] = kind[u] /\ chain'[u] = chain[u]
            /\ cur'[u] = cur[u] /\ new'[u] = new[u]
            /\ cwp'[u] = cwp[u] /\ mine'[u] = mine[u] /\ i'[u] = i[u]
  PROVE  CallsAreConsistent'
<1> SUFFICES ASSUME NEW u \in Threads \ {t} PROVE CallIsConsistent(u)'
  BY DEF CallsAreConsistent
<1>1. CallIsConsistent(u)
  BY DEF CallsAreConsistent
<1> QED
  BY <1>1 DEF CallIsConsistent

LEMMA InitIInv == Init => IInv
<1> SUFFICES ASSUME Init PROVE IInv
  OBVIOUS
<1>1. wp \in WorldType /\ WellFormed(wp)
  <2>1. wp = [bit |-> 0, lock |-> 0, ts |-> 0, nt |-> 0, off |-> 0, size |-> InitialSize, st |-> <<>>]
    BY DEF Init, NoWorld
  <2>2. Len(<<>>) = 0
    OBVIOUS
  <2>3. wp \in WorldType
    BY <2>1, StorageAssumption DEF WorldType
  <2>4. WellFormed(wp)
    BY <2>1, <2>2, ZeroOffset, StorageAssumption DEF WellFormed
  <2> QED
    BY <2>3, <2>4
<1>2. TypeOK
  BY <1>1, NoWorldType, StorageAssumption DEF Init, TypeOK, Pcs, Kinds
<1>3. CallsAreConsistent
  BY DEF Init, CallsAreConsistent, CallIsConsistent
<1> QED
  BY <1>1, <1>2, <1>3 DEF IInv, WorldIsWellFormed

LEMMA RegisterIInv ==
  ASSUME IInv, NEW t \in Threads, RegisterStep(t) PROVE IInv'
<1> USE DEF IInv, Goto, freeing
<1>0. wp \in WorldType /\ WellFormed(wp) /\ 0 \in 0 .. 1 /\ 1 \in 0 .. 1
  BY DEF TypeOK, WorldIsWellFormed
<1>1. CASE RegisterLock(t)
  <2> USE DEF RegisterLock
  <2>1. wp' \in WorldType /\ WellFormed(wp')
    BY <1>0, <1>1 DEF WorldType, WellFormed
  <2>2. TypeOK'
    BY <1>1, <2>1 DEF TypeOK, Pcs
  <2>3. CallIsConsistent(t)'
    BY <1>1 DEF TypeOK, CallsAreConsistent, CallIsConsistent, FreePcs
  <2>4. CallsAreConsistent'
    BY <1>1, <2>3, OthersAreConsistent DEF TypeOK
  <2> QED
    BY <2>1, <2>2, <2>4 DEF WorldIsWellFormed
<1>2. CASE RegisterSwap(t)
  <2> USE DEF RegisterSwap, Install
  <2>1. wp' \in WorldType /\ WellFormed(wp')
    <3>1. wp.nt + 1 \in Nat
      BY <1>0, Fields
    <3>2. /\ [wp EXCEPT !.nt = wp.nt + 1, !.bit = 1, !.lock = 0] \in WorldType
          /\ WellFormed([wp EXCEPT !.nt = wp.nt + 1, !.bit = 1, !.lock = 0])
      BY <1>0, <3>1, ChangeType
    <3> QED
      BY <1>0, <1>2, <3>2
  <2>2. TypeOK'
    <3>1. wp.ts + 1 \in 0 .. MaxTimestamp + 1
      BY <1>0, Fields, StorageAssumption
    <3>2. chain' \in [Threads -> Nat] /\ pc' \in [Threads -> Pcs] /\ owp' \in [Threads -> WorldType]
      BY <1>2, NoWorldType DEF TypeOK, Pcs, FreePcs
    <3> QED
      BY <1>2, <2>1, <3>1, <3>2 DEF TypeOK
  <2>3. CallIsConsistent(t)'
    BY <1>2 DEF TypeOK, CallsAreConsistent, CallIsConsistent
  <2>4. CallsAreConsistent'
    BY <1>2, <2>3, OthersAreConsistent DEF TypeOK
  <2> QED
    BY <2>1, <2>2, <2>4 DEF WorldIsWellFormed
<1> QED
  BY <1>1, <1>2 DEF RegisterStep

LEMMA CheckinIInv ==
  ASSUME IInv, NEW t \in Threads, CheckinStep(t) PROVE IInv'
<1> USE DEF IInv, Goto, calls, freeing, shared
<1>0. /\ wp \in WorldType /\ WellFormed(wp) /\ 0 \in 0 .. 1 /\ 1 \in 0 .. 1
      /\ wp.ts \in 0 .. MaxTimestamp /\ wp.lock \in 0 .. 1
  BY Fields DEF TypeOK, WorldIsWellFormed
<1>1. CASE Checkin(t)
  <2> USE DEF Checkin, BeginCheckin
  <2>1. pc' \in [Threads -> Pcs]
    BY <1>1 DEF TypeOK, Pcs, CheckinPcs
  <2>2. TypeOK'
    BY <1>0, <1>1, <2>1 DEF TypeOK
  <2>3. CallIsConsistent(t)'
    BY <1>1 DEF TypeOK, CallsAreConsistent, CallIsConsistent
  <2>4. CallsAreConsistent'
    BY <1>1, <2>3, OthersAreConsistent DEF TypeOK
  <2> QED
    BY <1>1, <2>2, <2>4 DEF WorldIsWellFormed
<1>2. CASE CheckinBit(t)
  <2> USE DEF CheckinBit
  <2>1. wp' \in WorldType /\ WellFormed(wp')
    BY <1>0, <1>2 DEF WorldType, WellFormed
  <2>2. pc' \in [Threads -> Pcs]
    BY <1>2 DEF TypeOK, Pcs, CheckinPcs
  <2>3. TypeOK'
    BY <1>2, <2>1, <2>2 DEF TypeOK
  <2>4. CallIsConsistent(t)'
    BY <1>2 DEF TypeOK, CallsAreConsistent, CallIsConsistent
  <2>5. CallsAreConsistent'
    BY <1>2, <2>4, OthersAreConsistent DEF TypeOK
  <2> QED
    BY <2>1, <2>3, <2>5 DEF WorldIsWellFormed
<1>3. CASE CheckinCopy(t)
  <2> USE DEF CheckinCopy, Install
  <2>1. wp' \in WorldType /\ WellFormed(wp')
    BY <1>0, <1>3 DEF WorldType, WellFormed
  <2>2. /\ pc' \in [Threads -> Pcs] /\ chain' \in [Threads -> Nat]
        /\ owp' \in [Threads -> WorldType]
    BY <1>0, <1>3, <2>1 DEF TypeOK, Pcs, CheckinPcs, FreePcs
  <2>3. TypeOK'
    BY <1>3, <2>1, <2>2 DEF TypeOK
  <2>4. CallIsConsistent(t)'
    BY <1>0, <1>3 DEF TypeOK, CallsAreConsistent, CallIsConsistent
  <2>5. CallsAreConsistent'
    BY <1>3, <2>4, OthersAreConsistent DEF TypeOK
  <2> QED
    BY <2>1, <2>3, <2>5 DEF WorldIsWellFormed
<1>4. CASE CheckinRange(t)
  <2> USE DEF CheckinRange
  <2>1. pc' \in [Threads -> Pcs] /\ owp' \in [Threads -> WorldType]
    BY <1>0, <1>4 DEF TypeOK, Pcs, CheckinPcs
  <2>2. cur' \in [Threads -> 0 .. MaxTimestamp + 1]
    <3>1. new[t] + 1 \in 0 .. MaxTimestamp + 1
      BY StorageAssumption DEF TypeOK
    <3> QED
      BY <1>4, <3>1 DEF TypeOK
  <2>3. TypeOK'
    BY <1>4, <2>1, <2>2 DEF TypeOK
  <2>4. CallIsConsistent(t)'
    BY <1>4 DEF TypeOK, CallsAreConsistent, CallIsConsistent
  <2>5. CallsAreConsistent'
    BY <1>4, <2>4, OthersAreConsistent DEF TypeOK
  <2> QED
    BY <1>4, <2>3, <2>5 DEF WorldIsWellFormed
<1>5. CASE CheckinDecrement(t)
  <2> USE DEF CheckinDecrement
  <2>1. pc' \in [Threads -> Pcs]
    BY <1>5 DEF TypeOK, Pcs, CheckinPcs
  <2>2. rc' \in [Storages -> [Indices -> Int]]
    BY <1>5, CountType DEF TypeOK
  <2>3. cur' \in [Threads -> 0 .. MaxTimestamp + 1]
    <3>1. cur[t] + 1 \in 0 .. MaxTimestamp + 1
      BY <1>5, StorageAssumption DEF TypeOK
    <3> QED
      BY <1>5, <3>1 DEF TypeOK
  <2>4. TypeOK'
    BY <1>5, <2>1, <2>2, <2>3 DEF TypeOK
  <2>5. CallIsConsistent(t)'
    BY <1>5 DEF TypeOK, CallsAreConsistent, CallIsConsistent
  <2>6. CallsAreConsistent'
    BY <1>5, <2>5, OthersAreConsistent DEF TypeOK
  <2> QED
    BY <1>5, <2>4, <2>6 DEF WorldIsWellFormed
<1>6. CASE CheckinSnip(t)
  <2> USE DEF CheckinSnip
  <2>1. pc' \in [Threads -> Pcs]
    BY <1>6 DEF TypeOK, Pcs, CheckinPcs
  <2>2. list' \in [Storages -> [Indices -> SUBSET (1 .. MaxTimestamp)]]
    BY <1>6, UpdateType DEF TypeOK
  <2>3. TypeOK'
    BY <1>6, <2>1, <2>2 DEF TypeOK
  <2>4. CallIsConsistent(t)'
    BY <1>6 DEF TypeOK, CallsAreConsistent, CallIsConsistent
  <2>5. CallsAreConsistent'
    BY <1>6, <2>4, OthersAreConsistent DEF TypeOK
  <2> QED
    BY <1>6, <2>3, <2>5 DEF WorldIsWellFormed
<1>7. CASE CheckinClear(t)
  <2> USE DEF CheckinClear
  <2>1. pc' \in [Threads -> Pcs]
    BY <1>7 DEF TypeOK, Pcs, CheckinPcs
  <2>2. bits' \in [Storages -> SUBSET Indices]
    <3>1. cur[t] \in Nat
      BY StorageAssumption DEF TypeOK
    <3> QED
      BY <1>7, <3>1, UsageType DEF TypeOK, Cleared
  <2>3. cur' \in [Threads -> 0 .. MaxTimestamp + 1]
    <3>1. cur[t] <= new[t]
      BY <1>7 DEF CallsAreConsistent, CallIsConsistent
    <3>2. cur[t] + 1 \in 0 .. MaxTimestamp + 1
      BY <3>1, StorageAssumption DEF TypeOK
    <3> QED
      BY <1>7, <3>2 DEF TypeOK
  <2>4. TypeOK'
    BY <1>7, <2>1, <2>2, <2>3 DEF TypeOK
  <2>5. CallIsConsistent(t)'
    BY <1>7 DEF TypeOK, CallsAreConsistent, CallIsConsistent
  <2>6. CallsAreConsistent'
    BY <1>7, <2>5, OthersAreConsistent DEF TypeOK
  <2> QED
    BY <1>7, <2>4, <2>6 DEF WorldIsWellFormed
<1>8. CASE CheckinDone(t)
  <2> USE DEF CheckinDone
  <2>1. pc' \in [Threads -> Pcs]
    BY <1>8 DEF TypeOK, Pcs
  <2>2. tss' \in [Threads -> 0 .. MaxTimestamp + 1]
    <3>1. new[t] + 1 \in 0 .. MaxTimestamp + 1
      BY StorageAssumption DEF TypeOK
    <3> QED
      BY <1>8, <3>1 DEF TypeOK
  <2>3. /\ cur' \in [Threads -> 0 .. MaxTimestamp + 1]
        /\ new' \in [Threads -> 0 .. MaxTimestamp]
        /\ owp' \in [Threads -> WorldType]
    <3>1. /\ cur' = [cur EXCEPT ![t] = 0]
          /\ new' = new \/ new' = [new EXCEPT ![t] = 0]
          /\ owp' = owp \/ owp' = [owp EXCEPT ![t] = NoWorld]
      BY <1>8
    <3>2. new \in [Threads -> 0 .. MaxTimestamp] /\ owp \in [Threads -> WorldType]
      BY DEF TypeOK
    <3> QED
      BY <3>1, <3>2, ForgottenType
  <2>4. /\ op' \in [Threads -> {"none", "register", "free", "checkin", "unregister"}]
        /\ ofresh' \subseteq Threads
    BY <1>8 DEF TypeOK
  <2>6. TypeOK'
    BY <1>8, <2>1, <2>2, <2>3, <2>4 DEF TypeOK
  <2>7. CallIsConsistent(t)'
    BY <1>8 DEF TypeOK, CallsAreConsistent, CallIsConsistent
  <2>8. CallsAreConsistent'
    BY <1>8, <2>7, OthersAreConsistent DEF TypeOK
  <2> QED
    BY <1>8, <2>6, <2>8 DEF WorldIsWellFormed
<1> QED
  BY <1>1, <1>2, <1>3, <1>4, <1>5, <1>6, <1>7, <1>8 DEF CheckinStep

LEMMA UnregisterIInv ==
  ASSUME IInv, NEW t \in Threads, UnregisterStep(t) PROVE IInv'
<1> USE DEF IInv, Goto, calls, freeing, shared
<1>0. /\ wp \in WorldType /\ WellFormed(wp) /\ 0 \in 0 .. 1 /\ 1 \in 0 .. 1
      /\ wp.ts \in 0 .. MaxTimestamp /\ wp.nt \in Nat
  BY Fields DEF TypeOK, WorldIsWellFormed
<1>1. CASE UnregisterBegin(t)
  <2> USE DEF UnregisterBegin, BeginCheckin
  <2>1. pc' \in [Threads -> Pcs]
    BY <1>1 DEF TypeOK, Pcs, CheckinPcs
  <2>2. /\ new' = [new EXCEPT ![t] = wp.ts] /\ owp' = [owp EXCEPT ![t] = wp]
        /\ ofresh' = ofresh \cup {t}
    BY <1>1
  <2>3. TypeOK'
    BY <1>0, <1>1, <2>1, <2>2 DEF TypeOK
  <2>4. CallIsConsistent(t)'
    BY <1>1 DEF TypeOK, CallsAreConsistent, CallIsConsistent
  <2>5. CallsAreConsistent'
    BY <1>1, <2>4, OthersAreConsistent DEF TypeOK
  <2> QED
    BY <1>1, <2>3, <2>5 DEF WorldIsWellFormed
<1>2. CASE UnregisterLock(t)
  <2> USE DEF UnregisterLock, Forget
  <2>1. wp' \in WorldType /\ WellFormed(wp')
    BY <1>0, <1>2 DEF WorldType, WellFormed
  <2>2. pc' \in [Threads -> Pcs] /\ ofresh' \subseteq Threads
    BY <1>2 DEF TypeOK, Pcs
  <2>3. owp' \in [Threads -> WorldType] /\ new' \in [Threads -> 0 .. MaxTimestamp]
    <3>1. /\ owp' = [owp EXCEPT ![t] = wp'] \/ owp' = [owp EXCEPT ![t] = NoWorld]
          /\ new' = new \/ new' = [new EXCEPT ![t] = 0]
      BY <1>2
    <3>2. [owp EXCEPT ![t] = wp'] \in [Threads -> WorldType] /\ new \in [Threads -> 0 .. MaxTimestamp]
      BY <2>1 DEF TypeOK
    <3> QED
      BY <3>1, <3>2, ForgottenType
  <2>4. TypeOK'
    BY <1>2, <2>1, <2>2, <2>3 DEF TypeOK
  <2>5. CallIsConsistent(t)'
    BY <1>2 DEF TypeOK, CallsAreConsistent, CallIsConsistent
  <2>6. CallsAreConsistent'
    BY <1>2, <2>5, OthersAreConsistent DEF TypeOK
  <2> QED
    BY <2>1, <2>4, <2>6 DEF WorldIsWellFormed
<1>3. CASE UnregisterSwap(t)
  <2> USE DEF UnregisterSwap, Install
  <2>1. wp' \in WorldType /\ WellFormed(wp')
    <3>1. CASE wp.nt > 1
      <4>1. wp.nt - 1 \in Nat
        BY <1>0, <3>1
      <4>2. /\ [wp EXCEPT !.nt = wp.nt - 1, !.bit = 1, !.lock = 0] \in WorldType
            /\ WellFormed([wp EXCEPT !.nt = wp.nt - 1, !.bit = 1, !.lock = 0])
        BY <1>0, <4>1, ChangeType
      <4> QED
        BY <1>3, <3>1, <4>2
    <3>2. CASE ~ (wp.nt > 1)
      <4>1. wp.size # 0
        BY <1>0 DEF WellFormed
      <4>2. /\ [ResetWorld(wp) EXCEPT !.lock = 1] \in WorldType
            /\ WellFormed([ResetWorld(wp) EXCEPT !.lock = 1])
        BY <1>0, <4>1, ResetWellFormed
      <4> QED
        BY <1>3, <3>2, <4>2
    <3> QED
      BY <3>1, <3>2
  <2>2. /\ pc' \in [Threads -> Pcs] /\ ofresh' \subseteq Threads /\ cfresh' \subseteq Threads
        /\ op' \in [Threads -> {"none", "register", "free", "checkin", "unregister"}]
    BY <1>3 DEF TypeOK, Pcs
  <2>3. /\ owp' \in [Threads -> WorldType] /\ new' \in [Threads -> 0 .. MaxTimestamp]
        /\ tss' \in [Threads -> 0 .. MaxTimestamp + 1]
    <3>1. /\ owp' = owp \/ owp' = [owp EXCEPT ![t] = NoWorld]
          /\ new' = new \/ new' = [new EXCEPT ![t] = 0]
          /\ tss' = [tss EXCEPT ![t] = 0]
      BY <1>3
    <3>2. owp \in [Threads -> WorldType] /\ new \in [Threads -> 0 .. MaxTimestamp]
      BY DEF TypeOK
    <3> QED
      BY <3>1, <3>2, ForgottenType
  <2>4. TypeOK'
    BY <1>3, <2>1, <2>2, <2>3 DEF TypeOK
  <2>5. CallIsConsistent(t)'
    BY <1>3 DEF TypeOK, CallsAreConsistent, CallIsConsistent
  <2>6. CallsAreConsistent'
    BY <1>3, <2>5, OthersAreConsistent DEF TypeOK
  <2> QED
    BY <2>1, <2>4, <2>6 DEF WorldIsWellFormed
<1>4. CASE UnregisterFail(t)
  <2> USE DEF UnregisterFail, Forget
  <2>1. wp' \in WorldType /\ WellFormed(wp')
    BY <1>0, <1>4 DEF WorldType, WellFormed
  <2>2. /\ pc' \in [Threads -> Pcs] /\ ofresh' \subseteq Threads
        /\ chain' \in [Threads -> Nat]
    <3>1. chain \in [Threads -> Nat] /\ 1 \in Nat
      BY DEF TypeOK
    <3>2. chain' = chain \/ chain' = [chain EXCEPT ![t] = 1]
      BY <1>4
    <3>3. chain' \in [Threads -> Nat]
      BY <3>1, <3>2, SetType
    <3>4. pc' \in [Threads -> Pcs] /\ ofresh' \subseteq Threads
      BY <1>4 DEF TypeOK, Pcs, FreePcs
    <3> QED
      BY <3>3, <3>4
  <2>3. TypeOK'
    BY <1>4, <2>1, <2>2, ForgottenType DEF TypeOK
  <2>4. CallIsConsistent(t)'
    BY <1>4 DEF TypeOK, CallsAreConsistent, CallIsConsistent
  <2>5. CallsAreConsistent'
    BY <1>4, <2>4, OthersAreConsistent DEF TypeOK
  <2> QED
    BY <2>1, <2>3, <2>5 DEF WorldIsWellFormed
<1>5. CASE UnregisterWipe(t)
  <2> USE DEF UnregisterWipe, Forget
  <2>1. wp' \in WorldType /\ WellFormed(wp')
    BY <1>0, <1>5 DEF WorldType, WellFormed
  <2>2. /\ pc' \in [Threads -> Pcs] /\ ofresh' \subseteq Threads
        /\ op' \in [Threads -> {"none", "register", "free", "checkin", "unregister"}]
    BY <1>5 DEF TypeOK, Pcs
  <2>3. pool' \subseteq Storages
    <3>1. owp[t].st \in Seq(Storages)
      BY Fields DEF TypeOK
    <3>2. StoragesOf(owp[t]) \subseteq Storages
      BY <3>1 DEF StoragesOf
    <3> QED
      BY <1>5, <3>2 DEF TypeOK
  <2>4. TypeOK'
    <3>1. owp' \in [Threads -> WorldType] /\ new' \in [Threads -> 0 .. MaxTimestamp]
      BY <1>5, ForgottenType
    <3> QED
      BY <1>5, <2>1, <2>2, <2>3, <3>1 DEF TypeOK
  <2>5. CallIsConsistent(t)'
    BY <1>5 DEF TypeOK, CallsAreConsistent, CallIsConsistent
  <2>6. CallsAreConsistent'
    BY <1>5, <2>5, OthersAreConsistent DEF TypeOK
  <2> QED
    BY <2>1, <2>4, <2>6 DEF WorldIsWellFormed
<1> QED
  BY <1>1, <1>2, <1>3, <1>4, <1>5 DEF UnregisterStep

-----------------------------------------------------------------------------
(* The steps of a free, and what they have in common.                      *)

LEMMA OffsetBelow ==
  ASSUME NEW world \in WorldType, WellFormed(world)
  PROVE  world.off <= world.ts /\ 0 * N <= world.ts - world.off
BY Fields, ZeroOffset DEF WellFormed

LEMMA ReturnType ==
  ASSUME TypeOK, NEW t \in Threads, NEW left \in Nat, ReturnFromFree(t, left)
  PROVE  /\ pc' \in [Threads -> Pcs] /\ kind' \in [Threads -> Kinds]
         /\ op' \in [Threads -> {"none", "register", "free", "checkin", "unregister"}]
         /\ cwp' \in [Threads -> WorldType] /\ mine' \in [Threads -> WorldType]
         /\ cfresh' \subseteq Threads /\ i' \in [Threads -> Nat]
         /\ pc'[t] \in {"idle", "drop", "range", "ubegin"}
         /\ pc'[t] = "drop" => left # 0
         /\ i'[t] = 0
<1> USE DEF ReturnFromFree, Goto
<1>1. /\ Caller(t, left) \in {"idle", "drop", "range", "ubegin"}
      /\ Caller(t, left) = "drop" => left # 0
  BY DEF Caller
<1>2. pc' \in [Threads -> Pcs] /\ pc'[t] = Caller(t, left)
  BY <1>1 DEF TypeOK, Pcs, FreePcs, CheckinPcs
<1>3. kind' \in [Threads -> Kinds] /\ cfresh' \subseteq Threads
  BY DEF TypeOK, Kinds
<1>4. op' \in [Threads -> {"none", "register", "free", "checkin", "unregister"}]
  BY DEF TypeOK
<1>5. /\ cwp' \in [Threads -> WorldType] /\ mine' \in [Threads -> WorldType]
      /\ i' \in [Threads -> Nat]
  BY ForgottenType
<1>6. i'[t] = 0
  BY DEF TypeOK
<1> QED
  BY <1>1, <1>2, <1>3, <1>4, <1>5, <1>6

LEMMA ProceedType ==
  ASSUME TypeOK, NEW t \in Threads, NEW world \in WorldType, Proceed(t, world)
  PROVE  /\ pc' \in [Threads -> Pcs] /\ kind' \in [Threads -> Kinds]
         /\ pc'[t] \in {"file", "scan", "try"}
         /\ pc'[t] = "file" => world.ts # 0
         /\ kind'[t] \notin {"grow", "reorganize"}
<1> USE DEF Proceed, Goto
<1>1. /\ Choice(world) \in {"file", "increment", "add", "count"}
      /\ Choice(world) = "file" => world.ts # 0
  BY Fields DEF Choice, HasEntry
<1>2. kind' \in [Threads -> Kinds] /\ kind'[t] = Choice(world)
  BY <1>1 DEF TypeOK, Kinds
<1>3. /\ pc' \in [Threads -> Pcs] /\ pc'[t] \in {"file", "scan", "try"}
      /\ pc'[t] = "file" => Choice(world) = "file"
  BY <1>1 DEF TypeOK, Pcs, FreePcs
<1> QED
  BY <1>1, <1>2, <1>3

LEMMA DiscardType ==
  ASSUME TypeOK, NEW t \in Threads, Discard(t)
  PROVE  pool' \subseteq Storages /\ own' \in [Threads -> Storages \cup {None}]
BY DEF TypeOK, Discard, Discarded

LEMMA BusyType ==
  ASSUME TypeOK, NEW t \in Threads, Busy(t)
  PROVE  /\ pc' \in [Threads -> Pcs] /\ kind' \in [Threads -> Kinds]
         /\ pool' \subseteq Storages /\ own' \in [Threads -> Storages \cup {None}]
         /\ mine' \in [Threads -> WorldType] /\ i' \in [Threads -> Nat]
         /\ pc'[t] = "reload" /\ i'[t] = 0
<1> USE DEF Busy, Goto
<1>1. /\ pc' \in [Threads -> Pcs] /\ kind' \in [Threads -> Kinds] /\ pc'[t] = "reload"
  BY DEF TypeOK, Pcs, FreePcs, Kinds
<1>2. i'[t] = 0
  BY DEF TypeOK
<1> QED
  BY <1>1, <1>2, DiscardType, ForgottenType

LEMMA RaiseType ==
  ASSUME TypeOK, NEW t \in Threads, NEW world \in WorldType,
         NEW usage \in [Storages -> SUBSET Indices],
         Fits(world), world.size # 0, Len(world.st) <= world.size,
         world.off % N = 0, world.off <= world.ts,
         RaiseTimestamp(t, world, usage)
  PROVE  /\ pc' \in [Threads -> Pcs] /\ mine' \in [Threads -> WorldType]
         /\ bits' \in [Storages -> SUBSET Indices]
         /\ pc'[t] = "cas" /\ WellFormed(mine'[t])
<1> USE DEF RaiseTimestamp, Goto
<1>1. Raised(world) \in WorldType /\ WellFormed(Raised(world))
  BY RaisedWellFormed
<1>2. mine' \in [Threads -> WorldType] /\ mine'[t] = Raised(world)
  BY <1>1 DEF TypeOK
<1>3. pc' \in [Threads -> Pcs] /\ pc'[t] = "cas"
  BY DEF TypeOK, Pcs, FreePcs
<1>4. bits' \in [Storages -> SUBSET Indices]
  <2>1. Raised(world).ts \in Nat
    BY <1>1, Fields, StorageAssumption
  <2> QED
    BY <2>1, UsageType DEF Used
<1> QED
  BY <1>1, <1>2, <1>3, <1>4

\* The copy a callback gets is well formed if the world it is copied from is.
LEMMA CopyWellFormed ==
  ASSUME IInv, NEW t \in Threads, pc[t] = "try"
  PROVE  /\ cwp[t] \in WorldType /\ WellFormed(cwp[t])
         /\ Copy(t) \in WorldType /\ WellFormed(Copy(t))
         /\ Copy(t).ts = cwp[t].ts /\ Copy(t).off = cwp[t].off /\ Copy(t).st = cwp[t].st
         /\ kind[t] # "grow" => Copy(t).size = cwp[t].size
<1> DEFINE size == IF kind[t] = "grow" THEN mine[t].size ELSE cwp[t].size
           copy == [cwp[t] EXCEPT !.size = size]
<1>1. /\ cwp[t] \in WorldType /\ mine[t] \in WorldType
      /\ WellFormed(cwp[t])
      /\ kind[t] = "grow" => mine[t].size > cwp[t].size
  BY DEF IInv, TypeOK, CallsAreConsistent, CallIsConsistent
<1>2. size \in Nat /\ size >= cwp[t].size
  BY <1>1, Fields
<1> HIDE DEF size
<1>3. /\ copy \in WorldType /\ copy.ts = cwp[t].ts /\ copy.off = cwp[t].off
      /\ copy.st = cwp[t].st /\ copy.size = size
  BY <1>1, <1>2 DEF WorldType
<1>4. Copy(t) = copy
  BY DEF Copy, size
<1> HIDE DEF copy
<1>5. Len(cwp[t].st) \in Nat /\ cwp[t].size \in Nat
  BY <1>1, Fields
<1>6. WellFormed(copy)
  BY <1>1, <1>2, <1>3, <1>5 DEF WellFormed
<1> QED
  BY <1>1, <1>3, <1>4, <1>6 DEF size

LEMMA DropType ==
  ASSUME IInv, NEW t \in Threads, pc[t] = "drop"
  PROVE  chain[t] - 1 \in Nat /\ [chain EXCEPT ![t] = chain[t] - 1] \in [Threads -> Nat]
<1>1. CallIsConsistent(t) /\ chain \in [Threads -> Nat]
  BY DEF IInv, TypeOK, CallsAreConsistent
<1>2. chain[t] \in Nat /\ chain[t] # 0
  BY <1>1 DEF CallIsConsistent
<1>3. chain[t] - 1 \in Nat
  BY <1>2
<1> QED
  BY <1>1, <1>3, SetType

\* Reading the world, and filing and retaining in it.
LEMMA ReadIInv ==
  ASSUME IInv, NEW t \in Threads,
         FreeNow(t) \/ FreeBegin(t) \/ FreeReload(t) \/ FreeRetain(t) \/ FreeFile(t)
  PROVE  IInv'
<1> USE DEF IInv, calls, shared
<1>0. wp \in WorldType /\ WellFormed(wp)
  BY DEF TypeOK, WorldIsWellFormed
<1>1. CASE FreeNow(t)
  <2> USE DEF FreeNow
  <2>1. chain[t] - 1 \in Nat /\ chain' \in [Threads -> Nat] /\ chain'[t] = chain[t] - 1
    BY <1>1, DropType DEF TypeOK
  <2>2. /\ pc' \in [Threads -> Pcs] /\ kind' \in [Threads -> Kinds]
        /\ op' \in [Threads -> {"none", "register", "free", "checkin", "unregister"}]
        /\ cwp' \in [Threads -> WorldType] /\ mine' \in [Threads -> WorldType]
        /\ cfresh' \subseteq Threads /\ i' \in [Threads -> Nat]
        /\ pc'[t] \in {"idle", "drop", "range", "ubegin"}
        /\ pc'[t] = "drop" => chain[t] - 1 # 0
        /\ i'[t] = 0
    BY <1>1, <2>1, ReturnType
  <2>3. TypeOK'
    BY <1>1, <2>1, <2>2 DEF TypeOK
  <2>4. CallIsConsistent(t)'
    BY <2>1, <2>2 DEF TypeOK, CallIsConsistent
  <2>5. CallsAreConsistent'
    BY <1>1, <2>4, OthersAreConsistent DEF ReturnFromFree, Goto
  <2> QED
    BY <1>1, <2>3, <2>5 DEF WorldIsWellFormed
<1>2. CASE FreeBegin(t)
  <2> USE DEF FreeBegin, ReadCwp
  <2>1. /\ pc' \in [Threads -> Pcs] /\ kind' \in [Threads -> Kinds]
        /\ pc'[t] \in {"file", "scan", "try"}
        /\ pc'[t] = "file" => wp.ts # 0
        /\ kind'[t] \notin {"grow", "reorganize"}
    BY <1>0, <1>2, ProceedType
  <2>2. /\ cwp' = [cwp EXCEPT ![t] = wp] /\ cwp' \in [Threads -> WorldType]
        /\ cwp'[t] = wp /\ i'[t] = 0
    BY <1>0, <1>2 DEF TypeOK, CallsAreConsistent, CallIsConsistent
  <2>3. /\ op' \in [Threads -> {"none", "register", "free", "checkin", "unregister"}]
        /\ cfresh' \subseteq Threads
    BY <1>2 DEF TypeOK
  <2>4. chain' \in [Threads -> Nat] /\ \A u \in Threads \ {t} : chain'[u] = chain[u]
    <3>1. CASE pc[t] = "idle"
      BY <1>2, <3>1 DEF TypeOK
    <3>2. CASE pc[t] = "drop"
      <4>1. chain' = [chain EXCEPT ![t] = chain[t] - 1]
        BY <1>2, <3>2
      <4> QED
        BY <3>2, <4>1, DropType DEF TypeOK
    <3> QED
      BY <1>2, <3>1, <3>2
  <2>5. TypeOK'
    BY <1>2, <2>1, <2>2, <2>3, <2>4 DEF TypeOK
  <2>6. CallIsConsistent(t)'
    BY <1>0, <2>1, <2>2, OffsetBelow DEF CallIsConsistent
  <2>7. CallsAreConsistent'
    BY <1>2, <2>4, <2>6, OthersAreConsistent DEF Proceed, Goto
  <2> QED
    BY <1>2, <2>5, <2>7 DEF WorldIsWellFormed
<1>3. CASE FreeReload(t)
  <2> USE DEF FreeReload, ReadCwp
  <2>1. /\ pc' \in [Threads -> Pcs] /\ kind' \in [Threads -> Kinds]
        /\ pc'[t] \in {"file", "scan", "try"}
        /\ pc'[t] = "file" => wp.ts # 0
        /\ kind'[t] \notin {"grow", "reorganize"}
    BY <1>0, <1>3, ProceedType
  <2>2. /\ cwp' = [cwp EXCEPT ![t] = wp] /\ cwp' \in [Threads -> WorldType]
        /\ cwp'[t] = wp /\ i'[t] = 0
    BY <1>0, <1>3 DEF TypeOK, CallsAreConsistent, CallIsConsistent
  <2>3. cfresh' \subseteq Threads
    BY <1>3 DEF TypeOK
  <2>4. TypeOK'
    BY <1>3, <2>1, <2>2, <2>3 DEF TypeOK
  <2>5. CallIsConsistent(t)'
    BY <1>0, <2>1, <2>2, OffsetBelow DEF CallIsConsistent
  <2>6. CallsAreConsistent'
    BY <1>3, <2>5, OthersAreConsistent DEF Proceed, Goto
  <2> QED
    BY <1>3, <2>4, <2>6 DEF WorldIsWellFormed
<1>4. CASE FreeRetain(t)
  <2> USE DEF FreeRetain
  <2>1. cwp[t] \in WorldType /\ WellFormed(cwp[t]) /\ i[t] = 0
    BY <1>4 DEF TypeOK, CallsAreConsistent, CallIsConsistent
  <2>2. /\ pc' \in [Threads -> Pcs] /\ kind' \in [Threads -> Kinds]
        /\ pc'[t] \in {"file", "scan", "try"}
        /\ pc'[t] = "file" => cwp[t].ts # 0
        /\ kind'[t] \notin {"grow", "reorganize"}
    BY <1>4, <2>1, ProceedType
  <2>3. rc' \in [Storages -> [Indices -> Int]]
    <3>1. cwp[t].nt \in Int
      BY <2>1, Fields
    <3> QED
      BY <1>4, <3>1, CountType DEF TypeOK
  <2>4. mine' \in [Threads -> WorldType]
    BY <1>4, ForgottenType
  <2>5. TypeOK'
    BY <1>4, <2>2, <2>3, <2>4 DEF TypeOK
  <2>6. CallIsConsistent(t)'
    BY <1>4, <2>1, <2>2, OffsetBelow DEF CallIsConsistent
  <2>7. CallsAreConsistent'
    BY <1>4, <2>6, OthersAreConsistent DEF Proceed, Goto
  <2> QED
    BY <1>4, <2>5, <2>7 DEF WorldIsWellFormed
<1>5. CASE FreeFile(t)
  <2> USE DEF FreeFile
  <2>1. chain[t] \in Nat /\ cwp[t] \in WorldType /\ cwp[t].ts # 0
    BY <1>5 DEF TypeOK, CallsAreConsistent, CallIsConsistent
  <2>2. /\ pc' \in [Threads -> Pcs] /\ kind' \in [Threads -> Kinds]
        /\ op' \in [Threads -> {"none", "register", "free", "checkin", "unregister"}]
        /\ cwp' \in [Threads -> WorldType] /\ mine' \in [Threads -> WorldType]
        /\ cfresh' \subseteq Threads /\ i' \in [Threads -> Nat]
        /\ pc'[t] \in {"idle", "drop", "range", "ubegin"}
        /\ pc'[t] = "drop" => chain[t] # 0
        /\ i'[t] = 0
    BY <1>5, <2>1, ReturnType
  <2>3. list' \in [Storages -> [Indices -> SUBSET (1 .. MaxTimestamp)]]
    <3>1. cwp[t].ts \in 1 .. MaxTimestamp
      BY <2>1, Fields, StorageAssumption
    <3> DEFINE X == SUBSET (1 .. MaxTimestamp)
               e == EntryOf(list, cwp[t], cwp[t].ts)
    <3>2. StorageOf(cwp[t], cwp[t].ts) \in Storages /\ Index(cwp[t].ts) \in Indices => e \in X
      BY DEF TypeOK, EntryOf
    <3>3. StorageOf(cwp[t], cwp[t].ts) \in Storages /\ Index(cwp[t].ts) \in Indices
            => e \cup {cwp[t].ts} \in X
      BY <3>1, <3>2
    <3>4. list \in [Storages -> [Indices -> X]]
      BY DEF TypeOK
    <3>5. list' = UpdateEntry(list, cwp[t], cwp[t].ts, e \cup {cwp[t].ts})
      BY <1>5
    <3> HIDE DEF X, e
    <3>6. list' \in [Storages -> [Indices -> X]]
      BY <3>3, <3>4, <3>5, UpdateType
    <3> QED
      BY <3>6 DEF X
  <2>4. TypeOK'
    BY <1>5, <2>2, <2>3 DEF TypeOK
  <2>5. CallIsConsistent(t)'
    BY <1>5, <2>2 DEF CallIsConsistent
  <2>6. CallsAreConsistent'
    BY <1>5, <2>5, OthersAreConsistent DEF ReturnFromFree, Goto
  <2> QED
    BY <1>5, <2>4, <2>6 DEF WorldIsWellFormed
<1> QED
  BY <1>1, <1>2, <1>3, <1>4, <1>5

\* Raising the timestamp in the storages there are, or in one more.
LEMMA TryIInv ==
  ASSUME IInv, NEW t \in Threads,
         TryFail(t) \/ TryIncrement(t) \/ TryAdd(t) \/ TryReorganize(t)
  PROVE  IInv'
<1> USE DEF IInv, calls, shared
<1>0. /\ pc[t] = "try" /\ i[t] = 0 /\ cwp[t] \in WorldType /\ WellFormed(cwp[t])
      /\ Copy(t) \in WorldType /\ WellFormed(Copy(t))
      /\ Copy(t).ts = cwp[t].ts /\ Copy(t).off = cwp[t].off /\ Copy(t).st = cwp[t].st
      /\ kind[t] # "grow" => Copy(t).size = cwp[t].size
  <2>1. pc[t] = "try"
    BY DEF TryFail, TryIncrement, TryAdd, TryReorganize
  <2>2. i[t] = 0
    BY <2>1 DEF CallsAreConsistent, CallIsConsistent
  <2> QED
    BY <2>1, <2>2, CopyWellFormed
<1> DEFINE world == Copy(t)
<1>a. /\ world.size # 0 /\ Len(world.st) <= world.size
      /\ world.off % N = 0 /\ world.off <= world.ts
  BY <1>0, OffsetBelow DEF WellFormed
<1>1. CASE TryFail(t)
  <2> USE DEF TryFail
  <2>1. CASE SingleThreaded(Copy(t))
    <3>1. Discard(t) /\ ReturnFromFree(t, chain[t]) /\ chain[t] \in Nat
      BY <1>1, <2>1 DEF TypeOK
    <3>2. /\ pc' \in [Threads -> Pcs] /\ kind' \in [Threads -> Kinds]
          /\ op' \in [Threads -> {"none", "register", "free", "checkin", "unregister"}]
          /\ cwp' \in [Threads -> WorldType] /\ mine' \in [Threads -> WorldType]
          /\ cfresh' \subseteq Threads /\ i' \in [Threads -> Nat]
          /\ pc'[t] \in {"idle", "drop", "range", "ubegin"}
          /\ pc'[t] = "drop" => chain[t] # 0
          /\ i'[t] = 0
      BY <3>1, ReturnType
    <3>3. TypeOK'
      BY <1>1, <3>1, <3>2, DiscardType DEF TypeOK
    <3>4. CallIsConsistent(t)'
      BY <1>1, <3>2 DEF CallIsConsistent
    <3>5. CallsAreConsistent'
      BY <1>1, <3>1, <3>4, OthersAreConsistent DEF ReturnFromFree, Goto
    <3> QED
      BY <1>1, <3>3, <3>5 DEF WorldIsWellFormed
  <2>2. CASE ~ SingleThreaded(Copy(t))
    <3>1. Busy(t) /\ UNCHANGED <<op, cwp, cfresh>>
      BY <1>1, <2>2
    <3>2. /\ pc' \in [Threads -> Pcs] /\ kind' \in [Threads -> Kinds]
          /\ pool' \subseteq Storages /\ own' \in [Threads -> Storages \cup {None}]
          /\ mine' \in [Threads -> WorldType] /\ i' \in [Threads -> Nat]
          /\ pc'[t] = "reload" /\ i'[t] = 0
      BY <3>1, BusyType
    <3>3. TypeOK'
      BY <1>1, <3>1, <3>2 DEF TypeOK
    <3>4. CallIsConsistent(t)'
      BY <3>2 DEF CallIsConsistent
    <3>5. CallsAreConsistent'
      BY <1>1, <3>1, <3>4, OthersAreConsistent DEF Busy, Goto
    <3> QED
      BY <1>1, <3>3, <3>5 DEF WorldIsWellFormed
  <2> QED
    BY <2>1, <2>2
<1>2. CASE TryIncrement(t)
  <2> USE DEF TryIncrement
  <2>1. RaiseTimestamp(t, world, bits) /\ Fits(world) /\ bits \in [Storages -> SUBSET Indices]
    BY <1>2 DEF TypeOK
  <2>2. /\ pc' \in [Threads -> Pcs] /\ mine' \in [Threads -> WorldType]
        /\ bits' \in [Storages -> SUBSET Indices]
        /\ pc'[t] = "cas" /\ WellFormed(mine'[t])
    BY <1>0, <1>a, <2>1, RaiseType
  <2>3. TypeOK'
    BY <1>2, <2>2 DEF TypeOK
  <2>4. CallIsConsistent(t)'
    BY <1>0, <1>2, <2>2 DEF CallIsConsistent
  <2>5. CallsAreConsistent'
    BY <1>2, <2>1, <2>4, OthersAreConsistent DEF RaiseTimestamp, Goto
  <2> QED
    BY <1>2, <2>3, <2>5 DEF WorldIsWellFormed
<1>3. CASE TryAdd(t)
  <2> USE DEF TryAdd
  <2>1. \E s \in Storages : \E usage \in [Storages -> SUBSET Indices] :
            RaiseTimestamp(t, Pushed(world, s), usage)
    <3>1. CASE own[t] # None
      <4>1. own[t] \in Storages /\ bits \in [Storages -> SUBSET Indices]
        BY <3>1 DEF TypeOK
      <4>2. RaiseTimestamp(t, Pushed(world, own[t]), bits)
        BY <1>3, <3>1
      <4> QED
        BY <4>1, <4>2
    <3>2. CASE own[t] = None
      <4>1. PICK s \in pool : RaiseTimestamp(t, Pushed(world, s), [bits EXCEPT ![s] = {}])
        BY <1>3, <3>2
      <4>2. s \in Storages /\ [bits EXCEPT ![s] = {}] \in [Storages -> SUBSET Indices]
        BY DEF TypeOK
      <4> QED
        BY <4>1, <4>2
    <3> QED
      BY <3>1, <3>2
  <2>2. PICK s \in Storages : \E usage \in [Storages -> SUBSET Indices] :
            RaiseTimestamp(t, Pushed(world, s), usage)
    BY <2>1
  <2>3. PICK usage \in [Storages -> SUBSET Indices] : RaiseTimestamp(t, Pushed(world, s), usage)
    BY <2>2
  <2> DEFINE pushed == Pushed(world, s)
  <2>4. /\ pushed \in WorldType /\ Len(pushed.st) = Len(world.st) + 1
        /\ pushed.ts = world.ts /\ pushed.off = world.off /\ pushed.size = world.size
    BY <1>0, PushedType
  <2>5. Fits(pushed)
    BY <1>0, PushedFits
  <2>6. /\ pushed.size # 0 /\ Len(pushed.st) <= pushed.size
        /\ pushed.off % N = 0 /\ pushed.off <= pushed.ts
    <3>1. Len(world.st) < world.size /\ Len(world.st) \in Nat /\ world.size \in Nat
      BY <1>0, <1>3, Fields
    <3> HIDE DEF world, pushed
    <3> QED
      BY <1>a, <2>4, <3>1
  <2>7. RaiseTimestamp(t, pushed, usage)
    BY <2>3
  <2> HIDE DEF pushed
  <2>8. /\ pc' \in [Threads -> Pcs] /\ mine' \in [Threads -> WorldType]
        /\ bits' \in [Storages -> SUBSET Indices]
        /\ pc'[t] = "cas" /\ WellFormed(mine'[t])
    BY <2>4, <2>5, <2>6, <2>7, RaiseType
  <2>9. /\ rc' \in [Storages -> [Indices -> Int]] /\ pool' \subseteq Storages
        /\ list' \in [Storages -> [Indices -> SUBSET (1 .. MaxTimestamp)]]
        /\ own' \in [Threads -> Storages \cup {None}]
    <3>1. CASE own[t] # None
      BY <1>3, <3>1 DEF TypeOK
    <3>2. CASE own[t] = None
      <4>1. PICK f \in pool :
              /\ rc'   = [rc   EXCEPT ![f] = [x \in Indices |-> -1]]
              /\ list' = [list EXCEPT ![f] = [x \in Indices |-> {}]]
              /\ pool' = pool \ {f}
              /\ own'  = [own EXCEPT ![t] = f]
        BY <1>3, <3>2
      <4>2. /\ rc \in [Storages -> [Indices -> Int]] /\ pool \subseteq Storages
            /\ list \in [Storages -> [Indices -> SUBSET (1 .. MaxTimestamp)]]
            /\ own \in [Threads -> Storages \cup {None}]
        BY DEF TypeOK
      <4>3. rc' \in [Storages -> [Indices -> Int]]
        <5>1. [x \in Indices |-> -1] \in [Indices -> Int]
          OBVIOUS
        <5> QED
          BY <4>1, <4>2, <5>1
      <4>4. list' \in [Storages -> [Indices -> SUBSET (1 .. MaxTimestamp)]]
        <5>1. [x \in Indices |-> {}] \in [Indices -> SUBSET (1 .. MaxTimestamp)]
          OBVIOUS
        <5> QED
          BY <4>1, <4>2, <5>1
      <4> QED
        BY <4>1, <4>2, <4>3, <4>4
    <3> QED
      BY <3>1, <3>2
  <2>10. TypeOK'
    BY <1>3, <2>8, <2>9 DEF TypeOK
  <2>11. CallIsConsistent(t)'
    BY <1>0, <1>3, <2>8 DEF CallIsConsistent
  <2>12. CallsAreConsistent'
    BY <1>3, <2>7, <2>11, OthersAreConsistent DEF RaiseTimestamp, Goto
  <2> QED
    BY <1>3, <2>10, <2>12 DEF WorldIsWellFormed
<1>4. CASE TryReorganize(t)
  <2> USE DEF TryReorganize, Goto
  <2>1. mine' = [mine EXCEPT ![t] = world] /\ pc' = [pc EXCEPT ![t] = "scan"]
    BY <1>4
  <2>2. /\ pc' \in [Threads -> Pcs] /\ pc'[t] = "scan"
        /\ mine' \in [Threads -> WorldType] /\ mine'[t] = world
    BY <1>0, <2>1 DEF TypeOK, Pcs, FreePcs
  <2>3. TypeOK'
    BY <1>4, <2>2 DEF TypeOK
  <2>4. Rotating(cwp[t], world, 0)
    <3>1. kind[t] # "grow" /\ cwp[t].off <= cwp[t].off + 0 * N
      BY <1>0, <1>4, ZeroOffset, Fields
    <3> QED
      BY <1>0, <1>a, <3>1 DEF Rotating
  <2>5. CallIsConsistent(t)'
    <3>1. 0 * N <= cwp[t].ts - cwp[t].off
      BY <1>0, OffsetBelow
    <3> QED
      BY <1>0, <1>4, <2>2, <2>4, <3>1 DEF CallIsConsistent
  <2>6. CallsAreConsistent'
    BY <1>4, <2>5, OthersAreConsistent
  <2> QED
    BY <1>4, <2>3, <2>6 DEF WorldIsWellFormed
<1> QED
  BY <1>1, <1>2, <1>3, <1>4

\* The scan looks at no storage behind that of the world's timestamp.
LEMMA ScanGoesOn ==
  ASSUME IInv, NEW t \in Threads, pc[t] = "scan", ~ ScanEnds(t)
  PROVE  /\ (i[t] + 1) * N <= cwp[t].ts - cwp[t].off
         /\ i[t] < Len(cwp[t].st)
<1> DEFINE a == cwp[t].ts - cwp[t].off
           q == a \div N
<1>1. /\ cwp[t] \in WorldType /\ WellFormed(cwp[t]) /\ i[t] \in Nat
      /\ i[t] * N <= a
  BY DEF IInv, TypeOK, CallsAreConsistent, CallIsConsistent
<1>2. a \in Nat
  <2>1. cwp[t].off <= cwp[t].ts /\ cwp[t].off \in Nat /\ cwp[t].ts \in Nat
    BY <1>1, OffsetBelow, Fields, StorageAssumption
  <2> QED
    BY <2>1
<1>3. i[t] # q /\ i[t] < Len(cwp[t].st)
  BY <1>1, Fields DEF ScanEnds, StorageIndex
<1> HIDE DEF a, q
<1>4. /\ q < i[t] <=> a < i[t] * N
      /\ q < i[t] + 1 <=> a < (i[t] + 1) * N
  <2>1. i[t] + 1 \in Nat
    BY <1>1
  <2> QED
    BY <1>1, <1>2, <2>1, StorageExists DEF q
<1>5. q \in Int /\ i[t] * N \in Nat /\ (i[t] + 1) * N \in Nat
  <2>1. q \in Int
    BY <1>2, StorageAssumption, SMT DEF q
  <2> QED
    BY <1>1, <2>1, NextStorage
<1>6. (i[t] + 1) * N <= a
  BY <1>1, <1>2, <1>3, <1>4, <1>5
<1> QED
  BY <1>3, <1>6 DEF a

\* Looking for storages to reuse, reusing them, and growing the world.
LEMMA ScanIInv ==
  ASSUME IInv, NEW t \in Threads,
         ScanCount(t) \/ ScanReorganize(t) \/ Reorganize(t) \/ Grow(t)
  PROVE  IInv'
<1> USE DEF IInv, calls, shared
<1>0. /\ wp \in WorldType /\ WellFormed(wp) /\ cwp[t] \in WorldType /\ mine[t] \in WorldType
      /\ pc[t] = "scan" => WellFormed(cwp[t]) /\ i[t] * N <= cwp[t].ts - cwp[t].off
      /\ pc[t] = "scan" /\ kind[t] = "reorganize" => Rotating(cwp[t], mine[t], i[t])
      /\ i[t] \in Nat /\ i[t] + 1 \in Nat
  BY DEF TypeOK, WorldIsWellFormed, CallsAreConsistent, CallIsConsistent
<1>1. CASE ScanCount(t)
  <2> USE DEF ScanCount, Goto
  <2>1. CASE ScanEnds(t)
    <3>1. /\ kind' = [kind EXCEPT ![t] = "grow"] /\ pc' = [pc EXCEPT ![t] = "grow"]
          /\ mine' = [mine EXCEPT ![t].size = cwp[t].size + 1]
          /\ i' = [i EXCEPT ![t] = 0]
      BY <1>1, <2>1
    <3>2. mine' \in [Threads -> WorldType]
      <4>1. cwp[t].size + 1 \in Nat
        BY <1>0, Fields
      <4>2. [mine[t] EXCEPT !.size = cwp[t].size + 1] \in WorldType
        BY <1>0, <4>1 DEF WorldType
      <4>3. mine' = [mine EXCEPT ![t] = [mine[t] EXCEPT !.size = cwp[t].size + 1]]
        BY <3>1
      <4> QED
        BY <4>2, <4>3, SetType DEF TypeOK
    <3>3. /\ pc' \in [Threads -> Pcs] /\ kind' \in [Threads -> Kinds]
          /\ i' \in [Threads -> Nat] /\ i'[t] = 0 /\ pc'[t] = "grow"
      <4>1. i' \in [Threads -> Nat]
        BY <3>1, ForgottenType
      <4> QED
        BY <3>1, <4>1 DEF TypeOK, Pcs, FreePcs, Kinds
    <3>4. TypeOK'
      BY <1>1, <3>2, <3>3 DEF TypeOK
    <3>5. CallIsConsistent(t)'
      BY <3>3 DEF CallIsConsistent
    <3>6. CallsAreConsistent'
      BY <1>1, <3>1, <3>5, OthersAreConsistent
    <3> QED
      BY <1>1, <3>4, <3>6 DEF WorldIsWellFormed
  <2>2. CASE ~ ScanEnds(t) /\ Unused(cwp[t].st[i[t] + 1])
    <3>1. /\ kind' = [kind EXCEPT ![t] = "reorganize"] /\ pc' = [pc EXCEPT ![t] = "try"]
          /\ mine' = mine /\ i' = [i EXCEPT ![t] = 0]
      BY <1>1, <2>2
    <3>2. /\ pc' \in [Threads -> Pcs] /\ kind' \in [Threads -> Kinds]
          /\ i' \in [Threads -> Nat] /\ i'[t] = 0
          /\ pc'[t] = "try" /\ kind'[t] = "reorganize"
      <4>1. i' \in [Threads -> Nat]
        BY <3>1, ForgottenType
      <4> QED
        BY <3>1, <4>1 DEF TypeOK, Pcs, FreePcs, Kinds
    <3>3. TypeOK'
      BY <1>1, <3>1, <3>2 DEF TypeOK
    <3>4. CallIsConsistent(t)'
      BY <1>0, <1>1, <3>2 DEF CallIsConsistent
    <3>5. CallsAreConsistent'
      BY <1>1, <3>1, <3>4, OthersAreConsistent
    <3> QED
      BY <1>1, <3>3, <3>5 DEF WorldIsWellFormed
  <2>3. CASE ~ ScanEnds(t) /\ ~ Unused(cwp[t].st[i[t] + 1])
    <3>1. /\ i' = [i EXCEPT ![t] = i[t] + 1] /\ pc' = pc /\ kind' = kind /\ mine' = mine
          /\ pc[t] = "scan" /\ kind[t] = "count"
      BY <1>1, <2>3
    <3>2. i' \in [Threads -> Nat] /\ i'[t] = i[t] + 1
      BY <1>0, <3>1 DEF TypeOK
    <3>3. TypeOK'
      BY <1>1, <3>1, <3>2 DEF TypeOK
    <3>4. CallIsConsistent(t)'
      BY <1>0, <1>1, <2>3, <3>1, <3>2, ScanGoesOn DEF CallIsConsistent
    <3>5. CallsAreConsistent'
      BY <1>1, <3>1, <3>4, OthersAreConsistent
    <3> QED
      BY <1>1, <3>3, <3>5 DEF WorldIsWellFormed
  <2> QED
    BY <2>1, <2>2, <2>3
<1>2. CASE ScanReorganize(t)
  <2> USE DEF ScanReorganize
  <2>1. /\ i' = [i EXCEPT ![t] = i[t] + 1] /\ pc' = pc /\ kind' = kind
        /\ pc[t] = "scan" /\ kind[t] = "reorganize" /\ ~ ScanEnds(t)
        /\ i' \in [Threads -> Nat] /\ i'[t] = i[t] + 1
    BY <1>0, <1>2 DEF TypeOK
  <2>2. /\ (i[t] + 1) * N <= cwp[t].ts - cwp[t].off /\ i[t] < Len(cwp[t].st)
        /\ Rotating(cwp[t], mine[t], i[t])
    BY <1>0, <2>1, ScanGoesOn
  <2>3. /\ i[t] * N \in Nat /\ (i[t] + 1) * N = i[t] * N + N
        /\ N \in Nat /\ cwp[t].off \in Nat /\ mine[t].off \in Nat /\ Len(mine[t].st) \in Nat
    BY <1>0, NextStorage, Fields, StorageAssumption
  <2>4. /\ Rotated(mine[t]) \in WorldType /\ Rotating(cwp[t], Rotated(mine[t]), i[t] + 1)
    <3>1. Len(mine[t].st) > 0
      BY SMTT(30), <1>0, <2>2, <2>3 DEF Rotating
    <3>2. /\ Rotated(mine[t]) \in WorldType
          /\ Len(Rotated(mine[t]).st) = Len(mine[t].st)
          /\ Rotated(mine[t]).off = mine[t].off + N
          /\ Rotated(mine[t]).ts = mine[t].ts /\ Rotated(mine[t]).size = mine[t].size
      BY <1>0, <3>1, RotatedType
    <3>3. (mine[t].off + N) % N = 0
      BY <2>2, <2>3, NextOffset DEF Rotating
    <3>4. mine[t].off + N <= cwp[t].off + (i[t] + 1) * N
      BY <2>2, <2>3 DEF Rotating
    <3> QED
      BY <2>2, <3>2, <3>3, <3>4 DEF Rotating
  <2>5. Rotating(cwp[t], mine[t], i[t] + 1)
    <3>1. mine[t].off <= cwp[t].off + (i[t] + 1) * N
      BY <2>2, <2>3 DEF Rotating
    <3> QED
      BY <2>2, <3>1 DEF Rotating
  <2>6. mine' = mine \/ mine' = [mine EXCEPT ![t] = Rotated(mine[t])]
    <3>1. CASE Unused(mine[t].st[i[t] + 1])
      BY <1>2, <3>1
    <3>2. CASE ~ Unused(mine[t].st[i[t] + 1])
      <4>1. mine' = [mine EXCEPT ![t] = mine[t]]
        BY <1>2, <3>2
      <4> QED
        BY <4>1 DEF TypeOK
    <3> QED
      BY <3>1, <3>2
  <2>7. /\ mine' \in [Threads -> WorldType] /\ Rotating(cwp[t], mine'[t], i[t] + 1)
        /\ \A u \in Threads \ {t} : mine'[u] = mine[u]
    BY <2>4, <2>5, <2>6 DEF TypeOK
  <2>8. TypeOK'
    BY <1>2, <2>1, <2>7 DEF TypeOK
  <2>9. CallIsConsistent(t)'
    BY <1>0, <1>2, <2>1, <2>2, <2>7 DEF CallIsConsistent
  <2>10. CallsAreConsistent'
    BY <1>2, <2>1, <2>7, <2>9, OthersAreConsistent
  <2> QED
    BY <1>2, <2>8, <2>10 DEF WorldIsWellFormed
<1>3. CASE Reorganize(t)
  <2> USE DEF Reorganize
  <2>1. CASE Busy(t)
    <3>1. /\ pc' \in [Threads -> Pcs] /\ kind' \in [Threads -> Kinds]
          /\ pool' \subseteq Storages /\ own' \in [Threads -> Storages \cup {None}]
          /\ mine' \in [Threads -> WorldType] /\ i' \in [Threads -> Nat]
          /\ pc'[t] = "reload" /\ i'[t] = 0
      BY <2>1, BusyType
    <3>2. bits' \in [Storages -> SUBSET Indices]
      <4>1. bits' = bits
        <5>1. pc'[t] # "cas"
          BY <3>1
        <5>2. ~ RaiseTimestamp(t, mine[t], bits)
          BY <5>1 DEF RaiseTimestamp, Goto, TypeOK
        <5> QED
          BY <1>3, <5>2
      <4> QED
        BY <4>1 DEF TypeOK
    <3>3. TypeOK'
      BY <1>3, <3>1, <3>2 DEF TypeOK
    <3>4. CallIsConsistent(t)'
      BY <3>1 DEF CallIsConsistent
    <3>5. CallsAreConsistent'
      BY <1>3, <2>1, <3>4, OthersAreConsistent DEF Busy, Goto
    <3> QED
      BY <1>3, <3>3, <3>5 DEF WorldIsWellFormed
  <2>2. CASE ~ Busy(t)
    <3>1. /\ RaiseTimestamp(t, mine[t], bits) /\ i' = [i EXCEPT ![t] = 0] /\ Fits(mine[t])
          /\ pool' = pool /\ kind' = kind /\ own' = own
          /\ Rotating(cwp[t], mine[t], i[t]) /\ WellFormed(cwp[t])
          /\ i[t] * N <= cwp[t].ts - cwp[t].off
          /\ bits \in [Storages -> SUBSET Indices]
      BY <1>0, <1>3, <2>2 DEF TypeOK
    <3>2. /\ mine[t].size # 0 /\ Len(mine[t].st) <= mine[t].size
          /\ mine[t].off % N = 0
      BY <3>1 DEF Rotating, WellFormed
    <3>3. mine[t].off <= mine[t].ts
      <4>1. /\ cwp[t].off \in Nat /\ cwp[t].ts \in 0 .. MaxTimestamp
            /\ mine[t].off \in Nat
        BY <1>0, Fields
      <4>2. i[t] * N \in Nat /\ cwp[t].ts \in Int
        BY <1>0, <4>1, NextStorage, StorageAssumption
      <4> QED
        BY <3>1, <4>1, <4>2 DEF Rotating
    <3>4. /\ pc' \in [Threads -> Pcs] /\ mine' \in [Threads -> WorldType]
          /\ bits' \in [Storages -> SUBSET Indices]
          /\ pc'[t] = "cas" /\ WellFormed(mine'[t])
      BY <1>0, <3>1, <3>2, <3>3, RaiseType
    <3>5. i' \in [Threads -> Nat] /\ i'[t] = 0
      <4>1. i' \in [Threads -> Nat]
        BY <3>1, ForgottenType
      <4> QED
        BY <3>1, <4>1 DEF TypeOK
    <3>6. TypeOK'
      BY <1>3, <3>1, <3>4, <3>5 DEF TypeOK
    <3>7. CallIsConsistent(t)'
      BY <1>3, <3>1, <3>4, <3>5 DEF CallIsConsistent
    <3>8. CallsAreConsistent'
      BY <1>3, <3>1, <3>7, OthersAreConsistent DEF RaiseTimestamp, Goto
    <3> QED
      BY <1>3, <3>6, <3>8 DEF WorldIsWellFormed
  <2> QED
    BY <2>1, <2>2
<1>4. CASE Grow(t)
  <2> USE DEF Grow
  <2>1. CASE wp.size >= mine[t].size
    <3>1. Busy(t) /\ UNCHANGED <<cwp, cfresh>>
      BY <1>4, <2>1
    <3>2. /\ pc' \in [Threads -> Pcs] /\ kind' \in [Threads -> Kinds]
          /\ pool' \subseteq Storages /\ own' \in [Threads -> Storages \cup {None}]
          /\ mine' \in [Threads -> WorldType] /\ i' \in [Threads -> Nat]
          /\ pc'[t] = "reload" /\ i'[t] = 0
      BY <3>1, BusyType
    <3>3. TypeOK'
      BY <1>4, <3>1, <3>2 DEF TypeOK
    <3>4. CallIsConsistent(t)'
      BY <3>2 DEF CallIsConsistent
    <3>5. CallsAreConsistent'
      BY <1>4, <3>1, <3>4, OthersAreConsistent DEF Busy, Goto
    <3> QED
      BY <1>4, <3>3, <3>5 DEF WorldIsWellFormed
  <2>2. CASE ~ (wp.size >= mine[t].size)
    <3> USE DEF ReadCwp, Goto
    <3>1. /\ cwp' = [cwp EXCEPT ![t] = wp] /\ pc' = [pc EXCEPT ![t] = "try"]
          /\ cfresh' = cfresh \cup {t}
          /\ UNCHANGED <<pool, kind, mine, own, i>>
      BY <1>4, <2>2
    <3>2. /\ cwp' \in [Threads -> WorldType] /\ cwp'[t] = wp
          /\ pc' \in [Threads -> Pcs] /\ pc'[t] = "try" /\ cfresh' \subseteq Threads
      BY <1>0, <3>1 DEF TypeOK, Pcs, FreePcs
    <3>3. mine[t].size > wp.size
      BY <1>0, <2>2, Fields
    <3>4. TypeOK'
      BY <1>4, <3>1, <3>2 DEF TypeOK
    <3>5. i[t] = 0
      BY <1>4 DEF CallsAreConsistent, CallIsConsistent
    <3>6. CallIsConsistent(t)'
      BY <1>0, <3>1, <3>2, <3>3, <3>5 DEF CallIsConsistent
    <3>7. CallsAreConsistent'
      BY <1>4, <3>1, <3>6, OthersAreConsistent
    <3> QED
      BY <1>4, <3>4, <3>7 DEF WorldIsWellFormed
  <2> QED
    BY <2>1, <2>2
<1> QED
  BY <1>1, <1>2, <1>3, <1>4

\* The compare-and-swap.
LEMMA SwapIInv ==
  ASSUME IInv, NEW t \in Threads, FreeSwap(t) \/ FreeSwapFail(t)
  PROVE  IInv'
<1> USE DEF IInv, calls, Goto
<1>0. /\ wp \in WorldType /\ WellFormed(wp) /\ mine[t] \in WorldType
      /\ pc[t] = "cas" /\ WellFormed(mine[t]) /\ WellFormed(cwp[t]) /\ i[t] = 0
  BY DEF TypeOK, WorldIsWellFormed, CallsAreConsistent, CallIsConsistent, FreeSwap, FreeSwapFail
<1>1. CASE FreeSwap(t)
  <2> USE DEF FreeSwap, Install
  <2>1. /\ cwp' = [cwp EXCEPT ![t] = mine[t]] /\ own' = [own EXCEPT ![t] = None]
        /\ pc' = [pc EXCEPT ![t] = "retain"] /\ wp' = mine[t]
        /\ ofresh' = {} /\ cfresh' = {t}
    BY <1>1
  <2>2. /\ cwp' \in [Threads -> WorldType] /\ cwp'[t] = mine[t]
        /\ own' \in [Threads -> Storages \cup {None}]
        /\ pc' \in [Threads -> Pcs] /\ pc'[t] = "retain"
    BY <1>0, <2>1 DEF TypeOK, Pcs, FreePcs
  <2>3. TypeOK'
    BY <1>0, <1>1, <2>1, <2>2 DEF TypeOK
  <2>4. CallIsConsistent(t)'
    BY <1>0, <1>1, <2>2 DEF CallIsConsistent
  <2>5. CallsAreConsistent'
    BY <1>1, <2>4, OthersAreConsistent
  <2> QED
    BY <1>0, <2>1, <2>3, <2>5 DEF WorldIsWellFormed
<1>2. CASE FreeSwapFail(t)
  <2> USE DEF FreeSwapFail, ReadCwp
  <2>1. CASE kind[t] = "grow"
    <3>1. pc' = [pc EXCEPT ![t] = "grow"] /\ UNCHANGED <<cwp, cfresh, pool, own>>
      BY <1>2, <2>1
    <3>2. pc' \in [Threads -> Pcs] /\ pc'[t] = "grow"
      BY <3>1 DEF TypeOK, Pcs, FreePcs
    <3>3. TypeOK'
      BY <1>2, <3>1, <3>2 DEF TypeOK
    <3>4. CallIsConsistent(t)'
      BY <1>0, <1>2, <3>2 DEF CallIsConsistent
    <3>5. CallsAreConsistent'
      BY <1>2, <3>1, <3>4, OthersAreConsistent
    <3> QED
      BY <1>2, <3>3, <3>5 DEF WorldIsWellFormed
  <2>2. CASE kind[t] # "grow"
    <3>1. /\ pc' = [pc EXCEPT ![t] = "try"] /\ cwp' = [cwp EXCEPT ![t] = wp]
          /\ cfresh' = cfresh \cup {t}
      BY <1>2, <2>2
    <3>2. /\ pc' \in [Threads -> Pcs] /\ pc'[t] = "try"
          /\ cwp' \in [Threads -> WorldType] /\ cwp'[t] = wp /\ cfresh' \subseteq Threads
      BY <1>0, <3>1 DEF TypeOK, Pcs, FreePcs
    <3>3. pool' \subseteq Storages /\ own' \in [Threads -> Storages \cup {None}]
      BY <1>2, <2>2, DiscardType DEF TypeOK
    <3>4. TypeOK'
      BY <1>2, <3>1, <3>2, <3>3 DEF TypeOK
    <3>5. CallIsConsistent(t)'
      BY <1>0, <1>2, <2>2, <3>2 DEF CallIsConsistent
    <3>6. CallsAreConsistent'
      BY <1>2, <3>1, <3>5, OthersAreConsistent
    <3> QED
      BY <1>2, <3>4, <3>6 DEF WorldIsWellFormed
  <2> QED
    BY <2>1, <2>2
<1> QED
  BY <1>1, <1>2

LEMMA NextIInv == IInv /\ [Next]_vars => IInv'
<1> SUFFICES ASSUME IInv, [Next]_vars PROVE IInv'
  OBVIOUS
<1>1. CASE Next
  <2>1. PICK t \in Threads : RegisterStep(t) \/ FreeStep(t) \/ CheckinStep(t) \/ UnregisterStep(t)
    BY <1>1 DEF Next
  <2>2. CASE FreeStep(t)
    BY <2>2, ReadIInv, TryIInv, ScanIInv, SwapIInv DEF FreeStep
  <2> QED
    BY <2>1, <2>2, RegisterIInv, CheckinIInv, UnregisterIInv
<1>2. CASE UNCHANGED vars
  BY <1>2 DEF IInv, vars, shared, TypeOK, WorldIsWellFormed, CallsAreConsistent,
              CallIsConsistent
<1> QED
  BY <1>1, <1>2

LEMMA AlwaysIInv == Spec => []IInv
<1>1. Init => IInv
  BY InitIInv
<1>2. IInv /\ [Next]_vars => IInv'
  BY NextIInv
<1> QED
  BY <1>1, <1>2, PTL DEF Spec

-----------------------------------------------------------------------------

\* Every variable keeps its type: in particular what free, checkin, register
\* and unregister install is a world again, and a storage they take or give
\* back one of the allocator's.
THEOREM TypeCorrect == Spec => []TypeOK
<1>1. IInv => TypeOK
  BY DEF IInv
<1> QED
  BY <1>1, AlwaysIInv, PTL

\* The timestamp of the current world always has its entry: whatever threads
\* add storages, rotate them and grow the world at the same time, no world is
\* installed that is too small for its timestamp
\* (_mulle_aba_world_assert_sanity).
THEOREM TimestampAlwaysFits == Spec => []CurrentTimestampFits
<1>1. IInv => CurrentTimestampFits
  <2> SUFFICES ASSUME IInv PROVE CurrentTimestampFits
    OBVIOUS
  <2>1. wp \in WorldType /\ WellFormed(wp)
    BY DEF IInv, TypeOK, WorldIsWellFormed
  <2>2. wp.ts # 0 => HasEntry(wp, wp.ts)
    <3> SUFFICES ASSUME wp.ts # 0 PROVE HasEntry(wp, wp.ts)
      OBVIOUS
    <3>1. wp.off <= wp.ts /\ wp.ts - wp.off < Len(wp.st) * N
      BY <2>1 DEF WellFormed
    <3>2. wp.off \in Nat /\ wp.ts \in Nat /\ Len(wp.st) \in Nat
      BY <2>1, Fields, StorageAssumption
    <3>3. wp.ts - wp.off \in Nat
      BY <3>1, <3>2
    <3>4. (wp.ts - wp.off) \div N < Len(wp.st)
      BY <3>1, <3>2, <3>3, StorageExists
    <3> QED
      BY <3>1, <3>4 DEF HasEntry, StorageIndex
  <2> QED
    BY <2>1, <2>2 DEF CurrentTimestampFits, WellFormed
<1> QED
  BY <1>1, AlwaysIInv, PTL

\* A storage that is added to a world, or to a world that was grown by one,
\* always has room for the next timestamp, so that the callback never leaves
\* a storage it allocated dangling (the size check of
\* add_storage_and_increment_timestamp never fails).
THEOREM AddedStorageFits == Spec => []NewStorageSuffices
<1>1. IInv => NewStorageSuffices
  <2> SUFFICES ASSUME IInv, NEW t \in Threads, pc[t] = "try"
               PROVE  Fits(Pushed(Copy(t), None))
    BY DEF NewStorageSuffices
  <2>1. Copy(t) \in WorldType /\ WellFormed(Copy(t))
    BY CopyWellFormed
  <2> QED
    BY <2>1, PushedFits
<1> QED
  BY <1>1, AlwaysIInv, PTL

-----------------------------------------------------------------------------
(* Who owns a storage.                                                     *)

\* Every storage occurs once.
Distinct(st) == \A k, l \in DOMAIN st : st[k] = st[l] => k = l

SameStorages(world, copy) ==
    /\ StoragesOf(copy) = StoragesOf(world)
    /\ Distinct(world.st) => Distinct(copy.st)

Disjoint ==
    /\ Distinct(wp.st)
    /\ pool \cap StoragesOf(wp) = {}
    /\ \A t \in Threads :
          /\ Private(t) \cap (pool \cup StoragesOf(wp)) = {}
          /\ \A u \in Threads \ {t} : Private(t) \cap Private(u) = {}

Complete ==
    \A s \in Storages :
        s \in pool \/ s \in StoragesOf(wp) \/ \E t \in Threads : s \in Private(t)

\* What a thread holds, and what its copy of a world is made of: the storages
\* of the world it was copied from, and the one that the thread allocated.
CopyIsOwned(t) ==
    /\ own[t] # None => kind[t] \in {"add", "grow"} /\ pc[t] \in {"try", "cas", "grow"}
    /\ pc[t] = "cas" =>
          \/ /\ own[t] = None
             /\ SameStorages(cwp[t], mine[t])
          \/ /\ own[t] # None
             /\ mine[t].st = Append(cwp[t].st, own[t])
    /\ pc[t] = "scan" /\ kind[t] = "reorganize" => SameStorages(cwp[t], mine[t])

CopiesAreOwned == \A t \in Threads : CopyIsOwned(t)

OInv == IInv /\ Disjoint /\ Complete /\ CopiesAreOwned

-----------------------------------------------------------------------------
(* Sequences of storages.                                                  *)

LEMMA StoragesType ==
  ASSUME NEW world \in WorldType
  PROVE  StoragesOf(world) \subseteq Storages
<1>1. world.st \in Seq(Storages)
  BY Fields
<1> QED
  BY <1>1 DEF StoragesOf

LEMMA SameStoragesReflexive ==
  ASSUME NEW world, NEW copy, copy.st = world.st
  PROVE  SameStorages(world, copy)
BY DEF SameStorages, StoragesOf

LEMMA AppendedStorages ==
  ASSUME NEW world \in WorldType, NEW copy \in WorldType, NEW s \in Storages,
         copy.st = Append(world.st, s)
  PROVE  /\ StoragesOf(copy) = StoragesOf(world) \cup {s}
         /\ Distinct(world.st) /\ s \notin StoragesOf(world) => Distinct(copy.st)
<1> DEFINE st == world.st
           n == Len(world.st)
<1>1. st \in Seq(Storages) /\ n \in Nat /\ DOMAIN st = 1 .. n
  BY Fields
<1>2. /\ DOMAIN copy.st = 1 .. n + 1
      /\ \A k \in 1 .. n : copy.st[k] = st[k]
      /\ copy.st[n + 1] = s
  BY <1>1
<1> HIDE DEF n
<1>3. StoragesOf(copy) = StoragesOf(world) \cup {s}
  <2>1. ASSUME NEW x PROVE x \in StoragesOf(copy) <=> x \in StoragesOf(world) \cup {s}
    <3>1. x \in StoragesOf(copy) <=> \E k \in 1 .. n + 1 : copy.st[k] = x
      BY <1>2 DEF StoragesOf
    <3>2. x \in StoragesOf(world) <=> \E k \in 1 .. n : st[k] = x
      BY <1>1 DEF StoragesOf
    <3>3. \A k : k \in 1 .. n + 1 <=> k \in 1 .. n \/ k = n + 1
      BY <1>1
    <3> QED
      BY <1>2, <3>1, <3>2, <3>3
  <2> QED
    BY <2>1
<1>4. ASSUME Distinct(st), s \notin StoragesOf(world) PROVE Distinct(copy.st)
  <2>1. \A k \in 1 .. n : st[k] # s
    BY <1>1, <1>4 DEF StoragesOf
  <2>2. \A k \in 1 .. n + 1 : k \in 1 .. n \/ k = n + 1
    BY <1>1
  <2> QED
    BY <1>1, <1>2, <1>4, <2>1, <2>2 DEF Distinct
<1> QED
  BY <1>3, <1>4

LEMMA RotatedStorages ==
  ASSUME NEW world \in WorldType, Len(world.st) > 0
  PROVE  SameStorages(world, Rotated(world))
<1> DEFINE st == world.st
           n == Len(world.st)
           rot == Rotated(world).st
<1>1. st \in Seq(Storages) /\ n \in Nat /\ n > 0 /\ DOMAIN st = 1 .. n
  BY Fields
<1>2. rot = Append(Tail(st), Head(st))
  BY DEF Rotated, WorldType
<1>3. /\ DOMAIN rot = 1 .. n
      /\ \A k \in 1 .. n - 1 : rot[k] = st[k + 1]
      /\ rot[n] = st[1]
  <2>1. Tail(st) \in Seq(Storages) /\ Len(Tail(st)) = n - 1 /\ Head(st) = st[1]
    BY <1>1
  <2>2. \A k \in 1 .. n - 1 : Tail(st)[k] = st[k + 1]
    BY <1>1
  <2> QED
    BY <1>1, <1>2, <2>1, <2>2
<1> HIDE DEF n, rot
<1>4. StoragesOf(Rotated(world)) = StoragesOf(world)
  <2>1. ASSUME NEW x PROVE x \in StoragesOf(Rotated(world)) <=> x \in StoragesOf(world)
    <3>1. x \in StoragesOf(Rotated(world)) <=> \E k \in 1 .. n : rot[k] = x
      BY <1>3 DEF StoragesOf, rot
    <3>2. x \in StoragesOf(world) <=> \E k \in 1 .. n : st[k] = x
      BY <1>1 DEF StoragesOf
    <3>3. ASSUME NEW k \in 1 .. n PROVE \E l \in 1 .. n : st[l] = rot[k]
      <4>1. CASE k = n
        BY <1>1, <1>3, <4>1
      <4>2. CASE k # n
        <5>1. k \in 1 .. n - 1 /\ k + 1 \in 1 .. n
          BY <1>1, <4>2
        <5> QED
          BY <1>3, <5>1
      <4> QED
        BY <4>1, <4>2
    <3>4. ASSUME NEW k \in 1 .. n PROVE \E l \in 1 .. n : rot[l] = st[k]
      <4>1. CASE k = 1
        BY <1>1, <1>3, <4>1
      <4>2. CASE k # 1
        <5>1. k - 1 \in 1 .. n - 1 /\ k - 1 \in 1 .. n /\ (k - 1) + 1 = k
          BY <1>1, <4>2
        <5>2. rot[k - 1] = st[k]
          BY <1>3, <5>1
        <5> QED
          BY <5>1, <5>2
      <4> QED
        BY <4>1, <4>2
    <3> QED
      BY <3>1, <3>2, <3>3, <3>4
  <2> QED
    BY <2>1
<1>5. ASSUME Distinct(st) PROVE Distinct(rot)
  <2> SUFFICES ASSUME NEW k \in 1 .. n, NEW l \in 1 .. n, rot[k] = rot[l]
               PROVE  k = l
    BY <1>3 DEF Distinct
  <2>1. ASSUME NEW j \in 1 .. n
        PROVE  \/ j = n /\ rot[j] = st[1]
               \/ j # n /\ j + 1 \in 1 .. n /\ j + 1 # 1 /\ rot[j] = st[j + 1]
    <3>1. CASE j = n
      BY <1>3, <3>1
    <3>2. CASE j # n
      <4>1. j \in 1 .. n - 1 /\ j + 1 \in 1 .. n /\ j + 1 # 1
        BY <1>1, <3>2
      <4> QED
        BY <1>3, <3>2, <4>1
    <3> QED
      BY <3>1, <3>2
  <2>2. \A a, b \in 1 .. n : st[a] = st[b] => a = b
    BY <1>1, <1>5 DEF Distinct
  <2>3. 1 \in 1 .. n
    BY <1>1
  <2>4. CASE k = n /\ l = n
    BY <2>4
  <2>5. CASE k = n /\ l # n
    BY <2>1, <2>2, <2>3, <2>5
  <2>6. CASE k # n /\ l = n
    BY <2>1, <2>2, <2>3, <2>6
  <2>7. CASE k # n /\ l # n
    <3>1. k + 1 = l + 1
      BY <2>1, <2>2, <2>7
    <3> QED
      BY <3>1
  <2> QED
    BY <2>4, <2>5, <2>6, <2>7
<1> QED
  BY <1>4, <1>5 DEF SameStorages, rot

LEMMA SameStoragesTransitive ==
  ASSUME NEW world, NEW copy, NEW third,
         SameStorages(world, copy), SameStorages(copy, third)
  PROVE  SameStorages(world, third)
BY DEF SameStorages

\* A world in which every storage occurs once has as many as its length.
LEMMA DistinctCardinality ==
  ASSUME NEW world \in WorldType, Distinct(world.st)
  PROVE  Cardinality(StoragesOf(world)) = Len(world.st)
<1> DEFINE st == world.st
           n == Len(world.st)
<1>1. st \in Seq(Storages) /\ n \in Nat /\ DOMAIN st = 1 .. n /\ st \in [1 .. n -> Storages]
  BY Fields
<1>2. StoragesOf(world) = {st[k] : k \in 1 .. n}
  BY <1>1 DEF StoragesOf
<1> HIDE DEF n
<1>3. st \in [1 .. n -> StoragesOf(world)]
  BY <1>1, <1>2
<1>4. st \in Surjection(1 .. n, StoragesOf(world))
  BY <1>2, <1>3 DEF Surjection
<1>5. st \in Injection(1 .. n, StoragesOf(world))
  BY <1>1, <1>3 DEF Injection, IsInjective, Distinct
<1>6. ExistsBijection(1 .. n, StoragesOf(world))
  BY <1>4, <1>5 DEF Bijection, ExistsBijection
<1>7. IsFiniteSet(1 .. n) /\ Cardinality(1 .. n) = n
  <2>1. Cardinality(1 .. n) = IF 1 > n THEN 0 ELSE n - 1 + 1
    BY <1>1, FS_Interval
  <2>2. IsFiniteSet(1 .. n)
    BY <1>1, FS_Interval
  <2> QED
    BY <1>1, <2>1, <2>2
<1> QED
  BY <1>6, <1>7, FS_Bijection DEF n

-----------------------------------------------------------------------------
(* The ways in which storages change hands.                                *)

\* Nothing that is said of the storages changes for thread u.
SamePrivate(u) ==
    /\ own'[u] = own[u]
    /\ pc'[u] = "wipe" <=> pc[u] = "wipe"
    /\ pc[u] = "wipe" => owp'[u] = owp[u]

LEMMA PrivateUnchanged ==
  ASSUME NEW u \in Threads, SamePrivate(u)
  PROVE  Private(u)' = Private(u)
BY DEF SamePrivate, Private, StoragesOf

\* Not at all: what most steps do.
LEMMA NobodyTakes ==
  ASSUME Disjoint, Complete, wp'.st = wp.st, pool' = pool,
         \A u \in Threads : SamePrivate(u)
  PROVE  Disjoint' /\ Complete'
<1>1. StoragesOf(wp)' = StoragesOf(wp) /\ (Distinct(wp.st))' = Distinct(wp.st)
  BY DEF StoragesOf, Distinct
<1>2. \A u \in Threads : Private(u)' = Private(u)
  BY PrivateUnchanged
<1> QED
  BY <1>1, <1>2 DEF Disjoint, Complete

\* A storage that was allocated for a copy is freed.
LEMMA ThreadDiscards ==
  ASSUME Disjoint, Complete, wp'.st = wp.st,
         NEW t \in Threads, Discard(t), own \in [Threads -> Storages \cup {None}],
         pc[t] # "wipe", pc'[t] # "wipe",
         \A u \in Threads \ {t} : SamePrivate(u)
  PROVE  Disjoint' /\ Complete'
<1>1. StoragesOf(wp)' = StoragesOf(wp) /\ (Distinct(wp.st))' = Distinct(wp.st)
  BY DEF StoragesOf, Distinct
<1>2. \A u \in Threads \ {t} : Private(u)' = Private(u)
  BY PrivateUnchanged
<1>3. Private(t) = {own[t]} \ {None} /\ Private(t)' = {}
  BY DEF Private, Discard
<1>4. pool' = pool \cup Private(t)
  BY <1>3 DEF Discard, Discarded
<1> QED
  BY <1>1, <1>2, <1>3, <1>4 DEF Disjoint, Complete

\* A storage is allocated for a copy.
LEMMA ThreadAllocates ==
  ASSUME Disjoint, Complete, wp'.st = wp.st,
         NEW t \in Threads, NEW s \in pool, s # None, own[t] = None,
         own \in [Threads -> Storages \cup {None}],
         own' = [own EXCEPT ![t] = s], pool' = pool \ {s},
         pc[t] # "wipe", pc'[t] # "wipe",
         \A u \in Threads \ {t} : SamePrivate(u)
  PROVE  Disjoint' /\ Complete'
<1>1. StoragesOf(wp)' = StoragesOf(wp) /\ (Distinct(wp.st))' = Distinct(wp.st)
  BY DEF StoragesOf, Distinct
<1>2. \A u \in Threads \ {t} : Private(u)' = Private(u)
  BY PrivateUnchanged
<1>3. Private(t) = {} /\ Private(t)' = {s}
  BY DEF Private
<1> QED
  BY <1>1, <1>2, <1>3 DEF Disjoint, Complete

\* The storage of a copy gets into the world together with the copy.
LEMMA ThreadInstalls ==
  ASSUME Disjoint, Complete, Distinct(wp'.st),
         NEW t \in Threads, StoragesOf(wp') = StoragesOf(wp) \cup ({own[t]} \ {None}),
         own \in [Threads -> Storages \cup {None}],
         own' = [own EXCEPT ![t] = None], pool' = pool,
         pc[t] # "wipe", pc'[t] # "wipe",
         \A u \in Threads \ {t} : SamePrivate(u)
  PROVE  Disjoint' /\ Complete'
<1>1. \A u \in Threads \ {t} : Private(u)' = Private(u)
  BY PrivateUnchanged
<1>2. Private(t) = {own[t]} \ {None} /\ Private(t)' = {}
  BY DEF Private
<1>3. StoragesOf(wp)' = StoragesOf(wp) \cup Private(t) /\ (Distinct(wp.st))'
  BY <1>2
<1> QED
  BY <1>1, <1>2, <1>3 DEF Disjoint, Complete

\* The last thread takes the storages of the world that it leaves ...
LEMMA ThreadInherits ==
  ASSUME Disjoint, Complete, wp'.st = <<>>,
         NEW t \in Threads, own' = own, own[t] = None, pool' = pool, owp' = owp, owp[t] = wp,
         pc[t] # "wipe", pc'[t] = "wipe",
         \A u \in Threads \ {t} : SamePrivate(u)
  PROVE  Disjoint' /\ Complete'
<1>1. \A u \in Threads \ {t} : Private(u)' = Private(u)
  BY PrivateUnchanged
<1>2. Private(t) = {} /\ Private(t)' = StoragesOf(wp)
  BY DEF Private, StoragesOf
<1>3. StoragesOf(wp)' = {} /\ (Distinct(wp.st))'
  BY DEF StoragesOf, Distinct
<1> QED
  BY <1>1, <1>2, <1>3 DEF Disjoint, Complete

\* ... and frees them.
LEMMA ThreadFrees ==
  ASSUME Disjoint, Complete, wp'.st = wp.st,
         NEW t \in Threads, own' = own, own[t] = None, pool' = pool \cup StoragesOf(owp[t]),
         pc[t] = "wipe", pc'[t] # "wipe",
         \A u \in Threads \ {t} : SamePrivate(u)
  PROVE  Disjoint' /\ Complete'
<1>1. StoragesOf(wp)' = StoragesOf(wp) /\ (Distinct(wp.st))' = Distinct(wp.st)
  BY DEF StoragesOf, Distinct
<1>2. \A u \in Threads \ {t} : Private(u)' = Private(u)
  BY PrivateUnchanged
<1>3. Private(t) = StoragesOf(owp[t]) /\ Private(t)' = {}
  BY DEF Private
<1> QED
  BY <1>1, <1>2, <1>3 DEF Disjoint, Complete

\* A step of thread t leaves the copies of the others alone.
LEMMA OthersAreOwned ==
  ASSUME CopiesAreOwned, NEW t \in Threads, CopyIsOwned(t)',
         \A u \in Threads \ {t} :
            /\ pc'[u] = pc[u] /\ kind'[u] = kind[u] /\ own'[u] = own[u]
            /\ cwp'[u] = cwp[u] /\ mine'[u] = mine[u]
  PROVE  CopiesAreOwned'
<1> SUFFICES ASSUME NEW u \in Threads \ {t} PROVE CopyIsOwned(u)'
  BY DEF CopiesAreOwned
<1>1. CopyIsOwned(u)
  BY DEF CopiesAreOwned
<1>2. ASSUME SameStorages(cwp[u], mine[u]) PROVE SameStorages(cwp[u], mine[u])'
  BY <1>2 DEF SameStorages, StoragesOf, Distinct
<1> QED
  BY <1>1, <1>2 DEF CopyIsOwned

\* While a thread holds no storage and has no copy, nothing is said of it.
LEMMA HoldsNothing ==
  ASSUME NEW t \in Threads, own'[t] = None, pc'[t] \notin {"cas", "scan"}
  PROVE  CopyIsOwned(t)'
BY DEF CopyIsOwned

LEMMA InitOwned == Init => Disjoint /\ Complete /\ CopiesAreOwned
<1> SUFFICES ASSUME Init PROVE Disjoint /\ Complete /\ CopiesAreOwned
  OBVIOUS
<1>1. wp.st = <<>>
  BY DEF Init, NoWorld
<1>2. StoragesOf(wp) = {} /\ Distinct(wp.st)
  BY <1>1 DEF StoragesOf, Distinct
<1>3. \A t \in Threads : Private(t) = {}
  BY DEF Init, Private
<1>4. Disjoint /\ Complete
  BY <1>2, <1>3 DEF Init, Disjoint, Complete
<1>5. CopiesAreOwned
  BY DEF Init, CopiesAreOwned, CopyIsOwned
<1> QED
  BY <1>4, <1>5

-----------------------------------------------------------------------------
(* The steps.                                                              *)

Owned == Disjoint /\ Complete /\ CopiesAreOwned

\* What register, checkin and most of unregister do: a thread that is not
\* freeing does not touch a storage.
LEMMA OutsideFree ==
  ASSUME OInv, NEW t \in Threads, NEW label \in Pcs,
         pc' = [pc EXCEPT ![t] = label],
         pc[t] \notin {"try", "cas", "grow", "wipe"}, label \notin {"cas", "scan", "wipe"},
         UNCHANGED <<pool, freeing>>, wp'.st = wp.st,
         \A u \in Threads \ {t} : owp'[u] = owp[u]
  PROVE  Owned'
<1> USE DEF freeing
<1>1. pc \in [Threads -> Pcs] /\ CopyIsOwned(t)
  BY DEF OInv, IInv, TypeOK, CopiesAreOwned
<1>2. pc'[t] = label /\ \A u \in Threads \ {t} : pc'[u] = pc[u]
  BY <1>1
<1>3. own'[t] = None
  BY <1>1 DEF CopyIsOwned
<1>4. CopiesAreOwned'
  BY <1>2, <1>3, HoldsNothing, OthersAreOwned DEF OInv
<1>5. \A u \in Threads : SamePrivate(u)
  BY <1>2 DEF SamePrivate
<1> QED
  BY <1>4, <1>5, NobodyTakes DEF OInv, Owned

LEMMA RegisterOwned ==
  ASSUME OInv, NEW t \in Threads, RegisterStep(t) PROVE Owned'
<1>0. wp \in WorldType /\ owp \in [Threads -> WorldType]
  BY DEF OInv, IInv, TypeOK
<1> USE DEF Goto
<1>1. CASE RegisterLock(t)
  <2>1. wp'.st = wp.st /\ \A u \in Threads \ {t} : owp'[u] = owp[u]
    BY <1>0, <1>1 DEF RegisterLock, WorldType
  <2> QED
    BY <1>1, <2>1, OutsideFree DEF RegisterLock, Pcs
<1>2. CASE RegisterSwap(t)
  <2>1. wp'.st = wp.st /\ \A u \in Threads \ {t} : owp'[u] = owp[u]
    BY <1>0, <1>2 DEF RegisterSwap, Install, WorldType
  <2>2. PICK label \in {"drop", "lock"} : pc' = [pc EXCEPT ![t] = label]
    BY <1>2 DEF RegisterSwap
  <2>3. label \in Pcs
    BY DEF Pcs, FreePcs
  <2> QED
    BY <1>2, <2>1, <2>2, <2>3, OutsideFree DEF RegisterSwap
<1> QED
  BY <1>1, <1>2 DEF RegisterStep

LEMMA CheckinOwned ==
  ASSUME OInv, NEW t \in Threads, CheckinStep(t) PROVE Owned'
<1>0. wp \in WorldType /\ owp \in [Threads -> WorldType] /\ pc \in [Threads -> Pcs]
  BY DEF OInv, IInv, TypeOK
<1> USE DEF Goto, shared
<1> DEFINE Labels == {"copy", "range", "bit", "drop", "dec", "snip", "clear", "idle", "ulock"}
<1>1. wp'.st = wp.st
  BY <1>0 DEF CheckinStep, Checkin, CheckinBit, CheckinCopy, CheckinRange, CheckinDecrement,
              CheckinSnip, CheckinClear, CheckinDone, Install, WorldType
<1>2. \A u \in Threads \ {t} : owp'[u] = owp[u]
  <2>1. CASE Checkin(t)
    BY <1>0, <2>1 DEF Checkin, BeginCheckin
  <2>2. CASE CheckinRange(t)
    BY <1>0, <2>2 DEF CheckinRange
  <2>3. CASE CheckinBit(t) \/ CheckinCopy(t) \/ CheckinDone(t)
    BY <1>0, <2>3 DEF CheckinBit, CheckinCopy, CheckinDone
  <2>4. CASE CheckinDecrement(t) \/ CheckinSnip(t) \/ CheckinClear(t)
    BY <2>4 DEF CheckinDecrement, CheckinSnip, CheckinClear, calls
  <2> QED
    BY <2>1, <2>2, <2>3, <2>4 DEF CheckinStep
<1>3. \E label \in Labels : pc' = [pc EXCEPT ![t] = label]
  <2>1. CASE CheckinDecrement(t)
    <3>1. pc' = [pc EXCEPT ![t] = "snip"] \/ pc' = pc
      BY <2>1 DEF CheckinDecrement
    <3>2. pc' = pc => pc' = [pc EXCEPT ![t] = "dec"]
      BY <1>0, <2>1 DEF CheckinDecrement
    <3> QED
      BY <3>1, <3>2
  <2>2. CASE ~ CheckinDecrement(t)
    BY <2>2 DEF CheckinStep, Checkin, BeginCheckin, CheckinBit, CheckinCopy, CheckinRange,
                CheckinSnip, CheckinClear, CheckinDone
  <2> QED
    BY <2>1, <2>2
<1>4. pc[t] \notin {"try", "cas", "grow", "wipe"}
  BY DEF CheckinStep, Checkin, CheckinBit, CheckinCopy, CheckinRange, CheckinDecrement,
         CheckinSnip, CheckinClear, CheckinDone
<1>5. UNCHANGED <<pool, freeing>>
  BY DEF CheckinStep, Checkin, CheckinBit, CheckinCopy, CheckinRange, CheckinDecrement,
         CheckinSnip, CheckinClear, CheckinDone
<1>6. PICK label \in Labels : pc' = [pc EXCEPT ![t] = label]
  BY <1>3
<1>7. label \in Pcs /\ label \notin {"cas", "scan", "wipe"}
  BY DEF Pcs, FreePcs, CheckinPcs
<1> QED
  BY <1>1, <1>2, <1>4, <1>5, <1>6, <1>7, OutsideFree

\* The last thread takes over the storages of the world and frees them.
LEMMA UnregisterOwned ==
  ASSUME OInv, NEW t \in Threads, UnregisterStep(t) PROVE Owned'
<1> USE DEF Goto, shared, calls
<1>0. /\ wp \in WorldType /\ owp \in [Threads -> WorldType] /\ pc \in [Threads -> Pcs]
      /\ Disjoint /\ Complete /\ CopiesAreOwned /\ CopyIsOwned(t)
  BY DEF OInv, IInv, TypeOK, CopiesAreOwned
<1>a. /\ pc[t] \in {"idle", "ubegin", "ulock", "leave", "wipe"} /\ own[t] = None
      /\ UNCHANGED freeing
  BY <1>0 DEF CopyIsOwned, UnregisterStep, UnregisterBegin, UnregisterLock, UnregisterSwap,
              UnregisterFail, UnregisterWipe
<1>1. CASE UnregisterBegin(t)
  <2>1. wp'.st = wp.st /\ \A u \in Threads \ {t} : owp'[u] = owp[u]
    BY <1>0, <1>1 DEF UnregisterBegin, BeginCheckin
  <2>2. PICK label \in {"copy", "range", "bit", "ulock"} : pc' = [pc EXCEPT ![t] = label]
    BY <1>1 DEF UnregisterBegin, BeginCheckin
  <2>3. label \in Pcs
    BY DEF Pcs, CheckinPcs
  <2> QED
    BY <1>1, <1>a, <2>1, <2>2, <2>3, OutsideFree DEF UnregisterBegin
<1>2. CASE UnregisterLock(t)
  <2>1. wp'.st = wp.st /\ \A u \in Threads \ {t} : owp'[u] = owp[u]
    BY <1>0, <1>2 DEF UnregisterLock, Forget, WorldType
  <2>2. PICK label \in {"leave", "ubegin"} : pc' = [pc EXCEPT ![t] = label]
    BY <1>2 DEF UnregisterLock
  <2>3. label \in Pcs
    BY DEF Pcs
  <2> QED
    BY <1>2, <1>a, <2>1, <2>2, <2>3, OutsideFree DEF UnregisterLock
<1>3. CASE UnregisterFail(t)
  <2>1. wp'.st = wp.st /\ \A u \in Threads \ {t} : owp'[u] = owp[u]
    BY <1>0, <1>3 DEF UnregisterFail, Forget, WorldType
  <2>2. PICK label \in {"drop", "ubegin"} : pc' = [pc EXCEPT ![t] = label]
    BY <1>3 DEF UnregisterFail
  <2>3. label \in Pcs
    BY DEF Pcs, FreePcs
  <2> QED
    BY <1>3, <1>a, <2>1, <2>2, <2>3, OutsideFree DEF UnregisterFail
<1>4. CASE UnregisterSwap(t) /\ wp.nt > 1
  <2>1. wp'.st = wp.st /\ \A u \in Threads \ {t} : owp'[u] = owp[u]
    BY <1>0, <1>4 DEF UnregisterSwap, Install, WorldType
  <2>2. pc' = [pc EXCEPT ![t] = "idle"] /\ "idle" \in Pcs
    BY <1>4 DEF UnregisterSwap, Pcs
  <2> QED
    BY <1>4, <1>a, <2>1, <2>2, OutsideFree DEF UnregisterSwap
<1>5. CASE UnregisterSwap(t) /\ ~ (wp.nt > 1)
  <2>1. /\ wp' = [ResetWorld(wp) EXCEPT !.lock = 1] /\ pc[t] = "leave" /\ owp[t] = wp
        /\ pc' = [pc EXCEPT ![t] = "wipe"] /\ pool' = pool /\ owp' = owp
    BY <1>5 DEF UnregisterSwap, Install, MayLeave
  <2>2. wp'.st = <<>>
    BY <2>1 DEF ResetWorld, NoWorld
  <2>3. pc'[t] = "wipe" /\ \A u \in Threads \ {t} : pc'[u] = pc[u]
    BY <1>0, <2>1
  <2>4. \A u \in Threads \ {t} : SamePrivate(u)
    BY <1>a, <2>1, <2>3 DEF SamePrivate, freeing
  <2>5. Disjoint' /\ Complete'
    BY <1>0, <1>a, <2>1, <2>2, <2>3, <2>4, ThreadInherits DEF freeing
  <2>6. CopiesAreOwned'
    BY <1>0, <1>a, <2>3, HoldsNothing, OthersAreOwned DEF freeing
  <2> QED
    BY <2>5, <2>6 DEF Owned
<1>6. CASE UnregisterWipe(t)
  <2>1. /\ pc[t] = "wipe" /\ pool' = pool \cup StoragesOf(owp[t])
        /\ owp' = [owp EXCEPT ![t] = NoWorld]
        /\ pc' = [pc EXCEPT ![t] = "idle"] /\ wp'.st = wp.st
    BY <1>0, <1>6 DEF UnregisterWipe, Forget, WorldType
  <2>2. pc'[t] = "idle" /\ \A u \in Threads \ {t} : pc'[u] = pc[u] /\ owp'[u] = owp[u]
    BY <1>0, <2>1
  <2>3. \A u \in Threads \ {t} : SamePrivate(u)
    BY <1>a, <2>2 DEF SamePrivate, freeing
  <2>4. Disjoint' /\ Complete'
    BY <1>0, <1>a, <2>1, <2>2, <2>3, ThreadFrees DEF freeing
  <2>5. CopiesAreOwned'
    BY <1>0, <1>a, <2>2, HoldsNothing, OthersAreOwned DEF freeing
  <2> QED
    BY <2>4, <2>5 DEF Owned
<1> QED
  BY <1>1, <1>2, <1>3, <1>4, <1>5, <1>6 DEF UnregisterStep

\* A step of a free changes the locals of one thread.
Only(t) ==
    \A u \in Threads \ {t} :
        /\ pc'[u] = pc[u] /\ kind'[u] = kind[u] /\ own'[u] = own[u]
        /\ cwp'[u] = cwp[u] /\ mine'[u] = mine[u] /\ owp'[u] = owp[u]

\* No storage changes hands, ...
LEMMA FreeKeeps ==
  ASSUME OInv, NEW t \in Threads, Only(t), CopyIsOwned(t)',
         wp'.st = wp.st, pool' = pool, own'[t] = own[t],
         pc[t] # "wipe", pc'[t] # "wipe"
  PROVE  Owned'
<1>1. \A u \in Threads : SamePrivate(u)
  BY DEF Only, SamePrivate
<1>2. CopiesAreOwned'
  BY OthersAreOwned DEF OInv, Only
<1> QED
  BY <1>1, <1>2, NobodyTakes DEF OInv, Owned

\* ... or one is given back.
LEMMA FreeDiscards ==
  ASSUME OInv, NEW t \in Threads, Only(t), Discard(t), wp'.st = wp.st,
         pc[t] # "wipe", pc'[t] \notin {"wipe", "cas", "scan"}
  PROVE  Owned'
<1>1. \A u \in Threads \ {t} : SamePrivate(u)
  BY DEF Only, SamePrivate
<1>2. own \in [Threads -> Storages \cup {None}]
  BY DEF OInv, IInv, TypeOK
<1>3. own'[t] = None
  BY <1>2 DEF Discard
<1>4. CopiesAreOwned'
  BY <1>3, HoldsNothing, OthersAreOwned DEF OInv, Only
<1> QED
  BY <1>1, <1>2, <1>4, ThreadDiscards DEF OInv, Owned

LEMMA ReadOwned ==
  ASSUME OInv, NEW t \in Threads,
         FreeNow(t) \/ FreeBegin(t) \/ FreeReload(t) \/ FreeRetain(t) \/ FreeFile(t)
  PROVE  Owned'
<1> USE DEF shared, calls
<1>0. /\ TypeOK /\ wp \in WorldType /\ CopyIsOwned(t)
      /\ pc \in [Threads -> Pcs] /\ cwp \in [Threads -> WorldType]
  BY DEF OInv, IInv, TypeOK, CopiesAreOwned
<1>1. /\ pc[t] \in {"idle", "drop", "reload", "retain", "file"} /\ own[t] = None
      /\ UNCHANGED <<wp, pool, own, owp>>
  BY <1>0 DEF CopyIsOwned, FreeNow, FreeBegin, FreeReload, FreeRetain, FreeFile
<1>2. CASE FreeNow(t) \/ FreeFile(t)
  <2>1. PICK left : ReturnFromFree(t, left)
    BY <1>2 DEF FreeNow, FreeFile
  <2>2. Only(t)
    BY <1>1, <2>1 DEF ReturnFromFree, Goto, Only
  <2>3. pc'[t] \in {"idle", "drop", "range", "ubegin"}
    BY <1>0, <2>1 DEF ReturnFromFree, Goto, Caller
  <2>4. CopyIsOwned(t)'
    BY <1>1, <2>3, HoldsNothing
  <2> QED
    BY <1>1, <2>2, <2>3, <2>4, FreeKeeps
<1>3. CASE FreeBegin(t) \/ FreeReload(t) \/ FreeRetain(t)
  <2>1. PICK world \in WorldType : Proceed(t, world)
    BY <1>0, <1>3 DEF FreeBegin, FreeReload, FreeRetain
  <2>2. Only(t)
    <3>1. /\ mine' = mine \/ mine' = [mine EXCEPT ![t] = NoWorld]
          /\ cwp' = cwp \/ cwp' = [cwp EXCEPT ![t] = wp]
      BY <1>3 DEF FreeBegin, FreeReload, FreeRetain, ReadCwp
    <3>2. \A u \in Threads \ {t} : pc'[u] = pc[u] /\ kind'[u] = kind[u]
      BY <2>1 DEF Proceed, Goto
    <3>3. \A u \in Threads \ {t} : mine'[u] = mine[u] /\ cwp'[u] = cwp[u]
      BY <1>0, <3>1 DEF TypeOK
    <3> QED
      BY <1>1, <3>2, <3>3 DEF Only
  <2>3. pc'[t] \in {"file", "scan", "try"} /\ kind'[t] # "reorganize"
    BY <1>0, <2>1, ProceedType
  <2>4. CopyIsOwned(t)'
    BY <1>1, <2>3 DEF CopyIsOwned
  <2> QED
    BY <1>1, <2>2, <2>3, <2>4, FreeKeeps
<1> QED
  BY <1>2, <1>3

LEMMA RaisedStorages ==
  ASSUME TypeOK, NEW t \in Threads, NEW world \in WorldType, NEW usage,
         RaiseTimestamp(t, world, usage)
  PROVE  /\ pc'[t] = "cas" /\ mine'[t].st = world.st
         /\ \A u \in Threads \ {t} : pc'[u] = pc[u] /\ mine'[u] = mine[u]
<1>1. Raised(world).st = world.st
  BY DEF Raised, WorldType
<1>2. mine' = [mine EXCEPT ![t] = Raised(world)] /\ pc' = [pc EXCEPT ![t] = "cas"]
  BY DEF RaiseTimestamp, Goto
<1> QED
  BY <1>1, <1>2 DEF TypeOK

LEMMA TryOwned ==
  ASSUME OInv, NEW t \in Threads,
         TryFail(t) \/ TryIncrement(t) \/ TryAdd(t) \/ TryReorganize(t)
  PROVE  Owned'
<1> USE DEF shared, calls
<1>0. /\ TypeOK /\ IInv /\ CopyIsOwned(t) /\ pc[t] = "try" /\ Disjoint /\ Complete /\ CopiesAreOwned
      /\ pc \in [Threads -> Pcs] /\ mine \in [Threads -> WorldType]
      /\ own \in [Threads -> Storages \cup {None}] /\ pool \subseteq Storages
  BY DEF OInv, IInv, TypeOK, CopiesAreOwned, TryFail, TryIncrement, TryAdd, TryReorganize
<1>1. /\ Copy(t) \in WorldType /\ Copy(t).st = cwp[t].st
  BY <1>0, CopyWellFormed
<1>2. CASE TryFail(t)
  <2>1. Discard(t) /\ wp' = wp /\ owp' = owp
    BY <1>2 DEF TryFail, Busy
  <2>2. Only(t) /\ pc'[t] \notin {"wipe", "cas", "scan"}
    <3>1. CASE SingleThreaded(Copy(t))
      <4>1. PICK left : ReturnFromFree(t, left)
        BY <1>2, <3>1 DEF TryFail
      <4>2. Only(t)
        BY <2>1, <4>1 DEF ReturnFromFree, Goto, Only, Discard
      <4>3. pc'[t] \in {"idle", "drop", "range", "ubegin"}
        BY <1>0, <4>1 DEF ReturnFromFree, Goto, Caller
      <4> QED
        BY <4>2, <4>3
    <3>2. CASE ~ SingleThreaded(Copy(t))
      <4>1. Busy(t) /\ cwp' = cwp
        BY <1>2, <3>2 DEF TryFail
      <4> QED
        BY <1>0, <2>1, <4>1 DEF Busy, Goto, Only, Discard
    <3> QED
      BY <3>1, <3>2
  <2> QED
    BY <1>0, <2>1, <2>2, FreeDiscards
<1>3. CASE TryIncrement(t)
  <2>1. /\ RaiseTimestamp(t, Copy(t), bits)
        /\ UNCHANGED <<wp, pool, owp, cwp, kind, own>> /\ kind[t] = "increment"
    BY <1>3 DEF TryIncrement
  <2>2. /\ pc'[t] = "cas" /\ mine'[t].st = cwp[t].st
        /\ \A u \in Threads \ {t} : pc'[u] = pc[u] /\ mine'[u] = mine[u]
    BY <1>0, <1>1, <2>1, RaisedStorages
  <2>3. own'[t] = None /\ SameStorages(cwp[t], mine[t])'
    BY <1>0, <2>1, <2>2, SameStoragesReflexive DEF CopyIsOwned
  <2>4. CopyIsOwned(t)'
    BY <2>2, <2>3 DEF CopyIsOwned
  <2> QED
    BY <1>0, <2>1, <2>2, <2>4, FreeKeeps DEF Only
<1>4. CASE TryAdd(t) /\ own[t] # None
  <2>1. /\ RaiseTimestamp(t, Pushed(Copy(t), own[t]), bits) /\ own[t] \in Storages
        /\ UNCHANGED <<wp, pool, owp, cwp, kind, own>> /\ kind[t] \in {"add", "grow"}
    BY <1>0, <1>4 DEF TryAdd
  <2>2. /\ Pushed(Copy(t), own[t]) \in WorldType
        /\ Pushed(Copy(t), own[t]).st = Append(cwp[t].st, own[t])
    BY <1>1, <2>1, PushedType DEF Pushed, WorldType
  <2>3. /\ pc'[t] = "cas" /\ mine'[t].st = Append(cwp[t].st, own[t])
        /\ \A u \in Threads \ {t} : pc'[u] = pc[u] /\ mine'[u] = mine[u]
    BY <1>0, <2>1, <2>2, RaisedStorages
  <2>4. CopyIsOwned(t)'
    BY <1>4, <2>1, <2>3 DEF CopyIsOwned
  <2> QED
    BY <1>0, <2>1, <2>3, <2>4, FreeKeeps DEF Only
<1>5. CASE TryAdd(t) /\ own[t] = None
  <2>1. PICK s \in pool :
            /\ RaiseTimestamp(t, Pushed(Copy(t), s), [bits EXCEPT ![s] = {}])
            /\ pool' = pool \ {s} /\ own' = [own EXCEPT ![t] = s]
    BY <1>5 DEF TryAdd
  <2>2. /\ UNCHANGED <<wp, owp, cwp, kind>> /\ kind[t] \in {"add", "grow"}
        /\ s \in Storages /\ s # None
    BY <1>0, <1>5, StorageAssumption DEF TryAdd
  <2>3. /\ Pushed(Copy(t), s) \in WorldType
        /\ Pushed(Copy(t), s).st = Append(cwp[t].st, s)
    BY <1>1, <2>2, PushedType DEF Pushed, WorldType
  <2>4. /\ pc'[t] = "cas" /\ mine'[t].st = Append(cwp[t].st, s)
        /\ \A u \in Threads \ {t} : pc'[u] = pc[u] /\ mine'[u] = mine[u]
    BY <1>0, <2>1, <2>3, RaisedStorages
  <2>5. own'[t] = s /\ \A u \in Threads \ {t} : own'[u] = own[u]
    BY <1>0, <2>1
  <2>6. CopyIsOwned(t)'
    BY <2>2, <2>4, <2>5 DEF CopyIsOwned
  <2>7. CopiesAreOwned'
    BY <1>0, <2>2, <2>4, <2>5, <2>6, OthersAreOwned
  <2>8. \A u \in Threads \ {t} : SamePrivate(u)
    BY <2>2, <2>4, <2>5 DEF SamePrivate
  <2>9. Disjoint' /\ Complete'
    BY <1>0, <1>5, <2>1, <2>2, <2>4, <2>8, ThreadAllocates
  <2> QED
    BY <2>7, <2>9 DEF Owned
<1>6. CASE TryReorganize(t)
  <2>1. /\ mine' = [mine EXCEPT ![t] = Copy(t)] /\ pc' = [pc EXCEPT ![t] = "scan"]
        /\ UNCHANGED <<wp, pool, owp, cwp, kind, own>> /\ kind[t] = "reorganize"
    BY <1>6 DEF TryReorganize, Goto
  <2>2. /\ mine'[t].st = cwp[t].st /\ pc'[t] = "scan"
        /\ \A u \in Threads \ {t} : pc'[u] = pc[u] /\ mine'[u] = mine[u]
    BY <1>0, <1>1, <2>1
  <2>3. own'[t] = None /\ SameStorages(cwp[t], mine[t])'
    BY <1>0, <2>1, <2>2, SameStoragesReflexive DEF CopyIsOwned
  <2>4. CopyIsOwned(t)'
    BY <2>2, <2>3 DEF CopyIsOwned
  <2> QED
    BY <1>0, <2>1, <2>2, <2>4, FreeKeeps DEF Only
<1> QED
  BY <1>2, <1>3, <1>4, <1>5, <1>6

\* Reusing storages moves them within the copy.
LEMMA ScanOwned ==
  ASSUME OInv, NEW t \in Threads,
         ScanCount(t) \/ ScanReorganize(t) \/ Reorganize(t) \/ Grow(t)
  PROVE  Owned'
<1> USE DEF shared, calls
<1>0. /\ TypeOK /\ IInv /\ CopyIsOwned(t) /\ pc[t] \in {"scan", "grow"}
      /\ pc \in [Threads -> Pcs] /\ kind \in [Threads -> Kinds]
      /\ mine \in [Threads -> WorldType] /\ cwp \in [Threads -> WorldType]
  BY DEF OInv, IInv, TypeOK, CopiesAreOwned, ScanCount, ScanReorganize, Reorganize, Grow
<1>1. /\ pc[t] = "scan" => own[t] = None
      /\ wp' = wp /\ owp' = owp
  BY <1>0 DEF CopyIsOwned, ScanCount, ScanReorganize, Reorganize, Grow
<1>2. CASE Busy(t)
  <2>1. Discard(t) /\ pc' = [pc EXCEPT ![t] = "reload"] /\ pc'[t] = "reload"
    BY <1>0, <1>2 DEF Busy, Goto
  <2>2. cwp' = cwp
    BY <2>1, <1>0 DEF ScanCount, ScanReorganize, Reorganize, Grow, Goto
  <2>3. Only(t)
    BY <1>1, <1>2, <2>1, <2>2 DEF Busy, Discard, Only
  <2> QED
    BY <1>0, <1>1, <2>1, <2>3, FreeDiscards
<1>3. CASE ScanCount(t)
  <2>1. /\ pc[t] = "scan" /\ kind[t] = "count"
        /\ UNCHANGED <<pool, own, cwp>>
    BY <1>3 DEF ScanCount
  <2>2. \/ pc' = [pc EXCEPT ![t] = "grow"] /\ kind' = [kind EXCEPT ![t] = "grow"]
        \/ pc' = [pc EXCEPT ![t] = "try"] /\ kind' = [kind EXCEPT ![t] = "reorganize"]
        \/ pc' = pc /\ kind' = kind
    BY <1>3 DEF ScanCount, Goto
  <2>3. mine' = mine \/ mine' = [mine EXCEPT ![t].size = cwp[t].size + 1]
    BY <1>3 DEF ScanCount
  <2>4. Only(t)
    BY <1>0, <1>1, <2>1, <2>2, <2>3 DEF Only
  <2>5. \/ pc'[t] \in {"grow", "try"}
        \/ pc'[t] = "scan" /\ kind'[t] = "count"
    BY <1>0, <2>1, <2>2
  <2>6. CopyIsOwned(t)'
    BY <1>1, <2>1, <2>5 DEF CopyIsOwned
  <2> QED
    BY <1>1, <2>1, <2>4, <2>5, <2>6, FreeKeeps
<1>4. CASE ScanReorganize(t)
  <2>1. /\ pc[t] = "scan" /\ kind[t] = "reorganize" /\ ~ ScanEnds(t)
        /\ UNCHANGED <<pc, kind, pool, own, cwp>>
        /\ SameStorages(cwp[t], mine[t])
    BY <1>0, <1>4 DEF ScanReorganize, CopyIsOwned
  <2>2. SameStorages(cwp[t], Rotated(mine[t]))
    <3>1. /\ i[t] < Len(cwp[t].st) /\ i[t] \in Nat /\ Len(mine[t].st) = Len(cwp[t].st)
          /\ Len(cwp[t].st) \in Nat
      BY <1>0, <2>1, ScanGoesOn, Fields
         DEF IInv, TypeOK, CallsAreConsistent, CallIsConsistent, Rotating
    <3>2. Len(mine[t].st) > 0
      BY <3>1
    <3> QED
      BY <1>0, <2>1, <3>2, RotatedStorages, SameStoragesTransitive
  <2>3. mine' = [mine EXCEPT ![t] = Rotated(mine[t])] \/ mine' = [mine EXCEPT ![t] = mine[t]]
    <3>1. CASE Unused(mine[t].st[i[t] + 1])
      BY <1>4, <3>1 DEF ScanReorganize
    <3>2. CASE ~ Unused(mine[t].st[i[t] + 1])
      BY <1>4, <3>2 DEF ScanReorganize
    <3> QED
      BY <3>1, <3>2
  <2>4. /\ mine'[t] = Rotated(mine[t]) \/ mine'[t] = mine[t]
        /\ \A u \in Threads \ {t} : mine'[u] = mine[u]
    BY <1>0, <2>3
  <2>5. SameStorages(cwp[t], mine'[t])
    BY <2>1, <2>2, <2>4
  <2>6. SameStorages(cwp[t], mine[t])'
    BY <2>1, <2>5 DEF SameStorages, StoragesOf, Distinct
  <2>7. CopyIsOwned(t)'
    BY <1>1, <2>1, <2>6 DEF CopyIsOwned
  <2> QED
    BY <1>1, <2>1, <2>4, <2>7, FreeKeeps DEF Only
<1>5. CASE Reorganize(t) /\ ~ Busy(t)
  <2>1. /\ RaiseTimestamp(t, mine[t], bits) /\ pc[t] = "scan"
        /\ UNCHANGED <<pool, kind, own, cwp>> /\ SameStorages(cwp[t], mine[t])
    BY <1>0, <1>5 DEF Reorganize, CopyIsOwned
  <2>2. /\ pc'[t] = "cas" /\ mine'[t].st = mine[t].st
        /\ \A u \in Threads \ {t} : pc'[u] = pc[u] /\ mine'[u] = mine[u]
    BY <1>0, <2>1, RaisedStorages
  <2>3. SameStorages(cwp[t], mine[t])'
    <3>1. SameStorages(mine[t], mine'[t])
      BY <2>2, SameStoragesReflexive
    <3>2. SameStorages(cwp[t], mine'[t])
      BY <2>1, <3>1, SameStoragesTransitive
    <3> QED
      BY <2>1, <3>2 DEF SameStorages, StoragesOf, Distinct
  <2>4. CopyIsOwned(t)'
    BY <1>1, <2>1, <2>2, <2>3 DEF CopyIsOwned
  <2> QED
    BY <1>1, <2>1, <2>2, <2>4, FreeKeeps DEF Only
<1>6. CASE Grow(t) /\ ~ Busy(t)
  <2>1. /\ cwp' = [cwp EXCEPT ![t] = wp] /\ pc' = [pc EXCEPT ![t] = "try"]
        /\ UNCHANGED <<pool, kind, mine, own>> /\ pc[t] = "grow"
    BY <1>6 DEF Grow, ReadCwp, Goto
  <2>2. pc'[t] = "try"
    BY <1>0, <2>1
  <2>3. CopyIsOwned(t)'
    BY <1>0, <2>1, <2>2 DEF CopyIsOwned
  <2> QED
    BY <1>1, <2>1, <2>2, <2>3, FreeKeeps DEF Only
<1> QED
  BY <1>2, <1>3, <1>4, <1>5, <1>6

\* The compare-and-swap puts the storage of the copy into the world.
LEMMA SwapOwned ==
  ASSUME OInv, NEW t \in Threads, FreeSwap(t) \/ FreeSwapFail(t) PROVE Owned'
<1> USE DEF shared, calls, Goto
<1>0. /\ TypeOK /\ CopyIsOwned(t) /\ pc[t] = "cas" /\ Disjoint /\ Complete /\ CopiesAreOwned
      /\ pc \in [Threads -> Pcs] /\ cwp \in [Threads -> WorldType]
      /\ own \in [Threads -> Storages \cup {None}]
      /\ wp \in WorldType /\ mine[t] \in WorldType
  BY DEF OInv, IInv, TypeOK, CopiesAreOwned, FreeSwap, FreeSwapFail
<1>1. CASE FreeSwap(t)
  <2>1. /\ wp' = mine[t] /\ wp = cwp[t] /\ cwp' = [cwp EXCEPT ![t] = mine[t]]
        /\ own' = [own EXCEPT ![t] = None] /\ pc' = [pc EXCEPT ![t] = "retain"]
        /\ UNCHANGED <<pool, owp, kind, mine>>
    BY <1>1 DEF FreeSwap, Install
  <2>2. /\ pc'[t] = "retain" /\ own'[t] = None
        /\ \A u \in Threads \ {t} : pc'[u] = pc[u] /\ own'[u] = own[u] /\ cwp'[u] = cwp[u]
    BY <1>0, <2>1
  <2>3. /\ StoragesOf(mine[t]) = StoragesOf(wp) \cup ({own[t]} \ {None})
        /\ Distinct(mine[t].st)
    <3>1. CASE own[t] = None
      BY <1>0, <2>1, <3>1 DEF CopyIsOwned, SameStorages, Disjoint
    <3>2. CASE own[t] # None
      <4>1. own[t] \in Storages /\ mine[t].st = Append(wp.st, own[t])
        BY <1>0, <2>1, <3>2 DEF CopyIsOwned
      <4>2. own[t] \notin StoragesOf(wp)
        BY <1>0, <3>2 DEF Disjoint, Private
      <4>3. Distinct(wp.st)
        BY <1>0 DEF Disjoint
      <4> QED
        <5>1. StoragesOf(mine[t]) = StoragesOf(wp) \cup {own[t]} /\ Distinct(mine[t].st)
          BY <1>0, <4>1, <4>2, <4>3, AppendedStorages
        <5> QED
          BY <3>2, <5>1
    <3> QED
      BY <3>1, <3>2
  <2>4. StoragesOf(wp') = StoragesOf(wp) \cup ({own[t]} \ {None}) /\ Distinct(wp'.st)
    BY <2>1, <2>3
  <2>5. \A u \in Threads \ {t} : SamePrivate(u)
    BY <2>1, <2>2 DEF SamePrivate
  <2>6. Disjoint' /\ Complete'
    BY <1>0, <2>1, <2>2, <2>4, <2>5, ThreadInstalls
  <2>7. CopiesAreOwned'
    BY <1>0, <2>1, <2>2, HoldsNothing, OthersAreOwned
  <2> QED
    BY <2>6, <2>7 DEF Owned
<1>2. CASE FreeSwapFail(t) /\ kind[t] = "grow"
  <2>1. pc' = [pc EXCEPT ![t] = "grow"] /\ UNCHANGED <<wp, cwp, pool, own, owp, kind, mine>>
    BY <1>2 DEF FreeSwapFail
  <2>2. pc'[t] = "grow"
    BY <1>0, <2>1
  <2>3. CopyIsOwned(t)'
    BY <1>0, <1>2, <2>1, <2>2 DEF CopyIsOwned
  <2> QED
    BY <1>0, <2>1, <2>2, <2>3, FreeKeeps DEF Only
<1>3. CASE FreeSwapFail(t) /\ kind[t] # "grow"
  <2>1. /\ pc' = [pc EXCEPT ![t] = "try"] /\ cwp' = [cwp EXCEPT ![t] = wp]
        /\ UNCHANGED <<wp, owp, kind, mine>>
        /\ UNCHANGED <<pool, own>> \/ Discard(t)
    BY <1>3 DEF FreeSwapFail, ReadCwp
  <2>2. pc'[t] = "try"
    BY <1>0, <2>1
  <2>3. Only(t)
    <3>1. own' = own \/ own' = [own EXCEPT ![t] = None]
      BY <2>1 DEF Discard
    <3>2. \A u \in Threads \ {t} : pc'[u] = pc[u] /\ cwp'[u] = cwp[u] /\ own'[u] = own[u]
      BY <1>0, <2>1, <3>1
    <3> QED
      BY <2>1, <3>2 DEF Only
  <2>4. CASE UNCHANGED <<pool, own>>
    <3>1. CopyIsOwned(t)'
      BY <1>0, <2>1, <2>2, <2>4 DEF CopyIsOwned
    <3> QED
      BY <1>0, <2>1, <2>2, <2>3, <2>4, <3>1, FreeKeeps
  <2>5. CASE Discard(t)
    BY <1>0, <2>1, <2>2, <2>3, <2>5, FreeDiscards
  <2> QED
    BY <2>1, <2>4, <2>5
<1> QED
  BY <1>1, <1>2, <1>3

-----------------------------------------------------------------------------

LEMMA InitOInv == Init => OInv
BY InitIInv, InitOwned DEF OInv

LEMMA NextOInv == OInv /\ [Next]_vars => OInv'
<1> SUFFICES ASSUME OInv, [Next]_vars PROVE OInv'
  OBVIOUS
<1>1. IInv'
  BY NextIInv DEF OInv
<1>2. CASE Next
  <2>1. PICK t \in Threads : RegisterStep(t) \/ FreeStep(t) \/ CheckinStep(t) \/ UnregisterStep(t)
    BY <1>2 DEF Next
  <2>2. ASSUME FreeStep(t) PROVE Owned'
    BY <2>2, ReadOwned, TryOwned, ScanOwned, SwapOwned DEF FreeStep
  <2>3. Owned'
    BY <2>1, <2>2, RegisterOwned, CheckinOwned, UnregisterOwned
  <2> QED
    BY <1>1, <2>3 DEF OInv, Owned
<1>3. CASE UNCHANGED vars
  <2>1. UNCHANGED <<wp, pool, owp, pc, cwp, kind, mine, own>>
    BY <1>3 DEF vars, shared
  <2>2. Disjoint' /\ Complete'
    BY <2>1, NobodyTakes DEF OInv, SamePrivate
  <2>3. CopiesAreOwned'
    <3>1. ASSUME NEW t \in Threads PROVE CopyIsOwned(t)'
      <4>1. CopyIsOwned(t)
        BY DEF OInv, CopiesAreOwned
      <4>2. ASSUME SameStorages(cwp[t], mine[t]) PROVE SameStorages(cwp[t], mine[t])'
        BY <2>1, <4>2 DEF SameStorages, StoragesOf, Distinct
      <4> QED
        BY <2>1, <4>1, <4>2 DEF CopyIsOwned
    <3> QED
      BY <3>1 DEF CopiesAreOwned
  <2> QED
    BY <1>1, <2>2, <2>3 DEF OInv
<1> QED
  BY <1>2, <1>3

LEMMA OInvImpliesOneOwner == OInv => StoragesHaveOneOwner
<1> SUFFICES ASSUME OInv PROVE StoragesHaveOneOwner
  OBVIOUS
<1>0. /\ Disjoint /\ Complete /\ wp \in WorldType /\ pool \subseteq Storages
      /\ owp \in [Threads -> WorldType] /\ own \in [Threads -> Storages \cup {None}]
  BY DEF OInv, IInv, TypeOK
<1>1. Cardinality(StoragesOf(wp)) = Len(wp.st)
  BY <1>0, DistinctCardinality DEF Disjoint
<1>2. StoragesOf(wp) \subseteq Storages
  BY <1>0, StoragesType
<1>3. ASSUME NEW t \in Threads PROVE Private(t) \subseteq Storages
  <2>1. StoragesOf(owp[t]) \subseteq Storages
    BY <1>0, StoragesType
  <2> QED
    BY <1>0, <2>1 DEF Private
<1>4. UNION {Private(t) : t \in Threads} \subseteq Storages
  BY <1>3
<1>5. Storages \subseteq pool \cup StoragesOf(wp) \cup UNION {Private(t) : t \in Threads}
  BY <1>0 DEF Complete
<1> QED
  BY <1>0, <1>1, <1>2, <1>4, <1>5 DEF StoragesHaveOneOwner, Disjoint

\* However many threads add, rotate and grow at once, give up copies
\* (_mulle_aba_world_discard) or leave, no storage is leaked, none is freed
\* twice, and none gets into a world twice or stays in one after it was freed.
THEOREM OneOwner == Spec => []StoragesHaveOneOwner
<1>1. Init => OInv
  BY InitOInv
<1>2. OInv /\ [Next]_vars => OInv'
  BY NextOInv
<1>3. OInv => StoragesHaveOneOwner
  BY OInvImpliesOneOwner
<1> QED
  BY <1>1, <1>2, <1>3, PTL DEF Spec

=============================================================================
