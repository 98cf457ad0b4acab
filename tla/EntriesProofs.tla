--------------------------- MODULE EntriesProofs ----------------------------
(***************************************************************************)
(* Proofs about the entries of timestamps, the second part: that the steps *)
(* which change an entry or the world keep the invariant; the theorems that*)
(* follow from it; and that the storages implement TimestampEntries.       *)
(***************************************************************************)
EXTENDS EntriesGeometry

-----------------------------------------------------------------------------
(* Steps that change an entry.                                             *)

\* Threads that are awaited or hold something can be counted.
LEMMA AwaitedFinite ==
  /\ IsFiniteSet(Registered) /\ Cardinality(Registered) \in Nat
  /\ Cardinality(Threads) \in Nat /\ Cardinality(Registered) <= Cardinality(Threads)
  /\ \A T : /\ IsFiniteSet(Awaited(T)) /\ Cardinality(Awaited(T)) \in Nat
            /\ Cardinality(Awaited(T)) = 0 <=> Awaited(T) = {}
<1>1. Registered \subseteq Threads /\ \A T : Awaited(T) \subseteq Threads
  BY DEF Registered, Awaited
<1>2. \A T : IsFiniteSet(Awaited(T))
  BY <1>1, ThreadsAssumption, FS_Subset
<1> QED
  BY <1>1, <1>2, ThreadsAssumption, FS_Subset, FS_CardinalityType, FS_EmptySet

\* What the others rely on, while the world stays and one of them goes on.
LEMMA OthersStay ==
  ASSUME SInv, NEW t \in Threads, wp' = wp, \A u \in Threads \ {t} : Stays(u),
         cfresh' \ {t} \subseteq cfresh, ofresh' \ {t} \subseteq ofresh,
         tss' = tss, Held(t)' \in Nat, Held(t) <= Held(t)',
         \A s \in Storages \ StoragesOf(wp) : rc'[s] = rc[s] /\ list'[s] = list[s],
         \A u \in Threads \ {t} :
            u \in cfresh /\ pc[u] = "cas" /\ Index(mine[u].ts) \in bits[StorageOf(mine[u], mine[u].ts)]
                => Index(mine[u].ts) \in bits'[StorageOf(mine[u], mine[u].ts)]
  PROVE  /\ \A u \in Threads \ {t} : ThreadAgrees(u)'
         /\ Registered' = Registered /\ WorldCounts'
         /\ \A u \in Threads \ {t} : Held(u)' = Held(u) /\ Cursor(u)' = Cursor(u)
<1>1. Registered' = Registered
  BY DEF Registered
<1>2. WorldCounts'
  BY <1>1 DEF SInv, Sound, WorldCounts
<1>3. \A u \in Threads \ {t} : Held(u)' = Held(u) /\ Cursor(u)' = Cursor(u)
  BY SameThread
<1>4. ASSUME NEW u \in Threads \ {t} PROVE ThreadAgrees(u)'
  <2>1. Stays(u) /\ ThreadAgrees(u) /\ CursorAgrees(u) /\ wp.ts \in Nat /\ wp.off \in Nat
        /\ wp.bit \in 0 .. 1 /\ wp.ts + wp.bit \in Nat
    BY Types DEF ThreadAgrees
  <2>2. /\ wp'.ts \in Nat /\ wp'.bit \in 0 .. 1 /\ wp'.ts >= wp.ts
        /\ wp'.ts + wp'.bit >= wp.ts + wp.bit /\ wp'.off \in Nat
    BY <2>1
  <2>3. tss[u] # 0 => wp'.off <= Held(u)
    BY <2>1 DEF CursorAgrees
  <2>4. Keeps(wp, wp')
    BY DEF Keeps
  <2>5. own[u] # None => rc'[own[u]] = rc[own[u]] /\ list'[own[u]] = list[own[u]]
    BY OwnIsNotPooled
  <2>6. \A v \in Registered : Held(v)' \in Nat /\ Held(v) <= Held(v)'
    <3>1. \A v \in Registered : Held(v) \in Nat /\ v \in Threads
      BY Types DEF Registered
    <3> QED
      BY <1>3, <3>1
  <2>7. /\ u \in cfresh' => u \in cfresh /\ SameWorld(wp', wp)
        /\ u \in ofresh' => u \in ofresh /\ SameWorld(wp', wp)
    BY SameWorldReflexive
  <2> QED
    BY <1>1, <2>1, <2>2, <2>3, <2>4, <2>5, <2>6, <2>7, OtherAgrees
<1> QED
  BY <1>1, <1>2, <1>3, <1>4

\* The entry that a checkin touches.
LEMMA TouchedSlot ==
  ASSUME SInv, NEW t \in Threads, InLoop(t), cur[t] <= new[t]
  PROVE  /\ cur[t] \in Slots(wp) /\ cur[t] \in 1 .. wp.ts /\ cur[t] \in Nat
         /\ StorageOf(owp[t], cur[t]) = StorageOf(wp, cur[t])
         /\ tss[t] # 0 /\ Held(t) = cur[t] /\ t \in Holders(cur[t]) /\ EntryIsRight(cur[t])
<1>1. /\ cur[t] \in Nat /\ new[t] \in Nat /\ wp.ts \in Nat
      /\ LocalsAgree(t) /\ CursorAgrees(t) /\ WorldsAgree(t) /\ tss[t] \in Nat
  BY Types DEF ThreadAgrees
<1>2. tss[t] # 0 /\ Held(t) = cur[t] /\ tss[t] <= cur[t]
  BY <1>1 DEF LocalsAgree, InLoop, CheckinPcs, Held
<1>3. new[t] <= wp.ts
  BY <1>1, <1>2 DEF CursorAgrees
<1>4. cur[t] \in 1 .. wp.ts
  BY <1>1, <1>2, <1>3
<1>5. Agrees(owp[t], cur[t])
  BY <1>1, <1>2 DEF WorldsAgree, KeepsOwp
<1>6. t \in Holders(cur[t])
  BY <1>1, <1>2 DEF Holders, Registered
<1> QED
  BY <1>1, <1>2, <1>4, <1>5, <1>6 DEF Agrees, SInv, Sound, EntriesAreRight

\* An emptier's entry is one that a checkin touches.
LEMMA EmptierSlot ==
  ASSUME SInv, NEW t \in Threads, Empties(t)
  PROVE  cur[t] \in Slots(wp) /\ cur[t] \in 1 .. wp.ts
<1>1. InLoop(t) /\ cur[t] <= new[t]
  BY Types DEF Empties, InLoop, CallIsConsistent
<1> QED
  BY <1>1, TouchedSlot

\* The entry of the world that a free works with.
LEMMA FiledSlot ==
  ASSUME SInv, NEW t \in Threads, Filing(t)
  PROVE  /\ cwp[t].ts \in Slots(wp) /\ cwp[t].ts \in 1 .. wp.ts
         /\ StorageOf(cwp[t], cwp[t].ts) = StorageOf(wp, cwp[t].ts)
         /\ tss[t] # 0 /\ t \in Awaited(cwp[t].ts) /\ t \in Holders(cwp[t].ts)
         /\ EntryIsRight(cwp[t].ts) /\ MayFile(t, cwp[t])
<1>1. /\ LocalsAgree(t) /\ CursorAgrees(t) /\ WorldsAgree(t)
      /\ Held(t) \in Nat /\ Cursor(t) \in Nat /\ Held(t) <= Cursor(t) /\ wp.ts \in Nat
  BY Types DEF ThreadAgrees
<1>2. tss[t] # 0
  BY <1>1 DEF LocalsAgree, Filing, FreePcs
<1>3. cwp[t].ts \in 1 .. wp.ts /\ Cursor(t) <= cwp[t].ts /\ Agrees(cwp[t], cwp[t].ts)
  BY <1>1, <1>2 DEF CursorAgrees, WorldsAgree
<1>4. Held(t) <= cwp[t].ts
  BY <1>1, <1>3
<1> QED
  BY <1>2, <1>3, <1>4 DEF Awaited, Holders, Registered, MayFile, Agrees, SInv, Sound, EntriesAreRight

\* An update through a stale world is one through the current world, if the
\* two have the entry in the same storage.
LEMMA UpdateWhere ==
  ASSUME NEW entries, NEW a, NEW b, NEW T, NEW value, StorageOf(a, T) = StorageOf(b, T)
  PROVE  /\ UpdateEntry(entries, a, T, value) = UpdateEntry(entries, b, T, value)
         /\ EntryOf(entries, a, T) = EntryOf(entries, b, T)
BY DEF UpdateEntry, EntryOf

\* An update changes one retain count.
LEMMA CountChanges ==
  ASSUME SInv, NEW T \in Slots(wp), NEW value \in Int,
         rc' = UpdateEntry(rc, wp, T, value)
  PROVE  /\ EntryOf(rc', wp, T) = value
         /\ \A X \in Slots(wp) \ {T} : EntryOf(rc', wp, X) = EntryOf(rc, wp, X)
         /\ \A s \in Storages \ StoragesOf(wp) : rc'[s] = rc[s]
<1> PICK s, x : s = StorageOf(wp, T) /\ x = Index(T)
  OBVIOUS
<1>1. rc \in [Storages -> [Indices -> Int]]
  BY Types
<1>2. s \in StoragesOf(wp) /\ s \in Storages /\ x \in Indices
  BY Types, SlotStorage
<1>3. rc' = [rc EXCEPT ![s][x] = value]
  BY DEF UpdateEntry
<1>4. /\ rc'[s][x] = value
      /\ \A y \in Indices \ {x} : rc'[s][y] = rc[s][y]
      /\ \A r \in Storages \ {s} : rc'[r] = rc[r]
  BY <1>1, <1>2, <1>3
<1>5. ASSUME NEW X \in Slots(wp) \ {T} PROVE EntryOf(rc', wp, X) = EntryOf(rc, wp, X)
  <2>1. /\ StorageOf(wp, X) \in Storages /\ Index(X) \in Indices
        /\ StorageOf(wp, X) # s \/ Index(X) # x
    BY Types, SlotStorage, SlotsAreDistinct
  <2> QED
    BY <1>4, <2>1 DEF EntryOf
<1> QED
  BY <1>2, <1>4, <1>5 DEF EntryOf

\* An update changes one list.
LEMMA ListChanges ==
  ASSUME SInv, NEW T \in Slots(wp), NEW value \in SUBSET (1 .. MaxTimestamp),
         list' = UpdateEntry(list, wp, T, value)
  PROVE  /\ EntryOf(list', wp, T) = value
         /\ \A X \in Slots(wp) \ {T} : EntryOf(list', wp, X) = EntryOf(list, wp, X)
         /\ \A s \in Storages \ StoragesOf(wp) : list'[s] = list[s]
<1> PICK s, x : s = StorageOf(wp, T) /\ x = Index(T)
  OBVIOUS
<1>1. list \in [Storages -> [Indices -> SUBSET (1 .. MaxTimestamp)]]
  BY Types
<1>2. s \in StoragesOf(wp) /\ s \in Storages /\ x \in Indices
  BY Types, SlotStorage
<1>3. list' = [list EXCEPT ![s][x] = value]
  BY DEF UpdateEntry
<1>4. /\ list'[s][x] = value
      /\ \A y \in Indices \ {x} : list'[s][y] = list[s][y]
      /\ \A r \in Storages \ {s} : list'[r] = list[r]
  BY <1>1, <1>2, <1>3
<1>5. ASSUME NEW X \in Slots(wp) \ {T} PROVE EntryOf(list', wp, X) = EntryOf(list, wp, X)
  <2>1. /\ StorageOf(wp, X) \in Storages /\ Index(X) \in Indices
        /\ StorageOf(wp, X) # s \/ Index(X) # x
    BY Types, SlotStorage, SlotsAreDistinct
  <2> QED
    BY <1>4, <2>1 DEF EntryOf
<1> QED
  BY <1>2, <1>4, <1>5 DEF EntryOf

\* What an entry has in it.
LEMMA EntryType ==
  ASSUME SInv, NEW T \in Slots(wp)
  PROVE  EntryOf(rc, wp, T) \in Int /\ EntryOf(list, wp, T) \in SUBSET (1 .. MaxTimestamp)
<1>1. StorageOf(wp, T) \in Storages /\ Index(T) \in Indices
  BY Types, SlotStorage
<1>2. /\ rc \in [Storages -> [Indices -> Int]]
      /\ list \in [Storages -> [Indices -> SUBSET (1 .. MaxTimestamp)]]
  BY Types
<1> QED
  BY <1>1, <1>2 DEF EntryOf

\* A pointer is filed.
LEMMA FreeFileSound ==
  ASSUME SInv, NEW t \in Threads, FreeFile(t) PROVE Sound'
<1> PICK T0 : T0 = cwp[t].ts
  OBVIOUS
<1>0. wp.ts \in Nat /\ wp.ts <= MaxTimestamp /\ MaxTimestamp \in Nat
  BY Types, Fields, StorageAssumption
<1>1. /\ pc[t] = "file" /\ ReturnFromFree(t, chain[t]) /\ chain[t] \in Nat /\ pc[t] \in FreePcs
      /\ UNCHANGED <<wp, bits, rc, pool, tss, new, cur, owp, ofresh, own>>
      /\ own[t] = None /\ Filing(t)
  BY Types, Domains DEF FreeFile, FreePcs, CopyIsOwned, Filing
<1>2. /\ T0 \in Slots(wp) /\ T0 \in 1 .. wp.ts /\ StorageOf(cwp[t], T0) = StorageOf(wp, T0)
      /\ tss[t] # 0 /\ t \in Awaited(T0) /\ t \in Holders(T0) /\ EntryIsRight(T0)
  BY <1>1, FiledSlot
<1>3. /\ FreeMoves(t) /\ pc'[t] \notin {"cas", "scan", "file", "retain"} /\ t \notin cfresh'
      /\ cfresh' \subseteq cfresh /\ \A u \in Threads \ {t} : Stays(u)
  BY <1>1, ReturnMoves DEF Stays
<1>4. list' = UpdateEntry(list, wp, T0, EntryOf(list, wp, T0) \cup {T0})
  BY <1>2, UpdateWhere DEF FreeFile
<1>5. EntryOf(list, wp, T0) \cup {T0} \in SUBSET (1 .. MaxTimestamp)
  BY <1>0, <1>2, EntryType
<1>6. /\ \A X \in Slots(wp) \ {T0} : EntryOf(list', wp, X) = EntryOf(list, wp, X)
      /\ \A s \in Storages \ StoragesOf(wp) : list'[s] = list[s]
  BY <1>2, <1>4, <1>5, ListChanges
<1>7. /\ LocalsAgree(t)' /\ PointersAgree(t)' /\ CursorAgrees(t)' /\ WorldsAgree(t)'
      /\ Held(t)' = Held(t) /\ Cursor(t)' = Cursor(t)
  BY <1>1, <1>2, <1>3, FreeThread
<1>8. PrivateIsInitial(t)' /\ CopyAgrees(t)'
  BY <1>1, <1>3 DEF PrivateIsInitial, CopyAgrees
<1>9. /\ \A u \in Threads \ {t} : ThreadAgrees(u)'
      /\ Registered' = Registered /\ WorldCounts'
      /\ \A u \in Threads \ {t} : Held(u)' = Held(u) /\ Cursor(u)' = Cursor(u)
  <2>1. Held(t)' \in Nat /\ Held(t) <= Held(t)'
    BY <1>7, Types
  <2> QED
    BY <1>1, <1>3, <1>6, <2>1, OthersStay
<1>10. \A T : Awaited(T)' = Awaited(T) /\ Holders(T)' = Holders(T)
  BY <1>7, <1>9 DEF Awaited, Holders, Registered
<1>11. ThreadsAgree'
  BY <1>7, <1>8, <1>9 DEF ThreadsAgree, ThreadAgrees
<1>12. EntriesAreRight'
  <2> SUFFICES ASSUME NEW T \in Slots(wp) PROVE EntryIsRight(T)'
    BY <1>1 DEF EntriesAreRight
  <2>1. EntryIsRight(T)
    BY DEF SInv, Sound, EntriesAreRight
  <2>2. \A u \in Threads : Raiser(u, T)' = Raiser(u, T) /\ (Raiser(u, T) => cwp'[u].nt = cwp[u].nt)
    BY <1>1, <1>3 DEF Raiser, Stays
  <2>3. EntryOf(rc', wp, T) = EntryOf(rc, wp, T)
    BY <1>1
  <2>4. CASE T # T0
    BY <1>1, <1>6, <1>10, <2>1, <2>2, <2>3, <2>4, EntryKept
  <2>5. CASE T = T0
    <3>1. EntryOf(rc, wp, T0)' = EntryOf(rc, wp, T0) /\ wp' = wp /\ bits' = bits
      BY <1>1 DEF EntryOf
    <3>2. Awaited(T0)' = Awaited(T0) /\ Holders(T0)' = Holders(T0) /\ Holders(T0) # {}
      BY <1>2, <1>10
    <3> QED
      BY <1>2, <2>2, <2>5, <3>1, <3>2 DEF EntryIsRight
  <2> QED
    BY <2>4, <2>5
<1>13. RaisersAgree'
  <2>1. \A u \in Threads : pc'[u] = "retain" => pc[u] = "retain" /\ cwp'[u] = cwp[u]
    BY <1>3 DEF Stays
  <2> QED
    BY <2>1 DEF SInv, Sound, RaisersAgree
<1>14. EmptiersAgree'
  <2>1. \A u \in Threads : pc'[u] \in {"snip", "clear"} =>
            pc[u] = pc'[u] /\ cur'[u] = cur[u] /\ u # t
    BY <1>3 DEF Stays, FreeMoves, FreePcs
  <2>2. EmptiersAgree
    BY DEF SInv, Sound
  <2>3. \A u \in Threads : Empties(u)' => Empties(u) /\ cur'[u] = cur[u] /\ Awaited(cur[u])' = {}
    BY <1>10, <2>1, <2>2 DEF Empties, EmptiersAgree
  <2>4. ASSUME NEW u \in Threads, pc'[u] = "clear" PROVE EntryOf(list, wp, cur[u])' = {}
    <3>1. pc[u] = "clear" /\ cur'[u] = cur[u] /\ EntryOf(list, wp, cur[u]) = {} /\ Empties(u)
          /\ Awaited(cur[u]) = {}
      BY <2>1, <2>2, <2>4 DEF EmptiersAgree, Empties
    <3>2. cur[u] \in Slots(wp) /\ cur[u] # T0
      BY <1>2, <3>1, EmptierSlot
    <3> QED
      BY <1>1, <1>6, <3>1, <3>2 DEF EntryOf
  <2> QED
    BY <1>1, <2>2, <2>3, <2>4 DEF EmptiersAgree
<1> QED
  BY <1>9, <1>11, <1>12, <1>13, <1>14 DEF Sound

\* The threads to wait for are added.
LEMMA FreeRetainSound ==
  ASSUME SInv, NEW t \in Threads, FreeRetain(t) PROVE Sound'
<1> PICK T0 : T0 = cwp[t].ts
  OBVIOUS
<1>1. /\ pc[t] = "retain" /\ pc[t] \in FreePcs /\ Proceed(t, cwp[t])
      /\ UNCHANGED <<wp, bits, list, pool, tss, op, new, cur, owp, ofresh, cwp, cfresh, own, i>>
      /\ own[t] = None /\ Filing(t) /\ mine' = [mine EXCEPT ![t] = NoWorld]
  BY Types, Domains DEF FreeRetain, FreePcs, CopyIsOwned, Filing, calls
<1>2. /\ T0 \in Slots(wp) /\ T0 \in 1 .. wp.ts /\ StorageOf(cwp[t], T0) = StorageOf(wp, T0)
      /\ tss[t] # 0 /\ EntryIsRight(T0) /\ MayFile(t, cwp[t])
  BY <1>1, FiledSlot
<1>3. /\ pc'[t] \in {"file", "try", "scan"} /\ kind'[t] \in {"file", "increment", "add", "count"}
      /\ \A u \in Threads \ {t} : Stays(u)
  <2>1. /\ pc'[t] \in {"file", "try", "scan"} /\ kind'[t] \in {"file", "increment", "add", "count"}
        /\ \A u \in Threads \ {t} : pc'[u] = pc[u] /\ kind'[u] = kind[u]
    BY <1>1, ProceedMoves
  <2>2. \A u \in Threads \ {t} : mine'[u] = mine[u]
    BY <1>1, Domains
  <2> QED
    BY <1>1, <2>1, <2>2 DEF Stays
<1>4. rc' = UpdateEntry(rc, wp, T0, EntryOf(rc, wp, T0) + cwp[t].nt)
  BY <1>2, UpdateWhere DEF FreeRetain
<1>5. EntryOf(rc, wp, T0) \in Int /\ cwp[t].nt \in Nat /\ EntryOf(rc, wp, T0) + cwp[t].nt \in Int
  <2>1. EntryOf(rc, wp, T0) \in Int
    BY <1>2, EntryType
  <2> QED
    BY <2>1, Types, Fields
<1>6. /\ EntryOf(rc', wp, T0) = EntryOf(rc, wp, T0) + cwp[t].nt
      /\ \A X \in Slots(wp) \ {T0} : EntryOf(rc', wp, X) = EntryOf(rc, wp, X)
      /\ \A s \in Storages \ StoragesOf(wp) : rc'[s] = rc[s]
  BY <1>2, <1>4, <1>5, CountChanges
<1>7. FreeMoves(t) /\ pc'[t] # "retain" /\ (t \in cfresh' => SameWorld(cwp'[t], wp))
      /\ (pc'[t] = "file" => MayFile(t, cwp'[t]))
  BY <1>1, <1>2, <1>3, Types DEF FreeMoves, FreePcs, ThreadAgrees, PointersAgree
<1>8. /\ LocalsAgree(t)' /\ PointersAgree(t)' /\ CursorAgrees(t)' /\ WorldsAgree(t)'
      /\ Held(t)' = Held(t) /\ Cursor(t)' = Cursor(t)
  BY <1>1, <1>2, <1>7, FreeThread
<1>9. PrivateIsInitial(t)' /\ CopyAgrees(t)'
  BY <1>1, <1>3 DEF PrivateIsInitial, CopyAgrees
<1>10. /\ \A u \in Threads \ {t} : ThreadAgrees(u)'
       /\ Registered' = Registered /\ WorldCounts'
       /\ \A u \in Threads \ {t} : Held(u)' = Held(u) /\ Cursor(u)' = Cursor(u)
  <2>1. Held(t)' \in Nat /\ Held(t) <= Held(t)'
    BY <1>8, Types
  <2> QED
    BY <1>1, <1>3, <1>6, <2>1, OthersStay
<1>11. \A T : Awaited(T)' = Awaited(T) /\ Holders(T)' = Holders(T)
  BY <1>8, <1>10 DEF Awaited, Holders, Registered
<1>12. ThreadsAgree'
  BY <1>8, <1>9, <1>10 DEF ThreadsAgree, ThreadAgrees
<1>13. EntriesAreRight'
  <2> SUFFICES ASSUME NEW T \in Slots(wp) PROVE EntryIsRight(T)'
    BY <1>1 DEF EntriesAreRight
  <2>1. EntryIsRight(T)
    BY DEF SInv, Sound, EntriesAreRight
  <2>2. CASE T # T0
    <3>1. \A u \in Threads : Raiser(u, T)' = Raiser(u, T) /\ (Raiser(u, T) => cwp'[u].nt = cwp[u].nt)
      BY <1>1, <1>3, <1>7, <2>2 DEF Raiser, Stays
    <3> QED
      BY <1>1, <1>6, <1>11, <2>1, <2>2, <3>1, EntryKept
  <2>3. CASE T = T0
    <3>1. \A u \in Threads : ~ Raiser(u, T0)'
      <4>1. \A u \in Threads \ {t} : ~ Raiser(u, T0)
        BY <1>1 DEF SInv, Sound, RaisersAgree, Raiser
      <4> QED
        BY <1>3, <1>7, <4>1 DEF Raiser, Stays
    <3>2. EntryOf(rc, wp, T0) + cwp[t].nt = Cardinality(Awaited(T0)) - 1
      BY <1>1, <1>2 DEF EntryIsRight, Raiser
    <3>3. EntryOf(rc, wp, T0)' = Cardinality(Awaited(T0)') - 1
      BY <1>1, <1>6, <1>11, <3>2 DEF EntryOf
    <3>4. EntryOf(list, wp, T0)' = EntryOf(list, wp, T0) /\ wp' = wp /\ bits' = bits
          /\ Holders(T0)' = Holders(T0)
      BY <1>1, <1>11 DEF EntryOf
    <3> QED
      BY <1>2, <2>3, <3>1, <3>3, <3>4 DEF EntryIsRight
  <2> QED
    BY <2>2, <2>3
<1>14. RaisersAgree'
  <2>1. \A u \in Threads : pc'[u] = "retain" => pc[u] = "retain" /\ cwp'[u] = cwp[u]
    BY <1>3 DEF Stays
  <2> QED
    BY <2>1 DEF SInv, Sound, RaisersAgree
<1>15. EmptiersAgree'
  <2>1. \A u \in Threads : pc'[u] \in {"snip", "clear"} =>
            pc[u] = pc'[u] /\ cur'[u] = cur[u] /\ u # t
    BY <1>1, <1>3 DEF Stays
  <2>2. EmptiersAgree
    BY DEF SInv, Sound
  <2>3. \A u \in Threads : Empties(u)' => Empties(u) /\ cur'[u] = cur[u] /\ Awaited(cur[u])' = {}
    BY <1>11, <2>1, <2>2 DEF Empties, EmptiersAgree
  <2>4. \A u \in Threads : pc'[u] = "clear" => EntryOf(list, wp, cur[u])' = {}
    BY <1>1, <2>1, <2>2 DEF EmptiersAgree, EntryOf
  <2> QED
    BY <1>1, <2>2, <2>3, <2>4 DEF EmptiersAgree
<1> QED
  BY <1>10, <1>12, <1>13, <1>14, <1>15 DEF Sound

-----------------------------------------------------------------------------
(* The loop over the timestamps of a checkin.                              *)

\* A thread goes on in the loop, and no other thread moves.
Loops(t) ==
    /\ InLoop(t) /\ cur[t] <= new[t]
    /\ UNCHANGED <<wp, pool, tss, op, new, owp, ofresh, cwp, cfresh, kind, mine, own, i>>
    /\ \A u \in Threads \ {t} : pc'[u] = pc[u] /\ cur'[u] = cur[u]
    /\ pc'[t] \in {"dec", "snip", "clear"} /\ Cursor(t)' = cur[t] + 1
    /\ cur'[t] = cur[t] \/ (pc'[t] = "dec" /\ cur'[t] = cur[t] + 1)

\* A thread in the loop agrees after a step of it.
LEMMA LoopThread ==
  ASSUME SInv, NEW t \in Threads, Loops(t)
  PROVE  ThreadAgrees(t)' /\ Held(t)' = cur'[t]
<1> USE DEF Loops
<1>1. /\ cur[t] \in Nat /\ new[t] \in Nat /\ tss[t] \in Nat /\ wp.ts \in Nat /\ wp.off \in Nat
      /\ wp.bit \in 0 .. 1
      /\ LocalsAgree(t) /\ PointersAgree(t) /\ CursorAgrees(t) /\ WorldsAgree(t)
  BY Types DEF ThreadAgrees
<1>2. /\ tss[t] # 0 /\ Held(t) = cur[t] /\ tss[t] <= cur[t] /\ Held(t)' = cur'[t]
      /\ op[t] \in {"checkin", "unregister"} /\ cur'[t] \in Nat /\ cur[t] <= cur'[t]
  BY <1>1 DEF LocalsAgree, InLoop, CheckinPcs, Held
<1>3. LocalsAgree(t)'
  <2>1. tss[t] <= new[t]
    BY <1>1, <1>2
  <2>2. pc'[t] = "dec" => tss[t] <= cur'[t] /\ cur'[t] <= new[t] + 1
    BY <1>1, <1>2
  <2> QED
    BY <1>2, <2>1, <2>2 DEF LocalsAgree
<1>4. PointersAgree(t)'
  BY <1>1 DEF PointersAgree
<1>5. CursorAgrees(t)'
  <2>1. new[t] + 1 <= wp.ts + wp.bit /\ new[t] <= wp.ts /\ wp.off <= cur[t]
    BY <1>1, <1>2 DEF CursorAgrees, BitIsSet, InCheckin, InLoop, CheckinPcs
  <2>2. Cursor(t)' <= wp.ts + wp.bit /\ wp.off <= Held(t)'
    BY <1>1, <1>2, <2>1
  <2>3. ~ Filing(t)' /\ pc'[t] # "retain"
    BY DEF Filing
  <2> QED
    BY <2>1, <2>2, <2>3 DEF CursorAgrees
<1>6. WorldsAgree(t)'
  <2>1. owp[t].ts # 0 /\ \A T \in cur[t] .. new[t] : Agrees(owp[t], T)
    BY <1>1, <1>2 DEF WorldsAgree, KeepsOwp
  <2>2. \A T \in Held(t)' .. new[t] : T \in cur[t] .. new[t]
    BY <1>1, <1>2
  <2>3. \A T \in Held(t)' .. new[t] : Agrees(owp[t], T)'
    BY <2>1, <2>2 DEF Agrees
  <2>4. ~ Filing(t)'
    BY DEF Filing
  <2> QED
    BY <2>1, <2>3, <2>4 DEF WorldsAgree
<1>7. PrivateIsInitial(t)' /\ CopyAgrees(t)'
  BY CallerHasNoCopy DEF InLoop
<1> QED
  BY <1>2, <1>3, <1>4, <1>5, <1>6, <1>7 DEF ThreadAgrees

\* Entries change in the storages of the world only, and the usage bit of a
\* timestamp that somebody is about to make the current one is not cleared.
LEMMA LoopSound ==
  ASSUME SInv, NEW t \in Threads, Loops(t),
         \A s \in Storages \ StoragesOf(wp) : rc'[s] = rc[s] /\ list'[s] = list[s],
         \A u \in Threads \ {t} :
            u \in cfresh /\ pc[u] = "cas" /\ Index(mine[u].ts) \in bits[StorageOf(mine[u], mine[u].ts)]
                => Index(mine[u].ts) \in bits'[StorageOf(mine[u], mine[u].ts)]
  PROVE  /\ ThreadsAgree' /\ WorldCounts' /\ RaisersAgree'
         /\ Registered' = Registered
         /\ \A u \in Threads \ {t} : Held(u)' = Held(u) /\ Cursor(u)' = Cursor(u)
         /\ \A T \in Nat \ {cur[t]} : Awaited(T)' = Awaited(T) /\ Holders(T)' = Holders(T)
         /\ \A T : T = cur[t] =>
               /\ Awaited(T)' = Awaited(T) \ {t}
               /\ Holders(T)' = IF cur'[t] = cur[t] THEN Holders(T) ELSE Holders(T) \ {t}
         /\ \A u \in Threads : \A T : Raiser(u, T)' = Raiser(u, T)
<1>1. ThreadAgrees(t)' /\ Held(t)' = cur'[t] /\ Cursor(t)' = cur[t] + 1
  BY LoopThread DEF Loops
<1>2. /\ cur[t] \in Nat /\ cur'[t] \in {cur[t], cur[t] + 1}
      /\ Held(t) = cur[t] /\ Cursor(t) \in {cur[t], cur[t] + 1} /\ tss[t] # 0
      /\ tss' = tss /\ wp' = wp
  BY Types, TouchedSlot DEF Loops, Cursor, InLoop
<1>3. \A u \in Threads \ {t} : Stays(u)
  BY DEF Loops, Stays
<1>4. /\ \A u \in Threads \ {t} : ThreadAgrees(u)'
      /\ Registered' = Registered /\ WorldCounts'
      /\ \A u \in Threads \ {t} : Held(u)' = Held(u) /\ Cursor(u)' = Cursor(u)
  <2>1. Held(t)' \in Nat /\ Held(t) <= Held(t)'
    BY <1>1, <1>2
  <2>2. cfresh' = cfresh /\ ofresh' = ofresh
    BY DEF Loops
  <2> QED
    BY <1>2, <1>3, <2>1, <2>2, OthersStay
<1>5. ThreadsAgree'
  BY <1>1, <1>4 DEF ThreadsAgree
<1>6. RaisersAgree' /\ \A u \in Threads : \A T : Raiser(u, T)' = Raiser(u, T)
  <2>1. \A u \in Threads : (pc'[u] = "retain" <=> pc[u] = "retain") /\ cwp'[u] = cwp[u]
    BY DEF Loops, InLoop
  <2> QED
    BY <2>1 DEF SInv, Sound, RaisersAgree, Raiser
<1>7. ASSUME NEW T \in Nat \ {cur[t]} PROVE Awaited(T)' = Awaited(T) /\ Holders(T)' = Holders(T)
  <2>1. /\ (Cursor(t)' <= T) = (Cursor(t) <= T)
        /\ (Held(t)' <= T) = (Held(t) <= T)
    BY <1>1, <1>2
  <2> QED
    BY <1>2, <1>4, <2>1 DEF Awaited, Holders, Registered
<1>8. ASSUME NEW T, T = cur[t]
      PROVE  /\ Awaited(T)' = Awaited(T) \ {t}
             /\ Holders(T)' = IF cur'[t] = cur[t] THEN Holders(T) ELSE Holders(T) \ {t}
  <2>1. ~ (Cursor(t)' <= T) /\ Held(t) <= T /\ (Held(t)' <= T <=> cur'[t] = cur[t])
    BY <1>1, <1>2, <1>8
  <2>2. Awaited(T)' = Awaited(T) \ {t}
    BY <1>2, <1>4, <2>1 DEF Awaited, Registered
  <2>3. CASE cur'[t] = cur[t]
    BY <1>2, <1>4, <2>1, <2>2, <2>3 DEF Holders, Registered
  <2>4. CASE cur'[t] # cur[t]
    BY <1>2, <1>4, <2>1, <2>2, <2>4 DEF Holders, Registered
  <2> QED
    BY <2>3, <2>4
<1> QED
  BY <1>4, <1>5, <1>6, <1>7, <1>8

\* The entries of the other timestamps stay as they are.
LEMMA LoopEntryKept ==
  ASSUME SInv, NEW t \in Threads, Loops(t), NEW T \in Slots(wp), T # cur[t],
         \A X \in Nat \ {cur[t]} : Awaited(X)' = Awaited(X) /\ Holders(X)' = Holders(X),
         \A u \in Threads : \A X : Raiser(u, X)' = Raiser(u, X),
         EntryOf(rc', wp, T) = EntryOf(rc, wp, T), EntryOf(list', wp, T) = EntryOf(list, wp, T),
         Index(T) \in bits[StorageOf(wp, T)] => Index(T) \in bits'[StorageOf(wp, T)]
  PROVE  EntryIsRight(T)'
<1>1. T \in Nat /\ EntryIsRight(T) /\ wp' = wp /\ cwp' = cwp
  BY Types, SlotStorage DEF SInv, Sound, EntriesAreRight, Loops
<1> QED
  BY <1>1, EntryKept

-----------------------------------------------------------------------------

\* The list of an entry is taken off.
LEMMA CheckinSnipSound ==
  ASSUME SInv, NEW t \in Threads, CheckinSnip(t) PROVE Sound'
<1> PICK T0 : T0 = cur[t]
  OBVIOUS
<1>0. Empties(t) /\ cur[t] <= new[t]
  BY Types DEF CheckinSnip, Empties, CallIsConsistent
<1>1. /\ pc[t] = "snip" /\ pc'[t] = "clear" /\ InLoop(t)
      /\ UNCHANGED <<wp, bits, rc, cur>>
      /\ list' = UpdateEntry(list, owp[t], T0, {})
      /\ \A u \in Threads \ {t} : pc'[u] = pc[u] /\ cur'[u] = cur[u]
      /\ Loops(t)
  BY <1>0, Domains DEF CheckinSnip, Goto, calls, freeing, Loops, InLoop, Cursor
<1>2. /\ T0 \in Slots(wp) /\ T0 \in 1 .. wp.ts /\ T0 \in Nat
      /\ StorageOf(owp[t], T0) = StorageOf(wp, T0) /\ EntryIsRight(T0)
  BY <1>0, <1>1, TouchedSlot
<1>3. list' = UpdateEntry(list, wp, T0, {})
  BY <1>1, <1>2, UpdateWhere
<1>4. /\ EntryOf(list', wp, T0) = {}
      /\ \A X \in Slots(wp) \ {T0} : EntryOf(list', wp, X) = EntryOf(list, wp, X)
      /\ \A s \in Storages \ StoragesOf(wp) : list'[s] = list[s]
  BY <1>2, <1>3, ListChanges
<1>5. /\ ThreadsAgree' /\ WorldCounts' /\ RaisersAgree'
      /\ \A T \in Nat \ {cur[t]} : Awaited(T)' = Awaited(T) /\ Holders(T)' = Holders(T)
      /\ Awaited(T0)' = Awaited(T0) \ {t} /\ Holders(T0)' = Holders(T0)
      /\ \A u \in Threads : \A T : Raiser(u, T)' = Raiser(u, T)
  BY <1>1, <1>4, LoopSound
<1>6. EmptiersAgree /\ Awaited(T0) = {} /\ Awaited(T0)' = {}
  BY <1>0, <1>5 DEF SInv, Sound, EmptiersAgree
<1>7. EntriesAreRight'
  <2> SUFFICES ASSUME NEW T \in Slots(wp) PROVE EntryIsRight(T)'
    BY <1>1 DEF EntriesAreRight
  <2>1. CASE T # T0
    BY <1>1, <1>4, <1>5, <2>1, LoopEntryKept
  <2>2. CASE T = T0
    <3>1. /\ EntryOf(rc, wp, T0)' = EntryOf(rc, wp, T0) /\ EntryOf(list, wp, T0)' = {}
          /\ wp' = wp /\ bits' = bits /\ StorageOf(wp, T0)' = StorageOf(wp, T0)
      BY <1>1, <1>4 DEF EntryOf
    <3>2. \A u \in Threads : cwp'[u] = cwp[u]
      BY <1>1 DEF Loops
    <3> QED
      BY <1>2, <1>5, <1>6, <2>2, <3>1, <3>2 DEF EntryIsRight
  <2> QED
    BY <2>1, <2>2
<1>8. EmptiersAgree'
  <2>1. \A u \in Threads : (Empties(u)' <=> Empties(u)) /\ cur'[u] = cur[u]
    BY <1>1, <1>0 DEF Empties
  <2>2. \A u \in Threads : Empties(u) => cur[u] \in Nat /\ Awaited(cur[u]) = {}
    BY <1>6, Types DEF EmptiersAgree
  <2>3. \A X \in Nat : Awaited(X) = {} => Awaited(X)' = {}
    BY <1>5
  <2>4. \A u \in Threads : \A X : X = cur[u] /\ Empties(u) => Awaited(X)' = {}
    BY <2>2, <2>3
  <2>5. ASSUME NEW u \in Threads, pc'[u] = "clear" PROVE EntryOf(list', wp, cur[u]) = {}
    <3>1. CASE u = t
      BY <1>4, <3>1
    <3>2. CASE u # t
      <4>1. pc[u] = "clear" /\ EntryOf(list, wp, cur[u]) = {} /\ cur[u] \in Slots(wp)
        BY <1>1, <1>6, <2>5, <3>2, EmptierSlot DEF EmptiersAgree, Empties
      <4> QED
        BY <1>4, <4>1
    <3> QED
      BY <3>1, <3>2
  <2> QED
    BY <1>1, <1>6, <2>1, <2>4, <2>5 DEF EmptiersAgree
<1> QED
  BY <1>5, <1>7, <1>8 DEF Sound

\* What is still held, when nobody awaits it, one emptier holds.
LEMMA EmptierHolds ==
  ASSUME SInv, NEW t \in Threads, Empties(t)
  PROVE  Holders(cur[t]) = {t} /\ Awaited(cur[t]) = {}
<1>1. Awaited(cur[t]) = {} /\ cur[t] \in Nat /\ cur[t] <= new[t] /\ InLoop(t)
  BY Types DEF SInv, Sound, EmptiersAgree, Empties, CallIsConsistent, InLoop
<1>2. t \in Holders(cur[t])
  BY <1>1, TouchedSlot
<1>3. ASSUME NEW v \in Holders(cur[t]) PROVE v = t
  <2>1. v \in Threads /\ Held(v) <= cur[t] /\ ~ (Cursor(v) <= cur[t])
        /\ Held(v) \in Nat /\ Cursor(v) \in Nat /\ cur[v] \in Nat
    BY <1>1, Types DEF Holders, Awaited, Registered
  <2>2. Empties(v) /\ cur[v] = cur[t]
    BY <1>1, <2>1 DEF Held, Cursor, InLoop, Empties
  <2> QED
    BY <2>1, <2>2 DEF SInv, Sound, EmptiersAgree
<1> QED
  BY <1>1, <1>2, <1>3

\* The entry of a timestamp about to be made the current one is not the one
\* of a timestamp that is held.
LEMMA NextSlotIsAnother ==
  ASSUME SInv, NEW T0 \in Slots(wp), T0 \in 1 .. wp.ts, NEW t \in Threads, t \in Holders(T0),
         NEW u \in Threads, u \in cfresh, pc[u] = "cas",
         Index(mine[u].ts) \in bits[StorageOf(mine[u], mine[u].ts)]
  PROVE  ~ (StorageOf(mine[u], mine[u].ts) = StorageOf(wp, T0) /\ Index(mine[u].ts) = Index(T0))
<1> PICK X : X = mine[u].ts
  OBVIOUS
<1> SUFFICES ASSUME StorageOf(mine[u], X) = StorageOf(wp, T0), Index(X) = Index(T0) PROVE FALSE
  OBVIOUS
<1>1. /\ SameWorld(cwp[u], wp) /\ CopyAgrees(u) /\ wp.ts \in Nat /\ mine[u] \in WorldType
      /\ wp \in WorldType /\ Distinct(wp.st) /\ wp.off % N = 0
  BY Types DEF ThreadAgrees, PointersAgree
<1>2. /\ X = wp.ts + 1 /\ Continues(cwp[u], mine[u], own[u])
      /\ \A v \in Registered : mine[u].off <= Held(v)
  BY <1>1 DEF CopyAgrees, SameWorld
<1>3. /\ Slots(cwp[u]) = Slots(wp)
      /\ \A T : StorageOf(cwp[u], T) = StorageOf(wp, T)
  BY <1>1 DEF SameWorld, Slots, StorageOf, StorageIndex
<1>4. X \in Slots(mine[u]) /\ mine[u].off <= X /\ (own[u] # None => own[u] \notin StoragesOf(wp))
  <2>1. cwp[u].st = wp.st
    BY <1>1 DEF SameWorld
  <2>2. X \in Slots(mine[u]) /\ (own[u] # None => own[u] \notin StoragesOf(wp))
    BY <2>1, CopyStorages
  <2> QED
    BY <1>1, <2>2, SlotStorage
<1>5. CASE X \in Slots(wp)
  <2>1. StorageOf(mine[u], X) = StorageOf(wp, X)
    BY <1>2, <1>3, <1>4, <1>5 DEF Continues
  <2>2. X = T0
    BY <1>1, <1>5, <2>1, SlotsAreDistinct
  <2> QED
    BY <1>1, <1>2, <2>2
<1>6. CASE X \notin Slots(wp)
  <2>1. StorageOf(wp, T0) \in StoragesOf(wp)
    BY <1>1, SlotStorage
  <2>2. PICK Y \in Slots(wp) : Y < mine[u].off /\ Index(Y) = Index(T0) /\ StorageOf(wp, Y) = StorageOf(wp, T0)
    BY <1>2, <1>3, <1>4, <1>6, <2>1 DEF Continues
  <2>3. Y = T0
    BY <1>1, <2>2, SlotsAreDistinct
  <2>4. /\ t \in Registered /\ Held(t) <= T0 /\ Held(t) \in Nat /\ mine[u].off \in Nat /\ T0 \in Nat
        /\ mine[u].off <= Held(t)
    BY SMTT(30), <1>1, <1>2, Types, Sizes DEF Holders
  <2> QED
    BY <2>2, <2>3, <2>4
<1> QED
  BY <1>5, <1>6

\* The entry is given back.
LEMMA CheckinClearSound ==
  ASSUME SInv, NEW t \in Threads, CheckinClear(t) PROVE Sound'
<1> PICK T0 : T0 = cur[t]
  OBVIOUS
<1> PICK s, x : s = StorageOf(wp, T0) /\ x = Index(T0)
  OBVIOUS
<1>0. Empties(t) /\ cur[t] <= new[t] /\ InLoop(t) /\ cur[t] \in Nat
  BY Types DEF CheckinClear, Empties, CallIsConsistent, InLoop
<1>1. /\ pc[t] = "clear" /\ pc'[t] = "dec" /\ cur'[t] = T0 + 1
      /\ UNCHANGED <<wp, rc, list>>
      /\ bits' = Cleared(owp[t], T0)
      /\ \A u \in Threads \ {t} : pc'[u] = pc[u] /\ cur'[u] = cur[u]
      /\ Loops(t)
  BY <1>0, Domains DEF CheckinClear, Goto, freeing, Loops, Cursor
<1>2. /\ T0 \in Slots(wp) /\ T0 \in 1 .. wp.ts /\ T0 \in Nat /\ t \in Holders(T0)
      /\ StorageOf(owp[t], T0) = StorageOf(wp, T0) /\ EntryIsRight(T0)
  BY <1>0, <1>1, TouchedSlot
<1>3. /\ wp \in WorldType /\ Distinct(wp.st) /\ wp.off % N = 0
      /\ bits \in [Storages -> SUBSET Indices] /\ s \in Storages
  BY <1>2, Types, SlotStorage
<1>4. bits' = [bits EXCEPT ![s] = @ \ {x}]
  BY <1>1, <1>2 DEF Cleared
<1>5. \A r, y : r \in Storages /\ y \in bits[r] /\ ~ (r = s /\ y = x) => y \in bits'[r]
  BY <1>3, <1>4
<1>6. /\ ThreadsAgree' /\ WorldCounts' /\ RaisersAgree'
      /\ \A T \in Nat \ {cur[t]} : Awaited(T)' = Awaited(T) /\ Holders(T)' = Holders(T)
      /\ Awaited(T0)' = Awaited(T0) \ {t} /\ Holders(T0)' = Holders(T0) \ {t}
      /\ \A u \in Threads : \A T : Raiser(u, T)' = Raiser(u, T)
  <2>1. ASSUME NEW u \in Threads \ {t}, u \in cfresh, pc[u] = "cas",
               Index(mine[u].ts) \in bits[StorageOf(mine[u], mine[u].ts)]
        PROVE  Index(mine[u].ts) \in bits'[StorageOf(mine[u], mine[u].ts)]
    <3>1. ~ (StorageOf(mine[u], mine[u].ts) = s /\ Index(mine[u].ts) = x)
      BY <1>2, <2>1, NextSlotIsAnother
    <3>2. StorageOf(mine[u], mine[u].ts) \in Storages
      <4>1. cwp[u].st = wp.st
        BY <2>1, Types DEF ThreadAgrees, PointersAgree, SameWorld
      <4> QED
        BY <2>1, <4>1, CopyStorages
    <3> QED
      BY <1>5, <2>1, <3>1, <3>2
  <2>2. \A r \in Storages \ StoragesOf(wp) : rc'[r] = rc[r] /\ list'[r] = list[r]
    BY <1>1
  <2>3. cur'[t] # cur[t]
    BY <1>0, <1>1
  <2> QED
    BY <1>1, <2>1, <2>2, <2>3, LoopSound
<1>7. /\ Awaited(T0) = {} /\ Holders(T0) = {t} /\ EntryOf(list, wp, T0) = {} /\ EmptiersAgree
  BY <1>0, <1>1, EmptierHolds DEF SInv, Sound, EmptiersAgree
<1>8. EntriesAreRight'
  <2> SUFFICES ASSUME NEW T \in Slots(wp) PROVE EntryIsRight(T)'
    BY <1>1 DEF EntriesAreRight
  <2>1. CASE T # T0
    <3>1. StorageOf(wp, T) \in Storages /\ ~ (StorageOf(wp, T) = s /\ Index(T) = x)
      BY <1>2, <1>3, <2>1, SlotStorage, SlotsAreDistinct
    <3>2. Index(T) \in bits[StorageOf(wp, T)] => Index(T) \in bits'[StorageOf(wp, T)]
      BY <1>5, <3>1
    <3>3. EntryOf(rc', wp, T) = EntryOf(rc, wp, T) /\ EntryOf(list', wp, T) = EntryOf(list, wp, T)
      BY <1>1
    <3> QED
      BY <1>1, <1>6, <2>1, <3>2, <3>3, LoopEntryKept
  <2>2. CASE T = T0
    <3>1. /\ EntryOf(rc, wp, T0)' = EntryOf(rc, wp, T0) /\ EntryOf(list, wp, T0)' = {}
          /\ wp' = wp /\ StorageOf(wp, T0)' = StorageOf(wp, T0)
      BY <1>1, <1>7 DEF EntryOf
    <3>2. \A u \in Threads : cwp'[u] = cwp[u]
      BY <1>1 DEF Loops
    <3>3. Awaited(T0)' = Awaited(T0) /\ Holders(T0)' = {}
      BY <1>6, <1>7
    <3> QED
      BY <1>2, <1>6, <1>7, <2>2, <3>1, <3>2, <3>3 DEF EntryIsRight
  <2> QED
    BY <2>1, <2>2
<1>9. EmptiersAgree'
  <2>1. \A u \in Threads : Empties(u)' => Empties(u) /\ cur'[u] = cur[u] /\ u # t /\ pc'[u] = pc[u]
    BY <1>1 DEF Empties
  <2>2. \A u \in Threads : Empties(u) => cur[u] \in Nat /\ Awaited(cur[u]) = {}
    BY <1>7, Types DEF EmptiersAgree
  <2>3. \A X \in Nat : Awaited(X) = {} => Awaited(X)' = {}
    BY <1>6
  <2>4. \A u \in Threads : \A X : X = cur[u] /\ Empties(u) => Awaited(X)' = {}
    BY <2>2, <2>3
  <2>5. \A u \in Threads : pc'[u] = "clear" => EntryOf(list', wp, cur[u]) = {}
    BY <1>1, <1>7, <2>1 DEF EmptiersAgree
  <2> QED
    BY <1>1, <1>7, <2>1, <2>4, <2>5 DEF EmptiersAgree, Empties
<1> QED
  BY <1>6, <1>8, <1>9 DEF Sound

\* Whoever is awaited holds the entry.
LEMMA AwaitedHold ==
  ASSUME SInv, NEW T \in Nat PROVE Awaited(T) \subseteq Holders(T)
<1>1. \A u \in Registered : Held(u) \in Nat /\ Cursor(u) \in Nat /\ Held(u) <= Cursor(u)
  BY Types DEF Registered
<1> QED
  BY <1>1 DEF Awaited, Holders

\* What the retain count that a checkin takes away tells it.
LEMMA CountTells ==
  ASSUME SInv, NEW t \in Threads, NEW T0 \in Slots(wp), T0 \in 1 .. wp.ts, T0 \in Nat,
         t \in Awaited(T0), pc[t] = "dec"
  PROVE  /\ EntryOf(rc, wp, T0) \in Int
         /\ IsFiniteSet(Awaited(T0)) /\ Cardinality(Awaited(T0)) \in Nat
         /\ Cardinality(Awaited(T0) \ {t}) = Cardinality(Awaited(T0)) - 1
         /\ EntryOf(rc, wp, T0) = 0 =>
               /\ \A u \in Threads : ~ Raiser(u, T0)
               /\ Awaited(T0) = {t} /\ Cardinality(Awaited(T0)) = 1
         /\ EntryOf(rc, wp, T0) # 0 => Holders(T0) \ {t} # {}
<1>1. /\ EntryOf(rc, wp, T0) \in Int /\ EntryIsRight(T0)
      /\ IsFiniteSet(Awaited(T0)) /\ Cardinality(Awaited(T0)) \in Nat
      /\ Awaited(T0) \subseteq Holders(T0)
  BY EntryType, AwaitedFinite, AwaitedHold DEF SInv, Sound, EntriesAreRight
<1>2. Cardinality(Awaited(T0) \ {t}) = Cardinality(Awaited(T0)) - 1
  BY <1>1, FS_RemoveElement
<1>3. Cardinality(Awaited(T0)) = 1 => Awaited(T0) = {t}
  <2>1. IsFiniteSet(Awaited(T0) \ {t})
    BY <1>1, FS_RemoveElement
  <2>2. Cardinality(Awaited(T0)) = 1 => Awaited(T0) \ {t} = {}
    BY <1>1, <1>2, <2>1, FS_EmptySet
  <2> QED
    BY <2>2
<1>4. \A u \in Threads : cwp[u].nt \in Nat
  BY Types, Fields
<1>5. EntryOf(rc, wp, T0) = 0 => \A u \in Threads : ~ Raiser(u, T0)
  BY <1>1, <1>4 DEF EntryIsRight
<1>6. EntryOf(rc, wp, T0) = 0 => Cardinality(Awaited(T0)) = 1
  BY <1>1, <1>5 DEF EntryIsRight
<1>7. ASSUME EntryOf(rc, wp, T0) # 0 PROVE Holders(T0) \ {t} # {}
  <2>1. CASE \A u \in Threads : ~ Raiser(u, T0)
    <3>1. Cardinality(Awaited(T0)) # 1
      BY <1>1, <1>7, <2>1 DEF EntryIsRight
    <3>2. Awaited(T0) # {t}
      BY <3>1, FS_Singleton
    <3> QED
      BY <1>1, <3>2
  <2>2. CASE \E u \in Threads : Raiser(u, T0)
    <3>1. PICK u \in Threads : Raiser(u, T0)
      BY <2>2
    <3>2. u \in Holders(T0) /\ u # t
      BY <3>1, FiledSlot DEF Raiser, Filing
    <3> QED
      BY <3>2
  <2> QED
    BY <2>1, <2>2
<1> QED
  BY <1>1, <1>2, <1>3, <1>5, <1>6, <1>7

\* A thread checks in for a timestamp.
LEMMA CheckinDecrementSound ==
  ASSUME SInv, NEW t \in Threads, CheckinDecrement(t) PROVE Sound'
<1> PICK T0 : T0 = cur[t]
  OBVIOUS
<1> PICK c : c = EntryOf(rc, wp, T0)
  OBVIOUS
<1>0. pc[t] = "dec" /\ cur[t] <= new[t] /\ InLoop(t) /\ cur[t] \in Nat /\ ~ Empties(t)
  BY Types DEF CheckinDecrement, InLoop, Empties
<1>1. /\ T0 \in Slots(wp) /\ T0 \in 1 .. wp.ts /\ T0 \in Nat /\ t \in Holders(T0)
      /\ StorageOf(owp[t], T0) = StorageOf(wp, T0) /\ EntryIsRight(T0) /\ tss[t] # 0
  BY <1>0, TouchedSlot
<1>2. t \in Awaited(T0)
  BY <1>0, <1>1 DEF Awaited, Registered, Cursor
<1>3. /\ UNCHANGED <<wp, bits, list>>
      /\ rc' = UpdateEntry(rc, wp, T0, c - 1)
      /\ c = 0 => pc'[t] = "snip" /\ cur'[t] = cur[t]
      /\ c # 0 => pc'[t] = "dec" /\ cur'[t] = cur[t] + 1
      /\ \A u \in Threads \ {t} : pc'[u] = pc[u] /\ cur'[u] = cur[u]
  <2>1. EntryOf(rc, owp[t], T0) = c /\ \A v : UpdateEntry(rc, owp[t], T0, v) = UpdateEntry(rc, wp, T0, v)
    BY <1>1, UpdateWhere
  <2>2. /\ UNCHANGED <<wp, bits, list>>
        /\ rc' = UpdateEntry(rc, wp, T0, c - 1)
        /\ c = 0 => pc' = [pc EXCEPT ![t] = "snip"] /\ cur' = cur
        /\ c # 0 => pc' = pc /\ cur' = [cur EXCEPT ![t] = @ + 1]
    BY <2>1 DEF CheckinDecrement, Goto
  <2> QED
    BY <1>0, <2>2, Domains
<1>4. Loops(t)
  <2>1. UNCHANGED <<wp, pool, tss, op, new, owp, ofresh, cwp, cfresh, kind, mine, own, i>>
    BY DEF CheckinDecrement, freeing
  <2>2. Cursor(t)' = cur[t] + 1
    BY <1>3 DEF Cursor
  <2> QED
    BY <1>0, <1>3, <2>1, <2>2 DEF Loops
<1>5. /\ c \in Int /\ c - 1 \in Int
      /\ IsFiniteSet(Awaited(T0)) /\ Cardinality(Awaited(T0)) \in Nat
      /\ Cardinality(Awaited(T0) \ {t}) = Cardinality(Awaited(T0)) - 1
      /\ c = 0 => /\ \A u \in Threads : ~ Raiser(u, T0)
                  /\ Awaited(T0) = {t} /\ Cardinality(Awaited(T0)) = 1
      /\ c # 0 => Holders(T0) \ {t} # {}
  BY <1>0, <1>1, <1>2, CountTells
<1>6. /\ EntryOf(rc', wp, T0) = c - 1
      /\ \A X \in Slots(wp) \ {T0} : EntryOf(rc', wp, X) = EntryOf(rc, wp, X)
      /\ \A s \in Storages \ StoragesOf(wp) : rc'[s] = rc[s]
  BY <1>1, <1>3, <1>5, CountChanges
<1>7. /\ ThreadsAgree' /\ WorldCounts' /\ RaisersAgree'
      /\ \A T \in Nat \ {cur[t]} : Awaited(T)' = Awaited(T) /\ Holders(T)' = Holders(T)
      /\ Awaited(T0)' = Awaited(T0) \ {t}
      /\ Holders(T0)' = IF cur'[t] = cur[t] THEN Holders(T0) ELSE Holders(T0) \ {t}
      /\ \A u \in Threads : \A T : Raiser(u, T)' = Raiser(u, T)
  <2>1. \A s \in Storages \ StoragesOf(wp) : rc'[s] = rc[s] /\ list'[s] = list[s]
    BY <1>3, <1>6
  <2>2. \A u \in Threads \ {t} :
            u \in cfresh /\ pc[u] = "cas" /\ Index(mine[u].ts) \in bits[StorageOf(mine[u], mine[u].ts)]
                => Index(mine[u].ts) \in bits'[StorageOf(mine[u], mine[u].ts)]
    BY <1>3
  <2> QED
    BY <1>4, <2>1, <2>2, LoopSound
<1>8. Holders(T0)' # {}
  <2>1. CASE c = 0
    BY <1>1, <1>3, <1>7, <2>1
  <2>2. CASE c # 0
    BY <1>0, <1>3, <1>5, <1>7, <2>2
  <2> QED
    BY <2>1, <2>2
<1>9. EntriesAreRight'
  <2> SUFFICES ASSUME NEW T \in Slots(wp) PROVE EntryIsRight(T)'
    BY <1>3 DEF EntriesAreRight
  <2>1. CASE T # T0
    <3>1. EntryOf(rc', wp, T) = EntryOf(rc, wp, T) /\ EntryOf(list', wp, T) = EntryOf(list, wp, T)
          /\ (Index(T) \in bits[StorageOf(wp, T)] => Index(T) \in bits'[StorageOf(wp, T)])
      BY <1>3, <1>6, <2>1
    <3> QED
      BY <1>4, <1>7, <2>1, <3>1, LoopEntryKept
  <2>2. CASE T = T0
    <3>1. /\ EntryOf(rc, wp, T0)' = c - 1 /\ wp' = wp /\ bits' = bits
          /\ StorageOf(wp, T0)' = StorageOf(wp, T0)
      BY <1>3, <1>6 DEF EntryOf
    <3>2. \A u \in Threads : cwp'[u] = cwp[u] /\ cwp[u].nt \in Nat
      BY <1>4, Types, Fields DEF Loops
    <3>3. Cardinality(Awaited(T0)') = Cardinality(Awaited(T0)) - 1
      BY <1>5, <1>7
    <3>4. Index(T0) \in bits[StorageOf(wp, T0)]
      BY <1>1 DEF EntryIsRight
    <3>5. (\A u \in Threads : ~ Raiser(u, T0)) => c = Cardinality(Awaited(T0)) - 1
      BY <1>1 DEF EntryIsRight
    <3>6. \A u \in Threads : Raiser(u, T0) =>
              c + cwp[u].nt = Cardinality(Awaited(T0)) - 1 /\ Cardinality(Awaited(T0)) <= cwp[u].nt
      BY <1>1 DEF EntryIsRight
    <3>7. (\A u \in Threads : ~ Raiser(u, T0)') => EntryOf(rc, wp, T0)' = Cardinality(Awaited(T0)') - 1
      BY <1>5, <1>7, <3>1, <3>3, <3>5
    <3>8. \A u \in Threads : Raiser(u, T0)' =>
              /\ EntryOf(rc, wp, T0)' + cwp'[u].nt = Cardinality(Awaited(T0)') - 1
              /\ Cardinality(Awaited(T0)') <= cwp'[u].nt
      BY <1>5, <1>7, <3>1, <3>2, <3>3, <3>6
    <3> QED
      BY <1>1, <1>8, <2>2, <3>1, <3>4, <3>7, <3>8 DEF EntryIsRight
  <2> QED
    BY <2>1, <2>2
<1>10. EmptiersAgree'
  <2>0. EmptiersAgree
    BY DEF SInv, Sound
  <2>1. \A u \in Threads \ {t} : (Empties(u)' <=> Empties(u)) /\ cur'[u] = cur[u] /\ pc'[u] = pc[u]
    BY <1>3 DEF Empties
  <2>2. \A u \in Threads : Empties(u) => cur[u] \in Nat /\ Awaited(cur[u]) = {}
    BY <2>0, Types DEF EmptiersAgree
  <2>3. \A X \in Nat : Awaited(X) = {} => Awaited(X)' = {}
    BY <1>7
  <2>4. \A u \in Threads \ {t} : \A X : X = cur[u] /\ Empties(u) => Awaited(X)' = {}
    BY <2>2, <2>3
  <2>5. Empties(t)' => c = 0 /\ cur'[t] = T0 /\ pc'[t] = "snip" /\ Awaited(T0)' = {}
    BY <1>3, <1>5, <1>7 DEF Empties
  <2>6. \A u \in Threads : pc'[u] = "clear" => EntryOf(list', wp, cur[u]) = {} /\ cur'[u] = cur[u]
    BY <1>3, <2>0, <2>1 DEF EmptiersAgree
  <2>7. \A u \in Threads : Empties(u)' => Awaited(cur[u])' = {}
    BY <2>1, <2>4, <2>5
  <2>8. \A u \in Threads : pc'[u] = "clear" => EntryOf(list, wp, cur[u])' = {}
    BY <1>3, <2>6
  <2>9. \A u \in Threads \ {t} : Empties(u)' => cur'[u] # T0
    BY <1>2, <2>1, <2>2
  <2>10. \A u, v \in Threads : Empties(u)' /\ Empties(v)' /\ cur'[u] = cur'[v] => u = v
    BY <2>0, <2>1, <2>5, <2>9 DEF EmptiersAgree
  <2> QED
    BY <2>7, <2>8, <2>10 DEF EmptiersAgree
<1> QED
  BY <1>7, <1>9, <1>10 DEF Sound

-----------------------------------------------------------------------------
(* Joining and leaving.                                                    *)

\* A world with another number of threads and the bit set.
LEMMA MembersCounted ==
  ASSUME NEW world \in WorldType, NEW n \in Int
  PROVE  /\ [world EXCEPT !.nt = n, !.bit = 1, !.lock = 0].ts = world.ts
         /\ [world EXCEPT !.nt = n, !.bit = 1, !.lock = 0].off = world.off
         /\ [world EXCEPT !.nt = n, !.bit = 1, !.lock = 0].st = world.st
         /\ [world EXCEPT !.nt = n, !.bit = 1, !.lock = 0].nt = n
         /\ [world EXCEPT !.nt = n, !.bit = 1, !.lock = 0].bit = 1
BY DEF WorldType

\* A thread joins or leaves: it awaits no timestamp that was raised already.
LEMMA MembersChange ==
  ASSUME SInv, NEW t \in Threads, ThreadAgrees(t)', WorldCounts',
         \A u \in Threads \ {t} : Stays(u),
         UNCHANGED <<bits, rc, list>>, ofresh' = {}, cfresh' = {},
         wp'.ts = wp.ts, wp'.off = wp.off, wp'.st = wp.st, wp'.bit = 1,
         tss[t] = 0 \/ wp.ts < Held(t),
         tss'[t] = 0 \/ (Held(t)' \in Nat /\ Cursor(t)' \in Nat /\ wp.ts < Held(t)' /\ wp.ts < Cursor(t)'),
         pc[t] \notin {"retain", "snip", "clear"}, pc'[t] \notin {"retain", "snip", "clear"}
  PROVE  Sound'
<1>0. /\ wp \in WorldType /\ wp.ts \in Nat /\ wp.bit \in 0 .. 1 /\ wp.off \in Nat
      /\ Held(t) \in Nat /\ Cursor(t) \in Nat /\ Held(t) <= Cursor(t)
  BY Types
<1>1. /\ Slots(wp') = Slots(wp)
      /\ \A T : StorageOf(wp', T) = StorageOf(wp, T)
  BY DEF Slots, StorageOf, StorageIndex
<1>2. ThreadsAgree'
  <2> SUFFICES ASSUME NEW u \in Threads \ {t} PROVE ThreadAgrees(u)'
    BY DEF ThreadsAgree
  <2>1. Stays(u) /\ CursorAgrees(u)
    BY Types DEF ThreadAgrees
  <2>2. /\ wp'.ts \in Nat /\ wp'.bit \in 0 .. 1 /\ wp'.ts >= wp.ts
        /\ wp'.ts + wp'.bit >= wp.ts + wp.bit /\ wp'.off \in Nat
    BY <1>0
  <2>3. tss[u] # 0 => wp'.off <= Held(u)
    BY <2>1 DEF CursorAgrees
  <2>4. Keeps(wp, wp')
    BY <1>1 DEF Keeps
  <2>5. own[u] # None => rc'[own[u]] = rc[own[u]] /\ list'[own[u]] = list[own[u]]
    OBVIOUS
  <2> QED
    BY <2>1, <2>2, <2>3, <2>4, <2>5, OtherAgrees
<1>3. ASSUME NEW T \in 1 .. wp.ts PROVE Awaited(T)' = Awaited(T) /\ Holders(T)' = Holders(T)
  <2>1. \A u \in Threads \ {t} : tss'[u] = tss[u] /\ Held(u)' = Held(u) /\ Cursor(u)' = Cursor(u)
    BY SameThread DEF Stays
  <2>2. t \notin Awaited(T) /\ t \notin Holders(T)
    BY <1>0 DEF Awaited, Holders, Registered
  <2>3. t \notin Awaited(T)' /\ t \notin Holders(T)'
    BY <1>0 DEF Awaited, Holders, Registered
  <2>4. \A u \in Threads \ {t} :
            (u \in Awaited(T)' <=> u \in Awaited(T)) /\ (u \in Holders(T)' <=> u \in Holders(T))
    BY <2>1 DEF Awaited, Holders, Registered
  <2>5. /\ Awaited(T) \subseteq Threads /\ Awaited(T)' \subseteq Threads
        /\ Holders(T) \subseteq Threads /\ Holders(T)' \subseteq Threads
    BY DEF Awaited, Holders, Registered
  <2> QED
    BY <2>2, <2>3, <2>4, <2>5
<1>4. EntriesAreRight'
  <2> SUFFICES ASSUME NEW T \in Slots(wp) PROVE EntryIsRight(T)'
    BY <1>1 DEF EntriesAreRight
  <2>1. EntryIsRight(T)
    BY DEF SInv, Sound, EntriesAreRight
  <2>2. \A u \in Threads : Raiser(u, T)' = Raiser(u, T) /\ (Raiser(u, T) => cwp'[u].nt = cwp[u].nt)
    BY DEF Raiser, Stays
  <2>3. EntryOf(rc', wp, T) = EntryOf(rc, wp, T) /\ EntryOf(list', wp, T) = EntryOf(list, wp, T)
    OBVIOUS
  <2> QED
    BY <1>1, <1>3, <2>1, <2>2, <2>3, EntryKept
<1>5. RaisersAgree'
  <2>1. \A u \in Threads : pc'[u] = "retain" => pc[u] = "retain" /\ cwp'[u] = cwp[u]
    BY DEF Stays
  <2> QED
    BY <2>1 DEF SInv, Sound, RaisersAgree
<1>6. EmptiersAgree'
  <2>0. EmptiersAgree
    BY DEF SInv, Sound
  <2>1. \A u \in Threads : pc'[u] \in {"snip", "clear"} =>
            pc[u] = pc'[u] /\ cur'[u] = cur[u]
    BY DEF Stays
  <2>2. \A u \in Threads : Empties(u) => cur[u] \in 1 .. wp.ts /\ Awaited(cur[u]) = {}
    BY <2>0, EmptierSlot DEF EmptiersAgree
  <2>3. \A u \in Threads : \A X : X = cur[u] /\ Empties(u) => Awaited(X)' = {}
    BY <1>3, <2>2
  <2>4. \A u \in Threads : Empties(u)' => Awaited(cur[u])' = {}
    BY <2>1, <2>3 DEF Empties
  <2>5. \A u \in Threads : pc'[u] = "clear" => EntryOf(list', wp', cur'[u]) = {}
    BY <1>1, <2>0, <2>1 DEF EmptiersAgree, EntryOf
  <2> QED
    BY <2>0, <2>1, <2>4, <2>5 DEF EmptiersAgree, Empties
<1> QED
  BY <1>2, <1>4, <1>5, <1>6 DEF Sound

\* A registration.
LEMMA RegisterSwapSound ==
  ASSUME SInv, NEW t \in Threads, RegisterSwap(t), t \in ofresh /\ wp = owp[t] PROVE Sound'
<1>1. /\ pc[t] = "join" /\ tss[t] = 0 /\ new[t] = 0 /\ op[t] = "register" /\ wp.ts \in Nat
      /\ wp.off \in Nat /\ wp.off <= wp.ts /\ wp.nt \in Nat /\ wp \in WorldType
  BY Types, CurrentSlot DEF RegisterSwap, ThreadAgrees, LocalsAgree
<1>2. /\ wp' = [wp EXCEPT !.nt = @ + 1, !.bit = 1, !.lock = 0]
      /\ pc' = [pc EXCEPT ![t] = "drop"] /\ tss' = [tss EXCEPT ![t] = wp.ts + 1]
      /\ owp' = [owp EXCEPT ![t] = NoWorld] /\ ofresh' = {} /\ cfresh' = {}
      /\ UNCHANGED <<bits, rc, list, pool, op, new, cur, cwp, kind, mine, own, i>>
  BY <1>1 DEF RegisterSwap, Install, Goto, freeing
<1>3. /\ wp'.ts = wp.ts /\ wp'.off = wp.off /\ wp'.st = wp.st /\ wp'.nt = wp.nt + 1 /\ wp'.bit = 1
  <2> PICK n \in Int : n = wp.nt + 1
    BY <1>1
  <2>1. wp' = [wp EXCEPT !.nt = n, !.bit = 1, !.lock = 0] /\ wp \in WorldType
    BY <1>1, <1>2, Zenon
  <2>2. wp'.ts = wp.ts
    BY <2>1, MembersCounted, Zenon
  <2>3. wp'.off = wp.off
    BY <2>1, MembersCounted, Zenon
  <2>4. wp'.st = wp.st
    BY <2>1, MembersCounted, Zenon
  <2>5. wp'.nt = n
    BY <2>1, MembersCounted, Zenon
  <2>6. wp'.bit = 1
    BY <2>1, MembersCounted, Zenon
  <2> QED
    BY <2>2, <2>3, <2>4, <2>5, <2>6
<1>4. /\ pc'[t] = "drop" /\ tss'[t] = wp.ts + 1 /\ new'[t] = 0 /\ op'[t] = "register"
      /\ \A u \in Threads \ {t} : Stays(u)
  BY <1>1, <1>2, Domains DEF Stays
<1>5. Held(t)' = wp.ts + 1 /\ Cursor(t)' = wp.ts + 1
  BY <1>4 DEF Held, Cursor, InLoop
<1>6. ThreadAgrees(t)'
  <2>1. ~ InCheckin(t)' /\ ~ Filing(t)' /\ ~ InLoop(t)'
    BY <1>4 DEF InCheckin, Filing, InLoop, CheckinPcs
  <2>2. ~ BitIsSet(t)' /\ ~ KeepsOwp(t)'
    BY <2>1 DEF BitIsSet, KeepsOwp
  <2>3. LocalsAgree(t)'
    BY <1>1, <1>4, <2>1 DEF LocalsAgree, CheckinPcs
  <2>4. PointersAgree(t)'
    BY <1>2 DEF PointersAgree
  <2>5. CursorAgrees(t)'
    BY <1>1, <1>3, <1>4, <1>5, <2>1, <2>2 DEF CursorAgrees
  <2>6. WorldsAgree(t)'
    BY <2>1, <2>2 DEF WorldsAgree
  <2>7. PrivateIsInitial(t)' /\ CopyAgrees(t)'
    BY <1>1, <1>2, <1>4, CallerHasNoCopy
  <2> QED
    BY <2>3, <2>4, <2>5, <2>6, <2>7 DEF ThreadAgrees
<1>7. WorldCounts'
  <2>1. Registered' = Registered \cup {t} /\ t \notin Registered
    BY <1>1, <1>4 DEF Registered, Stays
  <2>2. Cardinality(Registered \cup {t}) = Cardinality(Registered) + 1
    BY <2>1, AwaitedFinite, FS_AddElement
  <2> QED
    BY <1>3, <2>1, <2>2 DEF SInv, Sound, WorldCounts
<1>8. Held(t)' \in Nat /\ Cursor(t)' \in Nat /\ wp.ts < Held(t)' /\ wp.ts < Cursor(t)'
  BY <1>1, <1>5
<1> QED
  BY <1>1, <1>2, <1>3, <1>4, <1>6, <1>7, <1>8, MembersChange

\* A thread leaves, and others stay.
LEMMA UnregisterSwapSound ==
  ASSUME SInv, NEW t \in Threads, UnregisterSwap(t), wp.nt > 1 PROVE Sound'
<1>1. /\ pc[t] = "leave" /\ tss[t] # 0 /\ new[t] < tss[t] /\ wp.ts = new[t] /\ wp.ts \in Nat
      /\ tss[t] \in Nat /\ Held(t) = tss[t] /\ wp.nt \in Nat /\ wp \in WorldType
  BY Types DEF UnregisterSwap, MayLeave, ThreadAgrees, LocalsAgree, Held, InLoop
<1>2. /\ wp' = [wp EXCEPT !.nt = @ - 1, !.bit = 1, !.lock = 0]
      /\ pc' = [pc EXCEPT ![t] = "idle"] /\ tss' = [tss EXCEPT ![t] = 0]
      /\ new' = [new EXCEPT ![t] = 0] /\ op' = [op EXCEPT ![t] = "none"]
      /\ owp' = [owp EXCEPT ![t] = NoWorld] /\ ofresh' = {} /\ cfresh' = {}
      /\ UNCHANGED <<bits, rc, list, pool, cur, cwp, kind, mine, own, i>>
  BY <1>1 DEF UnregisterSwap, Install, Goto, freeing
<1>3. /\ wp'.ts = wp.ts /\ wp'.off = wp.off /\ wp'.st = wp.st /\ wp'.nt = wp.nt - 1 /\ wp'.bit = 1
  <2> PICK n \in Int : n = wp.nt - 1
    BY <1>1
  <2>1. wp' = [wp EXCEPT !.nt = n, !.bit = 1, !.lock = 0] /\ wp \in WorldType
    BY <1>1, <1>2, Zenon
  <2>2. wp'.ts = wp.ts
    BY <2>1, MembersCounted, Zenon
  <2>3. wp'.off = wp.off
    BY <2>1, MembersCounted, Zenon
  <2>4. wp'.st = wp.st
    BY <2>1, MembersCounted, Zenon
  <2>5. wp'.nt = n
    BY <2>1, MembersCounted, Zenon
  <2>6. wp'.bit = 1
    BY <2>1, MembersCounted, Zenon
  <2> QED
    BY <2>2, <2>3, <2>4, <2>5, <2>6
<1>4. /\ pc'[t] = "idle" /\ tss'[t] = 0 /\ new'[t] = 0 /\ op'[t] = "none"
      /\ \A u \in Threads \ {t} : Stays(u)
  BY <1>1, <1>2, Domains DEF Stays
<1>5. ThreadAgrees(t)'
  <2>1. ~ InCheckin(t)' /\ ~ Filing(t)' /\ ~ InLoop(t)'
    BY <1>4 DEF InCheckin, Filing, InLoop, CheckinPcs, FreePcs
  <2>2. ~ BitIsSet(t)' /\ ~ KeepsOwp(t)'
    BY <2>1 DEF BitIsSet, KeepsOwp
  <2>3. LocalsAgree(t)'
    BY <1>4, <2>1 DEF LocalsAgree, CheckinPcs, FreePcs
  <2>4. PointersAgree(t)'
    BY <1>2 DEF PointersAgree
  <2>5. CursorAgrees(t)'
    BY <1>4 DEF CursorAgrees
  <2>6. WorldsAgree(t)'
    BY <2>1, <2>2 DEF WorldsAgree
  <2>7. PrivateIsInitial(t)' /\ CopyAgrees(t)'
    BY <1>1, <1>2, <1>4, CallerHasNoCopy
  <2> QED
    BY <2>3, <2>4, <2>5, <2>6, <2>7 DEF ThreadAgrees
<1>6. WorldCounts'
  <2>1. Registered' = Registered \ {t} /\ t \in Registered
    BY <1>1, <1>4 DEF Registered, Stays
  <2>2. Cardinality(Registered \ {t}) = Cardinality(Registered) - 1
    BY <2>1, AwaitedFinite, FS_RemoveElement
  <2> QED
    BY <1>3, <2>1, <2>2 DEF SInv, Sound, WorldCounts
<1>7. wp.ts < Held(t)
  BY <1>1
<1> QED
  BY <1>1, <1>2, <1>3, <1>4, <1>5, <1>6, <1>7, MembersChange

\* A thread that is not registered relies on nothing in the world.
LEMMA StrangerAgrees ==
  ASSUME SInv, NEW u \in Threads, Stays(u), tss[u] = 0, UNCHANGED <<rc, list>>,
         u \notin ofresh', u \notin cfresh'
  PROVE  ThreadAgrees(u)' /\ pc'[u] \notin {"retain", "snip", "clear"}
<1> USE DEF Stays
<1>1. LocalsAgree(u) /\ PrivateIsInitial(u) /\ pc[u] \notin FreePcs \cup CheckinPcs
  BY Types DEF ThreadAgrees, LocalsAgree
<1>2. LocalsAgree(u)'
  BY <1>1, SameThread
<1>3. PointersAgree(u)'
  BY DEF PointersAgree
<1>4. CursorAgrees(u)'
  BY DEF CursorAgrees
<1>5. WorldsAgree(u)'
  <2>1. ~ Filing(u)' /\ ~ KeepsOwp(u)'
    BY <1>1 DEF Filing, KeepsOwp, BitIsSet, InCheckin, InLoop, FreePcs, CheckinPcs
  <2> QED
    BY <2>1 DEF WorldsAgree
<1>6. PrivateIsInitial(u)'
  BY <1>1 DEF PrivateIsInitial, Initial
<1>7. CopyAgrees(u)' /\ pc'[u] \notin {"retain", "snip", "clear"}
  BY <1>1 DEF CopyAgrees, FreePcs, CheckinPcs
<1> QED
  BY <1>2, <1>3, <1>4, <1>5, <1>6, <1>7 DEF ThreadAgrees

\* A thread that finds no other one counted is the only one.
LEMMA OnlyOneIsLeft ==
  ASSUME SInv, NEW t \in Threads, tss[t] # 0, ~ (wp.nt > 1) PROVE Registered = {t}
<1>0. wp.nt \in Nat
  BY Types
<1>1. t \in Registered /\ Cardinality(Registered) <= 1 /\ Cardinality(Registered) \in Nat
      /\ IsFiniteSet(Registered)
  BY <1>0, AwaitedFinite DEF Registered, SInv, Sound, WorldCounts
<1>2. IsFiniteSet(Registered \ {t}) /\ Cardinality(Registered \ {t}) = Cardinality(Registered) - 1
      /\ Cardinality(Registered \ {t}) \in Nat
  BY <1>1, FS_RemoveElement, FS_CardinalityType
<1>3. Registered \ {t} = {}
  BY <1>1, <1>2, FS_EmptySet
<1> QED
  BY <1>1, <1>3

\* The last thread leaves.
LEMMA LastSwapSound ==
  ASSUME SInv, NEW t \in Threads, UnregisterSwap(t), ~ (wp.nt > 1) PROVE Sound'
<1>1. /\ pc[t] = "leave" /\ tss[t] # 0 /\ op[t] = "unregister" /\ wp.nt \in Nat
      /\ wp \in WorldType /\ wp.size \in Nat
  BY Types, Fields DEF UnregisterSwap, ThreadAgrees, LocalsAgree
<1>2. /\ wp' = [ResetWorld(wp) EXCEPT !.lock = 1]
      /\ pc' = [pc EXCEPT ![t] = "wipe"] /\ tss' = [tss EXCEPT ![t] = 0]
      /\ ofresh' = {} /\ cfresh' = {}
      /\ UNCHANGED <<bits, rc, list, pool, new, owp, op, cur, cwp, kind, mine, own, i>>
  BY <1>1 DEF UnregisterSwap, Install, Goto, freeing
<1>3. /\ wp'.ts = 0 /\ wp'.off = 0 /\ wp'.st = <<>> /\ wp'.nt = 0
  BY <1>2 DEF ResetWorld, NoWorld
<1>4. /\ pc'[t] = "wipe" /\ tss'[t] = 0
      /\ \A u \in Threads \ {t} : Stays(u)
  BY <1>1, <1>2, Domains DEF Stays
<1>5. Registered = {t}
  BY <1>1, OnlyOneIsLeft
<1>6. ASSUME NEW u \in Threads \ {t}
      PROVE  tss[u] = 0 /\ ThreadAgrees(u)' /\ pc'[u] \notin {"retain", "snip", "clear"}
  <2>1. tss[u] = 0
    BY <1>5 DEF Registered
  <2> QED
    BY <1>2, <1>4, <2>1, StrangerAgrees
<1>7. ThreadAgrees(t)'
  <2>1. ~ InCheckin(t)' /\ ~ Filing(t)' /\ ~ InLoop(t)'
    BY <1>4 DEF InCheckin, Filing, InLoop, CheckinPcs, FreePcs
  <2>2. ~ BitIsSet(t)' /\ ~ KeepsOwp(t)'
    BY <2>1 DEF BitIsSet, KeepsOwp
  <2>3. LocalsAgree(t)'
    BY <1>4, <2>1 DEF LocalsAgree, CheckinPcs, FreePcs
  <2>4. PointersAgree(t)'
    BY <1>2 DEF PointersAgree
  <2>5. CursorAgrees(t)'
    BY <1>4 DEF CursorAgrees
  <2>6. WorldsAgree(t)'
    BY <2>1, <2>2 DEF WorldsAgree
  <2>7. PrivateIsInitial(t)' /\ CopyAgrees(t)'
    BY <1>1, <1>2, <1>4, CallerHasNoCopy
  <2> QED
    BY <2>3, <2>4, <2>5, <2>6, <2>7 DEF ThreadAgrees
<1>8. ThreadsAgree'
  BY <1>6, <1>7 DEF ThreadsAgree
<1>9. EntriesAreRight'
  <2>1. Slots(wp)' = {}
    <3>1. Len(wp'.st) = 0 /\ 0 * N = 0
      BY <1>3, ZeroOffset
    <3> QED
      BY <1>3, <3>1 DEF Slots
  <2> QED
    BY <2>1 DEF EntriesAreRight
<1>10. WorldCounts'
  <2>1. Registered' = {}
    BY <1>4, <1>5 DEF Registered, Stays
  <2> QED
    BY <1>3, <2>1, FS_EmptySet DEF WorldCounts
<1>11. RaisersAgree' /\ EmptiersAgree'
  BY <1>4, <1>6 DEF RaisersAgree, EmptiersAgree, Empties
<1> QED
  BY <1>8, <1>9, <1>10, <1>11 DEF Sound

-----------------------------------------------------------------------------
(* The timestamp is raised.                                                *)

\* What a thread knows of the copy that it swaps in.
LEMMA SwapFacts ==
  ASSUME SInv, NEW t \in Threads, FreeSwap(t)
  PROVE  /\ pc[t] = "cas" /\ t \in cfresh /\ tss[t] # 0
         /\ mine[t] \in WorldType /\ WellFormed(mine[t])
         /\ mine[t].ts = wp.ts + 1 /\ mine[t].bit = 0 /\ wp.bit = 1 /\ wp.nt > 1
         /\ mine[t].ts \in Slots(mine[t]) /\ mine[t].nt = wp.nt
         /\ wp.off <= mine[t].off /\ mine[t].off \in Nat
         /\ Continues(wp, mine[t], own[t])
         /\ Index(mine[t].ts) \in bits[StorageOf(mine[t], mine[t].ts)]
         /\ \A u \in Registered : mine[t].off <= Held(u)
         /\ wp' = mine[t] /\ ofresh' = {} /\ cfresh' = {t}
         /\ cwp'[t] = mine[t] /\ own'[t] = None /\ pc'[t] = "retain"
         /\ UNCHANGED <<bits, rc, list, pool, tss, op, new, cur, owp, kind, mine, i>>
         /\ \A u \in Threads \ {t} : Stays(u)
<1>1. /\ pc[t] = "cas" /\ t \in cfresh /\ wp = cwp[t]
      /\ wp' = mine[t] /\ ofresh' = {} /\ cfresh' = {t}
      /\ cwp' = [cwp EXCEPT ![t] = mine[t]] /\ own' = [own EXCEPT ![t] = None]
      /\ pc' = [pc EXCEPT ![t] = "retain"]
      /\ UNCHANGED <<bits, rc, list, pool, tss, op, new, cur, owp, kind, mine, i>>
  BY DEF FreeSwap, Install, Goto, calls
<1>2. /\ CopyAgrees(t) /\ LocalsAgree(t) /\ CallIsConsistent(t) /\ mine[t] \in WorldType
  BY Types DEF ThreadAgrees
<1>3. tss[t] # 0 /\ WellFormed(mine[t])
  BY <1>1, <1>2 DEF LocalsAgree, CallIsConsistent, FreePcs
<1>4. /\ mine[t].ts = wp.ts + 1 /\ mine[t].bit = 0 /\ wp.bit = 1 /\ wp.nt > 1
      /\ Continues(wp, mine[t], own[t])
      /\ Index(mine[t].ts) \in bits[StorageOf(mine[t], mine[t].ts)]
      /\ \A u \in Registered : mine[t].off <= Held(u)
  BY <1>1, <1>2 DEF CopyAgrees
<1>5. mine[t].ts \in Slots(mine[t])
  BY <1>1, CopyStorages
<1>6. wp.off <= mine[t].off /\ mine[t].nt = wp.nt /\ mine[t].off \in Nat
  BY <1>2, <1>4, Sizes DEF Continues
<1>7. /\ cwp'[t] = mine[t] /\ own'[t] = None /\ pc'[t] = "retain"
      /\ \A u \in Threads \ {t} : Stays(u)
  BY <1>1, Domains DEF Stays
<1> QED
  BY <1>1, <1>2, <1>3, <1>4, <1>5, <1>6, <1>7

\* The copy has the entries that somebody holds where the world has them.
LEMMA SwapKeeps ==
  ASSUME SInv, NEW t \in Threads, FreeSwap(t), NEW T \in Slots(wp), mine[t].off <= T
  PROVE  T \in Slots(mine[t]) /\ StorageOf(mine[t], T) = StorageOf(wp, T)
BY SwapFacts DEF Continues

\* An entry that nobody holds any more is in its initial state.
LEMMA DoneIsInitial ==
  ASSUME SInv, NEW X \in Slots(wp), \A u \in Registered : ~ (Held(u) <= X)
  PROVE  Initial(StorageOf(wp, X), Index(X))
<1>1. EntryIsRight(X) /\ X \in Nat
  BY Types, SlotStorage DEF SInv, Sound, EntriesAreRight
<1>2. CASE X \notin 1 .. wp.ts
  BY <1>1, <1>2 DEF EntryIsRight
<1>3. CASE X \in 1 .. wp.ts
  <2>1. Holders(X) = {}
    BY DEF Holders
  <2>2. Awaited(X) = {}
    BY <1>1, <2>1, AwaitedHold
  <2>3. \A u \in Threads : ~ Raiser(u, X)
    <3>1. \A u \in Threads : Raiser(u, X) => u \in Holders(X)
      BY FiledSlot DEF Raiser, Filing
    <3> QED
      BY <2>1, <3>1
  <2>4. EntryOf(rc, wp, X) = -1
    <3>1. EntryOf(rc, wp, X) = Cardinality(Awaited(X)) - 1
      BY <1>1, <1>3, <2>3 DEF EntryIsRight
    <3>2. Cardinality(Awaited(X)) = 0
      BY <2>2, FS_EmptySet
    <3> QED
      BY <3>1, <3>2
  <2>5. EntryOf(list, wp, X) = {}
    BY <1>1, <1>3, <2>1 DEF EntryIsRight
  <2> QED
    BY <2>4, <2>5 DEF Initial, EntryOf
<1> QED
  BY <1>2, <1>3

\* What is new in the copy is in its initial state.
LEMMA SwapIsInitial ==
  ASSUME SInv, NEW t \in Threads, FreeSwap(t), NEW T \in Slots(mine[t]), T \notin 1 .. wp.ts
  PROVE  Initial(StorageOf(mine[t], T), Index(T))
<1>1. /\ Continues(wp, mine[t], own[t]) /\ mine[t].off \in Nat /\ mine[t] \in WorldType
      /\ \A u \in Registered : mine[t].off <= Held(u)
  BY SwapFacts
<1>2. mine[t].off <= T /\ T \in Nat
  BY <1>1, SlotStorage
<1>3. CASE T \in Slots(wp)
  <2>1. StorageOf(mine[t], T) = StorageOf(wp, T)
    BY <1>2, <1>3, SwapKeeps
  <2>2. EntryIsRight(T)
    BY <1>3 DEF SInv, Sound, EntriesAreRight
  <2> QED
    BY <2>1, <2>2 DEF EntryIsRight
<1>4. CASE T \notin Slots(wp) /\ own[t] # None
  <2>1. StorageOf(mine[t], T) = own[t]
    BY <1>1, <1>4 DEF Continues
  <2>2. PrivateIsInitial(t) /\ Index(T) \in Indices
    BY <1>1, SlotStorage, Types DEF ThreadAgrees
  <2> QED
    BY <1>4, <2>1, <2>2 DEF PrivateIsInitial
<1>5. CASE T \notin Slots(wp) /\ own[t] = None
  <2>1. PICK X \in Slots(wp) :
            X < mine[t].off /\ Index(X) = Index(T) /\ StorageOf(wp, X) = StorageOf(mine[t], T)
    BY <1>1, <1>5 DEF Continues
  <2>2. X \in Nat
    BY Types, SlotStorage
  <2>3. \A u \in Registered : ~ (Held(u) <= X)
    <3>1. \A u \in Registered : Held(u) \in Nat
      BY Types DEF Registered
    <3> QED
      BY <1>1, <2>1, <2>2, <3>1
  <2> QED
    BY <2>1, <2>3, DoneIsInitial
<1> QED
  BY <1>3, <1>4, <1>5

\* A thread agrees with the world that a free swaps in.
LEMMA SwapThread ==
  ASSUME SInv, NEW t \in Threads, FreeSwap(t)
  PROVE  ThreadAgrees(t)' /\ Held(t)' = Held(t) /\ Cursor(t)' = Cursor(t)
<1> PICK copy : copy = mine[t]
  OBVIOUS
<1>1. /\ pc[t] = "cas" /\ pc'[t] = "retain" /\ tss[t] # 0 /\ t \in Registered
      /\ copy.ts = wp.ts + 1 /\ copy.bit = 0 /\ wp.bit = 1 /\ copy.ts \in Slots(copy)
      /\ copy.nt = wp.nt /\ wp.nt > 1 /\ copy.off <= Held(t) /\ copy.off \in Nat
      /\ wp' = copy /\ cwp'[t] = copy /\ own'[t] = None /\ ofresh' = {}
      /\ UNCHANGED <<tss, op, new, cur, owp>>
  BY SwapFacts DEF Registered
<1>2. /\ wp.ts \in Nat /\ LocalsAgree(t) /\ CursorAgrees(t) /\ WorldsAgree(t)
      /\ Held(t) \in Nat /\ Cursor(t) \in Nat /\ new[t] \in Nat /\ wp.nt \in Nat
  BY Types DEF ThreadAgrees
<1>3. Held(t)' = Held(t) /\ Cursor(t)' = Cursor(t)
  BY <1>1 DEF Held, Cursor, InLoop
<1>4. /\ InCheckin(t)' = InCheckin(t) /\ BitIsSet(t)' = BitIsSet(t) /\ KeepsOwp(t)' = KeepsOwp(t)
      /\ Filing(t)'
  BY <1>1 DEF InCheckin, BitIsSet, KeepsOwp, InLoop, Filing, FreePcs, CheckinPcs
<1>5. LocalsAgree(t)'
  BY <1>1, <1>2, <1>4 DEF LocalsAgree, FreePcs, CheckinPcs
<1>6. PointersAgree(t)'
  BY <1>1, SameWorldReflexive DEF PointersAgree
<1>7. CursorAgrees(t)'
  <2>1. /\ Cursor(t) <= wp.ts + 1 /\ new[t] <= wp.ts /\ (BitIsSet(t) => new[t] + 1 <= wp.ts + 1)
    BY <1>1, <1>2 DEF CursorAgrees
  <2>2. wp.nt \in 1 .. Cardinality(Threads)
    BY <1>1, <1>2, AwaitedFinite DEF SInv, Sound, WorldCounts
  <2> QED
    BY <1>1, <1>2, <1>3, <1>4, <2>1, <2>2 DEF CursorAgrees
<1>8. WorldsAgree(t)'
  <2>1. Agrees(cwp[t], cwp[t].ts)'
    BY <1>1 DEF Agrees
  <2>2. ASSUME KeepsOwp(t) PROVE owp[t].ts # 0 /\ \A T \in Held(t) .. new[t] : Agrees(owp[t], T)'
    <3>1. owp[t].ts # 0 /\ \A T \in Held(t) .. new[t] : Agrees(owp[t], T)
      BY <1>1, <1>2, <2>2 DEF WorldsAgree
    <3>2. ASSUME NEW T \in Held(t) .. new[t] PROVE Agrees(owp[t], T)'
      <4>1. Agrees(owp[t], T) /\ copy.off <= T /\ T \in Slots(wp)
        BY <1>1, <1>2, <3>1 DEF Agrees
      <4>2. T \in Slots(copy) /\ StorageOf(copy, T) = StorageOf(wp, T)
        BY <4>1, SwapKeeps
      <4> QED
        BY <1>1, <4>1, <4>2 DEF Agrees
    <3> QED
      BY <3>1, <3>2
  <2> QED
    BY <1>1, <1>3, <1>4, <2>1, <2>2 DEF WorldsAgree
<1>9. PrivateIsInitial(t)' /\ CopyAgrees(t)'
  BY <1>1 DEF PrivateIsInitial, CopyAgrees
<1> QED
  BY <1>3, <1>5, <1>6, <1>7, <1>8, <1>9 DEF ThreadAgrees

\* A free swaps in a copy with the next timestamp.
LEMMA FreeSwapSound ==
  ASSUME SInv, NEW t \in Threads, FreeSwap(t) PROVE Sound'
<1> PICK copy : copy = mine[t]
  OBVIOUS
<1>1. /\ pc[t] = "cas" /\ pc'[t] = "retain" /\ t \in cfresh /\ copy \in WorldType
      /\ copy.ts = wp.ts + 1 /\ copy.bit = 0 /\ wp.bit = 1 /\ copy.ts \in Slots(copy)
      /\ copy.nt = wp.nt /\ wp.off <= copy.off /\ copy.off \in Nat
      /\ Index(copy.ts) \in bits[StorageOf(copy, copy.ts)]
      /\ \A u \in Registered : copy.off <= Held(u)
      /\ wp' = copy /\ cwp'[t] = copy /\ ofresh' = {} /\ cfresh' = {t}
      /\ UNCHANGED <<bits, rc, list, tss, cur>>
      /\ \A u \in Threads \ {t} : Stays(u)
  BY SwapFacts
<1>2. /\ wp.ts \in Nat /\ wp \in WorldType /\ wp.bit \in 0 .. 1
      /\ ThreadAgrees(t)' /\ Held(t)' = Held(t) /\ Cursor(t)' = Cursor(t)
  BY SwapThread, Types
<1>3. /\ \A u \in Threads : Held(u)' = Held(u) /\ Cursor(u)' = Cursor(u)
      /\ Registered' = Registered
      /\ \A T : Awaited(T)' = Awaited(T) /\ Holders(T)' = Holders(T)
  <2>1. \A u \in Threads : Held(u)' = Held(u) /\ Cursor(u)' = Cursor(u)
    BY <1>1, <1>2, SameThread
  <2> QED
    BY <1>1, <2>1 DEF Awaited, Holders, Registered
<1>4. ThreadsAgree'
  <2> SUFFICES ASSUME NEW u \in Threads \ {t} PROVE ThreadAgrees(u)'
    BY <1>2 DEF ThreadsAgree
  <2>1. /\ wp'.ts \in Nat /\ wp'.bit \in 0 .. 1 /\ wp'.ts >= wp.ts
        /\ wp'.ts + wp'.bit >= wp.ts + wp.bit /\ wp'.off \in Nat
    BY <1>1, <1>2
  <2>2. tss[u] # 0 => wp'.off <= Held(u)
    BY <1>1 DEF Registered
  <2>3. Keeps(wp, wp')
    BY <1>1, SwapKeeps DEF Keeps
  <2>4. own[u] # None => rc'[own[u]] = rc[own[u]] /\ list'[own[u]] = list[own[u]]
    BY <1>1
  <2> QED
    BY <1>1, <2>1, <2>2, <2>3, <2>4, OtherAgrees
<1>5. WorldCounts'
  BY <1>1, <1>3 DEF SInv, Sound, WorldCounts
<1>6. \A u \in Threads : pc[u] = "retain" => cwp[u].ts \in 1 .. wp.ts
  <2>1. \A u \in Threads : pc[u] = "retain" => Filing(u)
    BY DEF Filing
  <2> QED
    BY <2>1, FiledSlot
<1>7. EntriesAreRight'
  <2> SUFFICES ASSUME NEW T \in Slots(copy) PROVE EntryIsRight(T)'
    BY <1>1 DEF EntriesAreRight
  <2>0. T \in Nat /\ copy.off <= T
    BY <1>1, SlotStorage
  <2>1. CASE T \in 1 .. wp.ts
    <3>1. T \in Slots(wp)
      <4>1. wp.off <= T /\ T <= wp.ts /\ wp.ts # 0 /\ wp.off \in Nat
        BY <1>1, <1>2, <2>0, <2>1, Types
      <4> QED
        BY <2>0, <4>1, Types, CurrentSlot
    <3>2. EntryIsRight(T) /\ StorageOf(wp', T) = StorageOf(wp, T)
      BY <1>1, <2>0, <3>1, SwapKeeps DEF SInv, Sound, EntriesAreRight
    <3>3. EntryOf(rc', wp, T) = EntryOf(rc, wp, T) /\ EntryOf(list', wp, T) = EntryOf(list, wp, T)
      BY <1>1
    <3>4. \A u \in Threads : Raiser(u, T)' = Raiser(u, T) /\ (Raiser(u, T) => cwp'[u].nt = cwp[u].nt)
      <4>1. ~ Raiser(t, T) /\ ~ Raiser(t, T)'
        BY <1>1, <1>2, <2>1 DEF Raiser
      <4>2. \A u \in Threads \ {t} : Raiser(u, T)' = Raiser(u, T) /\ cwp'[u] = cwp[u]
        BY <1>1 DEF Raiser, Stays
      <4> QED
        BY <4>1, <4>2 DEF Raiser
    <3>5. T \in 1 .. wp'.ts <=> T \in 1 .. wp.ts
      BY <1>1, <1>2, <2>1
    <3> QED
      BY <1>1, <1>3, <3>2, <3>3, <3>4, <3>5, EntryKept
  <2>2. CASE T \notin 1 .. wp.ts
    <3>1. Initial(StorageOf(copy, T), Index(T))
      BY <2>2, SwapIsInitial
    <3>2. Initial(StorageOf(wp, T), Index(T))'
      BY <1>1, <3>1 DEF Initial
    <3>3. CASE T # copy.ts
      <4>1. T \notin 1 .. wp'.ts
        BY <1>1, <1>2, <2>0, <2>2, <3>3
      <4> QED
        BY <3>2, <4>1 DEF EntryIsRight
    <3>4. CASE T = copy.ts
      <4>1. \A u \in Threads : Raiser(u, T)' <=> u = t
        <5>1. \A u \in Threads \ {t} : ~ Raiser(u, T)'
          <6>1. \A u \in Threads \ {t} : Raiser(u, T)' => pc[u] = "retain" /\ cwp[u].ts = T
            BY <1>1 DEF Raiser, Stays
          <6> QED
            BY <1>6, <2>2, <6>1
        <5> QED
          BY <1>1, <3>4, <5>1 DEF Raiser
      <4>2. Awaited(T) = Registered
        <5>1. \A u \in Registered : Cursor(u) <= wp.ts + 1
          BY <1>1, Types DEF Registered, ThreadAgrees, CursorAgrees
        <5> QED
          BY <1>1, <3>4, <5>1 DEF Awaited
      <4>3. Cardinality(Awaited(T)') = wp.nt /\ wp.nt \in Nat
        BY <1>3, <4>2, Types DEF SInv, Sound, WorldCounts
      <4>4. EntryOf(rc, wp, T)' = -1 /\ EntryOf(list, wp, T)' = {}
        BY <3>2 DEF Initial, EntryOf
      <4>5. \A u \in Threads : Raiser(u, T)' =>
                /\ EntryOf(rc, wp, T)' + cwp'[u].nt = Cardinality(Awaited(T)') - 1
                /\ Cardinality(Awaited(T)') <= cwp'[u].nt
        BY <1>1, <4>1, <4>3, <4>4
      <4>6. (Index(T) \in bits[StorageOf(wp, T)])'
        BY <1>1, <3>4
      <4>7. T \in 1 .. wp'.ts
        BY <1>1, <1>2, <3>4
      <4> QED
        BY <4>1, <4>4, <4>5, <4>6, <4>7 DEF EntryIsRight
    <3> QED
      BY <3>3, <3>4
  <2> QED
    BY <2>1, <2>2
<1>8. RaisersAgree'
  <2>1. RaisersAgree
    BY DEF SInv, Sound
  <2>2. \A u \in Threads \ {t} : pc'[u] = "retain" =>
            pc[u] = "retain" /\ cwp'[u] = cwp[u] /\ cwp[u].ts # copy.ts
    BY <1>1, <1>2, <1>6 DEF Stays
  <2> QED
    BY <1>1, <2>1, <2>2 DEF RaisersAgree
<1>9. EmptiersAgree'
  <2>0. EmptiersAgree
    BY DEF SInv, Sound
  <2>1. \A u \in Threads : pc'[u] \in {"snip", "clear"} =>
            pc[u] = pc'[u] /\ cur'[u] = cur[u]
    BY <1>1 DEF Stays
  <2>2. \A u \in Threads : Empties(u)' => Empties(u) /\ cur'[u] = cur[u] /\ Awaited(cur[u])' = {}
    BY <1>3, <2>0, <2>1 DEF Empties, EmptiersAgree
  <2>3. ASSUME NEW u \in Threads, pc'[u] = "clear" PROVE EntryOf(list', wp', cur'[u]) = {}
    <3>1. pc[u] = "clear" /\ cur'[u] = cur[u] /\ EntryOf(list, wp, cur[u]) = {} /\ Empties(u)
      BY <2>0, <2>1, <2>3 DEF EmptiersAgree, Empties
    <3>2. cur[u] \in Slots(wp) /\ cur[u] \in 1 .. wp.ts /\ u \in Holders(cur[u])
      BY <3>1, EmptierSlot, EmptierHolds
    <3>3. copy.off <= cur[u]
      <4>1. copy.off <= Held(u) /\ Held(u) <= cur[u] /\ Held(u) \in Nat /\ cur[u] \in Nat
        BY <1>1, <3>2, Types DEF Holders, Registered
      <4> QED
        BY <1>1, <4>1
    <3>4. StorageOf(copy, cur[u]) = StorageOf(wp, cur[u])
      BY <3>2, <3>3, SwapKeeps
    <3> QED
      BY <1>1, <3>1, <3>4 DEF EntryOf
  <2> QED
    BY <2>0, <2>1, <2>2, <2>3 DEF EmptiersAgree, Empties
<1> QED
  BY <1>4, <1>5, <1>7, <1>8, <1>9 DEF Sound

-----------------------------------------------------------------------------
(* The invariant is inductive.                                             *)

\* In the beginning nobody is registered.
LEMMA InitSound == Init => Sound
<1> SUFFICES ASSUME Init PROVE Sound
  OBVIOUS
<1>1. /\ wp.ts = 0 /\ wp.nt = 0 /\ wp.off = 0 /\ wp.st = <<>>
      /\ ofresh = {} /\ cfresh = {}
      /\ \A t \in Threads : tss[t] = 0 /\ pc[t] = "idle" /\ new[t] = 0 /\ own[t] = None
  BY DEF Init, NoWorld
<1>2. ASSUME NEW t \in Threads PROVE ThreadAgrees(t)
  <2>1. ~ InCheckin(t) /\ ~ Filing(t) /\ ~ InLoop(t)
    BY <1>1 DEF InCheckin, Filing, InLoop, CheckinPcs, FreePcs
  <2>2. ~ BitIsSet(t) /\ ~ KeepsOwp(t)
    BY <2>1 DEF BitIsSet, KeepsOwp
  <2>3. LocalsAgree(t)
    BY <1>1, <2>1 DEF LocalsAgree, CheckinPcs, FreePcs
  <2>4. PointersAgree(t) /\ CursorAgrees(t)
    BY <1>1 DEF PointersAgree, CursorAgrees
  <2>5. WorldsAgree(t)
    BY <2>1, <2>2 DEF WorldsAgree
  <2>6. PrivateIsInitial(t) /\ CopyAgrees(t)
    BY <1>1 DEF PrivateIsInitial, CopyAgrees
  <2> QED
    BY <2>3, <2>4, <2>5, <2>6 DEF ThreadAgrees
<1>3. EntriesAreRight
  <2>1. Len(wp.st) = 0 /\ 0 * N = 0
    BY <1>1, ZeroOffset
  <2>2. Slots(wp) = {}
    BY <1>1, <2>1 DEF Slots
  <2> QED
    BY <2>2 DEF EntriesAreRight
<1>4. WorldCounts
  <2>1. Registered = {}
    BY <1>1 DEF Registered
  <2> QED
    BY <1>1, <2>1, FS_EmptySet DEF WorldCounts
<1>5. RaisersAgree /\ EmptiersAgree
  BY <1>1 DEF RaisersAgree, EmptiersAgree, Empties
<1> QED
  BY <1>2, <1>3, <1>4, <1>5 DEF Sound, ThreadsAgree

\* Nothing happens.
LEMMA StutterSound ==
  ASSUME SInv, UNCHANGED vars PROVE Sound'
<1>1. /\ UNCHANGED <<wp, bits, rc, list, pool, tss, pc, op, new, cur, owp, ofresh, cwp, cfresh>>
      /\ \A u \in Threads : Stays(u)
  BY DEF vars, shared, Stays
<1>2. /\ wp.ts \in Nat /\ wp.bit \in 0 .. 1 /\ wp.off \in Nat /\ wp \in WorldType
  BY Types
<1>3. /\ \A u \in Threads : Held(u)' = Held(u) /\ Cursor(u)' = Cursor(u)
      /\ Registered' = Registered
      /\ \A T : Awaited(T)' = Awaited(T) /\ Holders(T)' = Holders(T)
  <2>1. \A u \in Threads : Held(u)' = Held(u) /\ Cursor(u)' = Cursor(u)
    BY <1>1, SameThread
  <2> QED
    BY <1>1, <2>1 DEF Awaited, Holders, Registered
<1>4. ThreadsAgree'
  <2> SUFFICES ASSUME NEW u \in Threads PROVE ThreadAgrees(u)'
    BY DEF ThreadsAgree
  <2>1. /\ wp'.ts \in Nat /\ wp'.bit \in 0 .. 1 /\ wp'.ts >= wp.ts
        /\ wp'.ts + wp'.bit >= wp.ts + wp.bit /\ wp'.off \in Nat
    BY <1>1, <1>2
  <2>2. tss[u] # 0 => wp'.off <= Held(u)
    BY <1>1, Types DEF ThreadAgrees, CursorAgrees
  <2>3. Keeps(wp, wp')
    BY <1>1 DEF Keeps
  <2>4. own[u] # None => rc'[own[u]] = rc[own[u]] /\ list'[own[u]] = list[own[u]]
    BY <1>1
  <2>5. \A v \in Registered : Held(v)' \in Nat /\ Held(v) <= Held(v)'
    <3>1. \A v \in Registered : Held(v) \in Nat /\ v \in Threads
      BY Types DEF Registered
    <3> QED
      BY <1>3, <3>1
  <2>6. SameWorld(wp', wp) /\ Registered' = Registered
    BY <1>1, <1>3, SameWorldReflexive
  <2> QED
    BY <1>1, <2>1, <2>2, <2>3, <2>4, <2>5, <2>6, OtherAgrees
<1>5. EntriesAreRight'
  <2> SUFFICES ASSUME NEW T \in Slots(wp) PROVE EntryIsRight(T)'
    BY <1>1 DEF EntriesAreRight
  <2>1. EntryIsRight(T)
    BY DEF SInv, Sound, EntriesAreRight
  <2>2. \A u \in Threads : Raiser(u, T)' = Raiser(u, T) /\ cwp'[u].nt = cwp[u].nt
    BY <1>1 DEF Raiser
  <2> QED
    BY <1>1, <1>3, <2>1, <2>2, EntryKept
<1>6. WorldCounts' /\ RaisersAgree' /\ EmptiersAgree'
  <2>1. WorldCounts'
    BY <1>1, <1>3 DEF SInv, Sound, WorldCounts
  <2>2. RaisersAgree'
    BY <1>1 DEF SInv, Sound, RaisersAgree
  <2>3. EmptiersAgree
    BY DEF SInv, Sound
  <2>4. \A u \in Threads : Empties(u)' => Empties(u) /\ Awaited(cur[u])' = {}
    BY <1>1, <1>3, <2>3 DEF EmptiersAgree, Empties
  <2>5. \A u \in Threads : pc'[u] = "clear" => EntryOf(list, wp, cur[u])' = {}
    BY <1>1, <2>3 DEF EmptiersAgree
  <2>6. EmptiersAgree'
    BY <1>1, <2>3, <2>4, <2>5 DEF EmptiersAgree
  <2> QED
    BY <2>1, <2>2, <2>6
<1> QED
  BY <1>4, <1>5, <1>6 DEF Sound

\* The reasons why entries are right outlast every step.
LEMMA NextSInv == SInv /\ [Next]_vars => SInv'
<1> SUFFICES ASSUME SInv, [Next]_vars PROVE SInv'
  OBVIOUS
<1>1. OInv'
  BY NextOInv DEF SInv
<1>2. CASE Next
  <2>1. PICK t \in Threads : RegisterStep(t) \/ FreeStep(t) \/ CheckinStep(t) \/ UnregisterStep(t)
    BY <1>2 DEF Next
  <2>2. ASSUME RegisterStep(t) PROVE Sound'
    <3>1. CASE RegisterLock(t)
      BY <3>1, RegisterLockSound
    <3>2. CASE RegisterSwap(t)
      BY <3>2, RegisterSwapSound, RegisterFailSound
    <3> QED
      BY <2>2, <3>1, <3>2 DEF RegisterStep
  <2>3. ASSUME FreeStep(t) PROVE Sound'
    BY <2>3, FreeNowSound, FreeBeginSound, FreeReloadSound, TryFailSound, TryIncrementSound,
       TryAddSound, TryReorganizeSound, ScanCountSound, ScanReorganizeSound, ReorganizeSound,
       GrowSound, FreeSwapSound, FreeSwapFailSound, FreeRetainSound, FreeFileSound DEF FreeStep
  <2>4. ASSUME CheckinStep(t) PROVE Sound'
    BY <2>4, CheckinBeginSound, CheckinBitSound, CheckinCopySound, CheckinRangeSound,
       CheckinDecrementSound, CheckinSnipSound, CheckinClearSound, CheckinDoneSound
    DEF CheckinStep
  <2>5. ASSUME UnregisterStep(t) PROVE Sound'
    <3>1. CASE UnregisterSwap(t)
      BY <3>1, UnregisterSwapSound, LastSwapSound
    <3>2. CASE ~ UnregisterSwap(t)
      BY <2>5, <3>2, UnregisterBeginSound, UnregisterLockSound, UnregisterFailSound,
         UnregisterWipeSound DEF UnregisterStep
    <3> QED
      BY <3>1, <3>2
  <2> QED
    BY <1>1, <2>1, <2>2, <2>3, <2>4, <2>5 DEF SInv
<1>3. CASE UNCHANGED vars
  BY <1>1, <1>3, StutterSound DEF SInv
<1> QED
  BY <1>2, <1>3

\* The invariant holds in every behaviour.
LEMMA AlwaysSInv == Spec => []SInv
<1>1. Init => SInv
  BY InitOInv, InitSound DEF SInv
<1>2. SInv /\ [Next]_vars => SInv'
  BY NextSInv
<1> QED
  BY <1>1, <1>2, PTL DEF Spec

-----------------------------------------------------------------------------
(* What follows from it.                                                   *)

\* Sound: in whatever places of their calls the threads are, what each of them
\* relies on holds: how far it has checked in, where the entries it will touch
\* are, what its copy of the world has in common with the world that is current
\* (_mulle_aba_storage_copy_change_worldpointer), and that its scan of a copy for
\* unused storages takes none away that somebody still needs.
THEOREM AlwaysSound == Spec => []Sound
<1>1. SInv => Sound
  BY DEF SInv
<1> QED
  BY <1>1, AlwaysSInv, PTL

\* What a thread has still to check in for, and what it has still to touch.
LEMMA Unfinished ==
  ASSUME SInv, NEW t \in Threads
  PROVE  /\ \A T \in Unchecked(t) : T \in Nat /\ tss[t] # 0 /\ Cursor(t) <= T /\ T <= wp.ts
         /\ \A T \in ToTouch(t) : T \in Nat /\ tss[t] # 0 /\ Held(t) <= T /\ T <= wp.ts
         /\ tss[t] # 0 => \A T \in Nat : Cursor(t) <= T /\ T <= wp.ts => T \in Unchecked(t)
<1>1. /\ tss[t] \in Nat /\ cur[t] \in Nat /\ new[t] \in Nat /\ wp.ts \in Nat
      /\ Held(t) \in Nat /\ Cursor(t) \in Nat /\ Held(t) <= Cursor(t)
      /\ LocalsAgree(t) /\ CursorAgrees(t)
  BY Types DEF ThreadAgrees
<1>2. Unchecked(t) = IF tss[t] = 0 THEN {} ELSE Cursor(t) .. wp.ts
  <2>1. CASE tss[t] = 0
    <3>1. pc[t] \notin {"dec", "snip", "clear"}
      BY <1>1, <2>1 DEF LocalsAgree, CheckinPcs
    <3> QED
      BY <2>1, <3>1 DEF Unchecked
  <2>2. CASE tss[t] # 0
    BY <2>2 DEF Unchecked, Cursor
  <2> QED
    BY <2>1, <2>2
<1>3. \A T \in Unchecked(t) : T \in Nat /\ tss[t] # 0 /\ Cursor(t) <= T /\ T <= wp.ts
  BY <1>1, <1>2
<1>4. ASSUME NEW T \in ToTouch(t), T \notin Unchecked(t)
      PROVE  T \in Nat /\ tss[t] # 0 /\ Held(t) <= T /\ T <= wp.ts
  <2>1. InLoop(t) /\ T \in cur[t] .. new[t]
    BY <1>4 DEF ToTouch
  <2>2. tss[t] # 0 /\ Held(t) = cur[t]
    BY <1>1, <2>1 DEF LocalsAgree, InLoop, CheckinPcs, Held
  <2>3. new[t] <= wp.ts
    BY <1>1, <2>2 DEF CursorAgrees
  <2> QED
    BY <1>1, <2>1, <2>2, <2>3
<1>5. tss[t] # 0 => \A T \in Nat : Cursor(t) <= T /\ T <= wp.ts => T \in Unchecked(t)
  BY <1>1, <1>2
<1>6. ASSUME NEW T \in ToTouch(t), T \in Unchecked(t)
      PROVE  T \in Nat /\ tss[t] # 0 /\ Held(t) <= T /\ T <= wp.ts
  BY <1>1, <1>3, <1>6
<1> QED
  BY <1>3, <1>4, <1>5, <1>6

\* Everything that a thread has still to touch has an entry.
LEMMA TouchedIsThere ==
  ASSUME SInv, NEW t \in Threads, NEW T \in ToTouch(t)
  PROVE  HasEntry(wp, T) /\ T \in Slots(wp) /\ T \in 1 .. wp.ts
<1>1. /\ T \in Nat /\ tss[t] # 0 /\ Held(t) <= T /\ T <= wp.ts
      /\ Held(t) \in Nat /\ wp.ts \in Nat /\ wp \in WorldType
  BY Unfinished, Types
<1>2. T \in Held(t) .. wp.ts
  BY <1>1
<1>3. T \in Slots(wp) /\ Held(t) # 0
  BY <1>1, <1>2, CurrentAgrees
<1>4. T # 0 /\ T \in 1 .. wp.ts
  BY <1>1, <1>3
<1> QED
  BY <1>1, <1>3, <1>4, SlotHasEntry

\* AwaitedHaveEntries: the entry of a timestamp that a thread has still to check
\* in for is in the current world.  reorganize_storage never rotates it away,
\* though it goes by usage bits that checkins clear and other frees set.
THEOREM AwaitedAlwaysHaveEntries == Spec => []AwaitedHaveEntries
<1>1. SInv => AwaitedHaveEntries
  BY TouchedIsThere DEF AwaitedHaveEntries
<1> QED
  BY <1>1, AlwaysSInv, PTL

\* AwaitedAreInUse: its usage bit is set.  Only the checkin that is awaited last
\* clears it (_mulle_aba_world_check_timerange), and it is set before the
\* timestamp becomes current (_increment_timestamp).
THEOREM AwaitedAreAlwaysInUse == Spec => []AwaitedAreInUse
<1>1. ASSUME SInv, NEW t \in Threads, NEW T \in Unchecked(t)
      PROVE  Index(T) \in bits[StorageOf(wp, T)]
  <2>1. T \in Slots(wp) /\ T \in 1 .. wp.ts
    BY <1>1, TouchedIsThere DEF ToTouch
  <2>2. t \in Holders(T)
    BY <1>1, Unfinished DEF ToTouch, Holders, Registered
  <2> QED
    BY <1>1, <2>1, <2>2 DEF SInv, Sound, EntriesAreRight, EntryIsRight
<1>2. SInv => AwaitedAreInUse
  BY <1>1 DEF AwaitedAreInUse
<1> QED
  BY <1>2, AlwaysSInv, PTL

\* StaleWorldsAgree: a free or a checkin that looks an entry up in a world which
\* was replaced meanwhile finds it in the storage where the current world has
\* it, however often the world has been grown or rotated since.
THEOREM StaleWorldsAlwaysAgree == Spec => []StaleWorldsAgree
<1>1. ASSUME SInv, NEW t \in Threads, Filing(t)
      PROVE  /\ HasEntry(cwp[t], cwp[t].ts) /\ HasEntry(wp, cwp[t].ts)
             /\ StorageOf(cwp[t], cwp[t].ts) = StorageOf(wp, cwp[t].ts)
  <2>1. /\ cwp[t].ts \in 1 .. wp.ts /\ Agrees(cwp[t], cwp[t].ts)
        /\ cwp[t] \in WorldType /\ wp \in WorldType /\ wp.ts \in Nat
    BY <1>1, FiledSlot, Types DEF MayFile
  <2>2. cwp[t].ts \in Nat /\ cwp[t].ts # 0
    BY <2>1
  <2> QED
    BY <2>1, <2>2, SlotHasEntry DEF Agrees
<1>2. ASSUME SInv, NEW t \in Threads, InLoop(t), cur[t] <= new[t]
      PROVE  /\ HasEntry(owp[t], cur[t]) /\ HasEntry(wp, cur[t])
             /\ StorageOf(owp[t], cur[t]) = StorageOf(wp, cur[t])
  <2>1. cur[t] \in 1 .. wp.ts /\ Held(t) = cur[t] /\ cur[t] \in Nat /\ tss[t] # 0
    BY <1>2, TouchedSlot
  <2>2. owp[t] \in WorldType /\ wp \in WorldType /\ WorldsAgree(t) /\ new[t] \in Nat /\ wp.ts \in Nat
    BY <1>2, Types DEF ThreadAgrees
  <2>3. Agrees(owp[t], cur[t])
    BY <1>2, <2>1, <2>2 DEF WorldsAgree, KeepsOwp
  <2>4. cur[t] # 0
    BY <2>1, <2>2
  <2> QED
    BY <2>1, <2>2, <2>3, <2>4, SlotHasEntry DEF Agrees
<1>3. SInv => StaleWorldsAgree
  BY <1>1, <1>2 DEF StaleWorldsAgree, Lookups, Filing
<1> QED
  BY <1>3, AlwaysSInv, PTL

\* EntriesCountCheckins: the retain count of a timestamp, in the storage that
\* holds it now, is the number of threads that have still to check in for it,
\* short of what the free that raised it has not added yet: no count is added or
\* taken away in a storage that was reused for another timestamp.
THEOREM EntriesAlwaysCountCheckins == Spec => []EntriesCountCheckins
<1>1. ASSUME SInv, NEW T \in 1 .. wp.ts, HasEntry(wp, T)
      PROVE  EntryOf(rc, wp, T) + 1 + ToRetain(T) = Cardinality({t \in Threads : T \in Unchecked(t)})
  <2>1. T \in Nat /\ wp.ts \in Nat /\ wp \in WorldType
    BY <1>1, Types
  <2>2. T \in Slots(wp)
    BY <1>1, <2>1, SlotHasEntry
  <2>3. {t \in Threads : T \in Unchecked(t)} = Awaited(T)
    BY <1>1, <2>1, Unfinished DEF Awaited, Registered
  <2> SUFFICES EntryOf(rc, wp, T) + 1 + ToRetain(T) = Cardinality(Awaited(T))
    BY <2>3, Zenon
  <2>4. /\ EntryIsRight(T) /\ EntryOf(rc, wp, T) \in Int /\ Cardinality(Awaited(T)) \in Nat
        /\ \A t \in Threads : cwp[t].nt \in Nat
    BY <1>1, <2>2, EntryType, AwaitedFinite, Types, Fields DEF SInv, Sound, EntriesAreRight
  <2>5. CASE \A t \in Threads : ~ Raiser(t, T)
    <3>1. ToRetain(T) = 0
      BY <2>5 DEF ToRetain, Raiser
    <3>2. EntryOf(rc, wp, T) = Cardinality(Awaited(T)) - 1
      BY <1>1, <2>4, <2>5 DEF EntryIsRight
    <3> QED
      BY <2>4, <3>1, <3>2
  <2>6. CASE \E t \in Threads : Raiser(t, T)
    <3>1. \E t \in Threads : Raiser(t, T) /\ ToRetain(T) = cwp[t].nt
      BY <2>6 DEF ToRetain, Raiser
    <3>2. PICK t \in Threads : Raiser(t, T) /\ ToRetain(T) = cwp[t].nt
      BY <3>1
    <3>3. EntryOf(rc, wp, T) + cwp[t].nt = Cardinality(Awaited(T)) - 1
      BY <1>1, <2>4, <3>2 DEF EntryIsRight
    <3> QED
      BY <2>4, <3>2, <3>3
  <2> QED
    BY <2>5, <2>6
<1>2. SInv => EntriesCountCheckins
  BY <1>1 DEF EntriesCountCheckins
<1> QED
  BY <1>2, AlwaysSInv, PTL

-----------------------------------------------------------------------------
(* The storages implement an entry for every timestamp.                    *)

CountOf(T) == IF HasEntry(wp, T) THEN EntryOf(rc, wp, T) ELSE -1
ListOf(T)  == IF HasEntry(wp, T) THEN EntryOf(list, wp, T) ELSE {}

counts == [T \in 1 .. MaxTimestamp |-> CountOf(T)]
lists  == [T \in 1 .. MaxTimestamp |-> ListOf(T)]

\* The abstract variables are those of the refinement mapping.
LEMMA Abstraction ==
  /\ Entries!evars = <<wp.ts, counts, lists>>
  /\ Entries!evars' = <<wp'.ts, counts', lists'>>
BY DEF counts, lists, CountOf, ListOf, Entries!evars

\* The entries of timestamps, wherever they are, stay as they are.
LEMMA EntriesStay ==
  ASSUME SInv, wp'.ts = wp.ts, wp'.off = wp.off, wp'.st = wp.st,
         \A s \in StoragesOf(wp) : rc'[s] = rc[s] /\ list'[s] = list[s]
  PROVE  UNCHANGED Entries!evars
<1>1. ASSUME NEW T \in 1 .. MaxTimestamp PROVE CountOf(T)' = CountOf(T) /\ ListOf(T)' = ListOf(T)
  <2>1. HasEntry(wp, T)' = HasEntry(wp, T) /\ StorageOf(wp', T) = StorageOf(wp, T)
    BY DEF HasEntry, StorageIndex, StorageOf
  <2>2. CASE HasEntry(wp, T)
    <3>1. T \in Nat /\ wp \in WorldType
      BY Types, StorageAssumption
    <3>2. StorageOf(wp, T) \in StoragesOf(wp)
      BY <2>2, <3>1, SlotHasEntry, SlotStorage
    <3> QED
      BY <2>1, <2>2, <3>2 DEF CountOf, ListOf, EntryOf
  <2>3. CASE ~ HasEntry(wp, T)
    BY <2>1, <2>3 DEF CountOf, ListOf
  <2> QED
    BY <2>2, <2>3
<1>2. counts' = counts /\ lists' = lists
  BY <1>1 DEF counts, lists
<1> QED
  BY <1>2, Abstraction

\* The first world has no entries, and all entries are initial.
LEMMA EntriesInit == Init => Entries!Init
<1> SUFFICES ASSUME Init PROVE Entries!Init
  OBVIOUS
<1>1. wp.ts = 0 /\ wp.st = <<>> /\ wp.off = 0
  BY DEF Init, NoWorld
<1>2. \A T \in 1 .. MaxTimestamp : ~ HasEntry(wp, T)
  <2> SUFFICES ASSUME NEW T \in 1 .. MaxTimestamp, HasEntry(wp, T) PROVE FALSE
    OBVIOUS
  <2>1. wp \in WorldType /\ T \in Nat
    BY InitIInv, StorageAssumption DEF IInv, TypeOK
  <2>2. T \in Slots(wp)
    BY <2>1, SlotHasEntry
  <2>3. Len(wp.st) = 0 /\ 0 * N = 0
    BY <1>1, ZeroOffset
  <2> QED
    BY <1>1, <2>2, <2>3 DEF Slots
<1> QED
  BY <1>1, <1>2 DEF Entries!Init, Entries!Timestamps

\* The value of the abstract variables in terms of the slots of the world.
LEMMA SlotCounts ==
  ASSUME SInv, NEW T \in 1 .. MaxTimestamp
  PROVE  /\ T \in Nat /\ (HasEntry(wp, T) <=> T \in Slots(wp))
         /\ T \in Slots(wp) => CountOf(T) = EntryOf(rc, wp, T) /\ ListOf(T) = EntryOf(list, wp, T)
         /\ T \notin Slots(wp) => CountOf(T) = -1 /\ ListOf(T) = {}
<1>1. T \in Nat /\ T # 0 /\ wp \in WorldType
  BY Types, StorageAssumption
<1>2. HasEntry(wp, T) <=> T \in Slots(wp)
  BY <1>1, SlotHasEntry
<1> QED
  BY <1>1, <1>2 DEF CountOf, ListOf

\* The timestamp of the current world is within the bound, and so are those before it.
LEMMA CurrentIsBounded ==
  ASSUME SInv
  PROVE  /\ wp.ts \in Nat /\ wp.ts <= MaxTimestamp /\ MaxTimestamp \in Nat
         /\ \A T \in 1 .. wp.ts : T \in 1 .. MaxTimestamp
<1>1. wp.ts \in Nat /\ wp.ts <= MaxTimestamp /\ MaxTimestamp \in Nat
  BY Types, Fields, StorageAssumption
<1> QED
  BY <1>1

\* One count changes.
LEMMA OneCount ==
  ASSUME SInv, NEW T0 \in Slots(wp), T0 \in 1 .. wp.ts, NEW value, wp' = wp, list' = list,
         EntryOf(rc', wp, T0) = value,
         \A X \in Slots(wp) \ {T0} : EntryOf(rc', wp, X) = EntryOf(rc, wp, X)
  PROVE  /\ counts' = [counts EXCEPT ![T0] = value] /\ lists' = lists
         /\ counts[T0] = EntryOf(rc, wp, T0)
<1>1. T0 \in 1 .. MaxTimestamp
  BY CurrentIsBounded
<1>2. ASSUME NEW T \in 1 .. MaxTimestamp
      PROVE  /\ ListOf(T)' = ListOf(T)
             /\ CountOf(T)' = IF T = T0 THEN value ELSE CountOf(T)
  <2>1. HasEntry(wp, T)' = HasEntry(wp, T)
    BY DEF HasEntry, StorageIndex
  <2>2. /\ EntryOf(rc, wp, T)' = EntryOf(rc', wp, T)
        /\ EntryOf(list, wp, T)' = EntryOf(list, wp, T)
    BY DEF EntryOf
  <2>3. CASE T \in Slots(wp)
    BY <2>1, <2>2, <2>3, SlotCounts DEF CountOf, ListOf
  <2>4. CASE T \notin Slots(wp)
    BY <2>1, <2>4, SlotCounts DEF CountOf, ListOf
  <2> QED
    BY <2>3, <2>4
<1>3. counts[T0] = EntryOf(rc, wp, T0)
  BY <1>1, SlotCounts DEF counts
<1> QED
  BY <1>1, <1>2, <1>3 DEF counts, lists

\* One list changes.
LEMMA OneList ==
  ASSUME SInv, NEW T0 \in Slots(wp), T0 \in 1 .. wp.ts, NEW value, wp' = wp, rc' = rc,
         EntryOf(list', wp, T0) = value,
         \A X \in Slots(wp) \ {T0} : EntryOf(list', wp, X) = EntryOf(list, wp, X)
  PROVE  /\ lists' = [lists EXCEPT ![T0] = value] /\ counts' = counts
         /\ lists[T0] = EntryOf(list, wp, T0) /\ counts[T0] = EntryOf(rc, wp, T0)
<1>1. T0 \in 1 .. MaxTimestamp
  BY CurrentIsBounded
<1>2. ASSUME NEW T \in 1 .. MaxTimestamp
      PROVE  /\ CountOf(T)' = CountOf(T)
             /\ ListOf(T)' = IF T = T0 THEN value ELSE ListOf(T)
  <2>1. HasEntry(wp, T)' = HasEntry(wp, T)
    BY DEF HasEntry, StorageIndex
  <2>2. /\ EntryOf(list, wp, T)' = EntryOf(list', wp, T)
        /\ EntryOf(rc, wp, T)' = EntryOf(rc, wp, T)
    BY DEF EntryOf
  <2>3. CASE T \in Slots(wp)
    BY <2>1, <2>2, <2>3, SlotCounts DEF CountOf, ListOf
  <2>4. CASE T \notin Slots(wp)
    BY <2>1, <2>4, SlotCounts DEF CountOf, ListOf
  <2> QED
    BY <2>3, <2>4
<1>3. lists[T0] = EntryOf(list, wp, T0) /\ counts[T0] = EntryOf(rc, wp, T0)
  BY <1>1, SlotCounts DEF counts, lists
<1> QED
  BY <1>1, <1>2, <1>3 DEF counts, lists

\* The abstract steps in terms of the counts and lists of the storages.
LEMMA MapRetain ==
  ASSUME NEW T PROVE Entries!Retain(T) <=>
    /\ T \in 1 .. wp.ts /\ \E n \in 1 .. Cardinality(Threads) : counts' = [counts EXCEPT ![T] = @ + n]
    /\ UNCHANGED <<wp.ts, lists>>
BY Zenon DEF Entries!Retain, counts, lists, CountOf, ListOf

\* Filing adds a pointer to the list of one timestamp.
LEMMA MapFile ==
  ASSUME NEW T PROVE Entries!File(T) <=>
    /\ T \in 1 .. wp.ts /\ lists' = [lists EXCEPT ![T] = @ \cup {T}]
    /\ UNCHANGED <<wp.ts, counts>>
BY Zenon DEF Entries!File, counts, lists, CountOf, ListOf

\* A checkin decrements the count of one timestamp.
LEMMA MapCheckIn ==
  ASSUME NEW T PROVE Entries!CheckIn(T) <=>
    /\ T \in 1 .. wp.ts /\ counts' = [counts EXCEPT ![T] = @ - 1]
    /\ UNCHANGED <<wp.ts, lists>>
BY Zenon DEF Entries!CheckIn, counts, lists, CountOf, ListOf

\* Emptying clears the list of a timestamp that nobody is awaited for.
LEMMA MapEmpty ==
  ASSUME NEW T PROVE Entries!Empty(T) <=>
    /\ T \in 1 .. wp.ts /\ counts[T] = -1 /\ lists' = [lists EXCEPT ![T] = {}]
    /\ UNCHANGED <<wp.ts, counts>>
BY Zenon DEF Entries!Empty, counts, lists, CountOf, ListOf

\* A new timestamp starts with nobody awaited and nothing filed.
LEMMA MapRaise ==
  Entries!Raise <=>
    /\ wp'.ts = wp.ts + 1 /\ wp'.ts \in 1 .. MaxTimestamp /\ counts[wp'.ts] = -1 /\ lists[wp'.ts] = {}
    /\ UNCHANGED <<counts, lists>>
BY Zenon DEF Entries!Raise, Entries!Timestamps, counts, lists, CountOf, ListOf

\* The timestamps restart when every entry is empty.
LEMMA MapRestart ==
  Entries!Restart <=>
    /\ \A T \in 1 .. MaxTimestamp : counts[T] = -1 /\ lists[T] = {}
    /\ wp'.ts = 0
    /\ UNCHANGED <<counts, lists>>
BY Zenon DEF Entries!Restart, Entries!Timestamps, counts, lists, CountOf, ListOf

\* A free adds the threads that it has to wait for.
LEMMA RetainStep ==
  ASSUME SInv, NEW t \in Threads, FreeRetain(t) PROVE Entries!Next
<1> PICK T0 : T0 = cwp[t].ts
  OBVIOUS
<1> PICK n : n = cwp[t].nt
  OBVIOUS
<1>1. pc[t] = "retain" /\ Filing(t) /\ wp' = wp /\ list' = list
  BY DEF FreeRetain, Filing
<1>2. /\ T0 \in Slots(wp) /\ T0 \in 1 .. wp.ts /\ StorageOf(cwp[t], T0) = StorageOf(wp, T0)
      /\ tss[t] # 0
  BY <1>1, FiledSlot
<1>3. n \in 1 .. Cardinality(Threads) /\ n \in Int
  BY <1>1, <1>2, Types DEF ThreadAgrees, CursorAgrees
<1>4. rc' = UpdateEntry(rc, wp, T0, EntryOf(rc, wp, T0) + n)
  BY <1>2, UpdateWhere DEF FreeRetain
<1>5. EntryOf(rc, wp, T0) \in Int /\ EntryOf(rc, wp, T0) + n \in Int
  BY <1>2, <1>3, EntryType
<1>6. /\ EntryOf(rc', wp, T0) = EntryOf(rc, wp, T0) + n
      /\ \A X \in Slots(wp) \ {T0} : EntryOf(rc', wp, X) = EntryOf(rc, wp, X)
  BY <1>2, <1>4, <1>5, CountChanges
<1>7. counts' = [counts EXCEPT ![T0] = counts[T0] + n] /\ lists' = lists
  <2> PICK value : value = EntryOf(rc, wp, T0) + n
    OBVIOUS
  <2>1. counts' = [counts EXCEPT ![T0] = value] /\ lists' = lists /\ counts[T0] = EntryOf(rc, wp, T0)
    BY <1>1, <1>2, <1>6, OneCount
  <2> QED
    BY <2>1
<1>8. T0 \in 1 .. MaxTimestamp
  BY <1>2, CurrentIsBounded
<1>9. Entries!Retain(T0)
  BY <1>1, <1>2, <1>3, <1>7, MapRetain
<1> QED
  BY <1>8, <1>9 DEF Entries!Next, Entries!Timestamps

\* A free files a pointer.
LEMMA FileStep ==
  ASSUME SInv, NEW t \in Threads, FreeFile(t) PROVE Entries!Next
<1> PICK T0 : T0 = cwp[t].ts
  OBVIOUS
<1>1. pc[t] = "file" /\ Filing(t) /\ wp' = wp /\ rc' = rc
  BY DEF FreeFile, Filing
<1>2. /\ T0 \in Slots(wp) /\ T0 \in 1 .. wp.ts /\ StorageOf(cwp[t], T0) = StorageOf(wp, T0)
  BY <1>1, FiledSlot
<1>3. list' = UpdateEntry(list, wp, T0, EntryOf(list, wp, T0) \cup {T0})
  BY <1>2, UpdateWhere DEF FreeFile
<1>4. EntryOf(list, wp, T0) \cup {T0} \in SUBSET (1 .. MaxTimestamp)
  BY <1>2, EntryType, CurrentIsBounded
<1>5. /\ EntryOf(list', wp, T0) = EntryOf(list, wp, T0) \cup {T0}
      /\ \A X \in Slots(wp) \ {T0} : EntryOf(list', wp, X) = EntryOf(list, wp, X)
  BY <1>2, <1>3, <1>4, ListChanges
<1>6. lists' = [lists EXCEPT ![T0] = lists[T0] \cup {T0}] /\ counts' = counts
  BY <1>1, <1>2, <1>5, OneList
<1>7. T0 \in 1 .. MaxTimestamp
  BY <1>2, CurrentIsBounded
<1>8. Entries!File(T0)
  BY <1>1, <1>2, <1>6, MapFile
<1> QED
  BY <1>7, <1>8 DEF Entries!Next, Entries!Timestamps

\* A checkin takes itself away from the threads to wait for.
LEMMA CountStep ==
  ASSUME SInv, NEW t \in Threads, CheckinDecrement(t) PROVE Entries!Next
<1> PICK T0 : T0 = cur[t]
  OBVIOUS
<1>1. InLoop(t) /\ cur[t] <= new[t] /\ wp' = wp /\ list' = list
  BY DEF CheckinDecrement, InLoop
<1>2. /\ T0 \in Slots(wp) /\ T0 \in 1 .. wp.ts /\ StorageOf(owp[t], T0) = StorageOf(wp, T0)
  BY <1>1, TouchedSlot
<1>3. rc' = UpdateEntry(rc, wp, T0, EntryOf(rc, wp, T0) - 1)
  BY <1>2, UpdateWhere DEF CheckinDecrement
<1>4. EntryOf(rc, wp, T0) - 1 \in Int
  BY <1>2, EntryType
<1>5. /\ EntryOf(rc', wp, T0) = EntryOf(rc, wp, T0) - 1
      /\ \A X \in Slots(wp) \ {T0} : EntryOf(rc', wp, X) = EntryOf(rc, wp, X)
  BY <1>2, <1>3, <1>4, CountChanges
<1>6. counts' = [counts EXCEPT ![T0] = counts[T0] - 1] /\ lists' = lists
  BY <1>1, <1>2, <1>5, OneCount
<1>7. T0 \in 1 .. MaxTimestamp
  BY <1>2, CurrentIsBounded
<1>8. Entries!CheckIn(T0)
  BY <1>1, <1>2, <1>6, MapCheckIn
<1> QED
  BY <1>7, <1>8 DEF Entries!Next, Entries!Timestamps

\* The last checkin takes the list.
LEMMA EmptyStep ==
  ASSUME SInv, NEW t \in Threads, CheckinSnip(t) PROVE Entries!Next
<1> PICK T0 : T0 = cur[t]
  OBVIOUS
<1>1. pc[t] = "snip" /\ Empties(t) /\ InLoop(t) /\ cur[t] <= new[t] /\ wp' = wp /\ rc' = rc
  BY Types DEF CheckinSnip, Empties, CallIsConsistent, InLoop
<1>2. /\ T0 \in Slots(wp) /\ T0 \in 1 .. wp.ts /\ StorageOf(owp[t], T0) = StorageOf(wp, T0)
      /\ EntryIsRight(T0)
  BY <1>1, TouchedSlot
<1>3. list' = UpdateEntry(list, wp, T0, {})
  BY <1>2, UpdateWhere DEF CheckinSnip
<1>4. /\ EntryOf(list', wp, T0) = {}
      /\ \A X \in Slots(wp) \ {T0} : EntryOf(list', wp, X) = EntryOf(list, wp, X)
  BY <1>2, <1>3, ListChanges
<1>5. /\ lists' = [lists EXCEPT ![T0] = {}] /\ counts' = counts
      /\ counts[T0] = EntryOf(rc, wp, T0)
  BY <1>1, <1>2, <1>4, OneList
<1>6. EntryOf(rc, wp, T0) = -1
  <2>1. Awaited(T0) = {}
    BY <1>1, EmptierHolds
  <2>2. \A u \in Threads : ~ Raiser(u, T0)
    <3>1. \A u \in Threads : Raiser(u, T0) => u \in Awaited(T0)
      BY FiledSlot DEF Raiser, Filing
    <3> QED
      BY <2>1, <3>1
  <2>3. EntryOf(rc, wp, T0) = Cardinality(Awaited(T0)) - 1
    BY <1>2, <2>2 DEF EntryIsRight
  <2>4. Cardinality(Awaited(T0)) = 0
    BY <2>1, FS_EmptySet
  <2> QED
    BY <2>3, <2>4
<1>7. T0 \in 1 .. MaxTimestamp
  BY <1>2, CurrentIsBounded
<1>8. Entries!Empty(T0)
  BY <1>1, <1>2, <1>5, <1>6, MapEmpty
<1> QED
  BY <1>7, <1>8 DEF Entries!Next, Entries!Timestamps

\* What a raise takes away from the world is done, and what it adds is new.
LEMMA SwapLeavesEntries ==
  ASSUME SInv, NEW t \in Threads, FreeSwap(t), NEW T \in 1 .. MaxTimestamp
  PROVE  CountOf(T)' = CountOf(T) /\ ListOf(T)' = ListOf(T)
<1> PICK copy : copy = mine[t]
  OBVIOUS
<1>1. /\ copy \in WorldType /\ copy.off \in Nat /\ wp.off <= copy.off /\ wp' = copy
      /\ rc' = rc /\ list' = list /\ T \in Nat
      /\ wp.ts \in Nat /\ wp.off \in Nat /\ wp \in WorldType /\ WellFormed(wp)
      /\ \A u \in Registered : copy.off <= Held(u)
      /\ \A u \in Registered : Held(u) \in Nat
  BY SwapFacts, Types, StorageAssumption DEF Registered
<1>2. T # 0
  BY StorageAssumption
<1>3. HasEntry(wp, T)' <=> T \in Slots(copy)
  BY <1>1, <1>2, SlotHasEntry
<1>4. EntryOf(rc, wp, T)' = rc[StorageOf(copy, T)][Index(T)]
      /\ EntryOf(list, wp, T)' = list[StorageOf(copy, T)][Index(T)]
  BY <1>1 DEF EntryOf
<1>5. CASE T \in Slots(wp) /\ copy.off <= T
  <2>1. T \in Slots(copy) /\ StorageOf(copy, T) = StorageOf(wp, T)
    BY <1>5, SwapKeeps
  <2> QED
    BY <1>3, <1>4, <1>5, <2>1, SlotCounts DEF CountOf, ListOf, EntryOf
<1>6. CASE T \in Slots(wp) /\ ~ (copy.off <= T)
  <2>1. T \notin Slots(copy)
    BY <1>1, <1>6, SlotStorage
  <2>2. \A u \in Registered : ~ (Held(u) <= T)
    BY <1>1, <1>6
  <2>3. Initial(StorageOf(wp, T), Index(T))
    BY <1>6, <2>2, DoneIsInitial
  <2> QED
    BY <1>3, <1>6, <2>1, <2>3, SlotCounts DEF CountOf, ListOf, EntryOf, Initial
<1>7. CASE T \notin Slots(wp) /\ T \in Slots(copy)
  <2>1. T \notin 1 .. wp.ts
    <3>1. wp.off <= T
      BY <1>1, <1>7, SlotStorage
    <3> QED
      BY <1>1, <1>7, <3>1, CurrentSlot
  <2>2. Initial(StorageOf(copy, T), Index(T))
    BY <1>7, <2>1, SwapIsInitial
  <2> QED
    BY <1>3, <1>4, <1>7, <2>2, SlotCounts DEF CountOf, ListOf, Initial
<1>8. CASE T \notin Slots(wp) /\ T \notin Slots(copy)
  BY <1>3, <1>8, SlotCounts DEF CountOf, ListOf
<1> QED
  BY <1>5, <1>6, <1>7, <1>8

\* A timestamp that is not yet current has an entry in its initial state.
LEMMA NextIsInitial ==
  ASSUME SInv, NEW T \in 1 .. MaxTimestamp, T \notin 1 .. wp.ts
  PROVE  CountOf(T) = -1 /\ ListOf(T) = {}
<1>1. CASE T \in Slots(wp)
  <2>1. Initial(StorageOf(wp, T), Index(T))
    BY <1>1 DEF SInv, Sound, EntriesAreRight, EntryIsRight
  <2> QED
    BY <1>1, <2>1, SlotCounts DEF Initial, EntryOf
<1>2. CASE T \notin Slots(wp)
  BY <1>2, SlotCounts
<1> QED
  BY <1>1, <1>2

\* A free raises the timestamp.
LEMMA RaiseStep ==
  ASSUME SInv, NEW t \in Threads, FreeSwap(t) PROVE Entries!Next
<1>1. /\ wp'.ts = wp.ts + 1 /\ wp.ts \in Nat /\ wp'.ts <= MaxTimestamp /\ wp'.ts \in Nat
      /\ MaxTimestamp \in Nat
  BY SwapFacts, Types, Fields, StorageAssumption
<1>2. wp'.ts \in 1 .. MaxTimestamp /\ wp'.ts \notin 1 .. wp.ts
  BY <1>1
<1>3. counts[wp'.ts] = -1 /\ lists[wp'.ts] = {}
  BY <1>2, NextIsInitial DEF counts, lists
<1>4. counts' = counts /\ lists' = lists
  BY SwapLeavesEntries DEF counts, lists
<1>5. Entries!Raise
  BY <1>1, <1>2, <1>3, <1>4, MapRaise
<1> QED
  BY <1>5 DEF Entries!Next

\* The last thread leaves.
LEMMA RestartStep ==
  ASSUME SInv, NEW t \in Threads, UnregisterSwap(t), ~ (wp.nt > 1) PROVE Entries!Next
<1>1. /\ tss[t] # 0 /\ new[t] < tss[t] /\ wp.ts = new[t] /\ wp.ts \in Nat /\ wp.nt \in Nat
      /\ tss[t] \in Nat /\ Held(t) = tss[t] /\ wp \in WorldType
  BY Types DEF UnregisterSwap, MayLeave, ThreadAgrees, LocalsAgree, Held, InLoop
<1>2. Registered = {t}
  BY OnlyOneIsLeft, <1>1
<1>3. ASSUME NEW T \in 1 .. MaxTimestamp PROVE CountOf(T) = -1 /\ ListOf(T) = {}
  <2>1. CASE T \in 1 .. wp.ts
    <3>1. \A u \in Registered : ~ (Held(u) <= T)
      BY <1>1, <1>2, <2>1
    <3>2. T \in Slots(wp) => Initial(StorageOf(wp, T), Index(T))
      BY <3>1, DoneIsInitial
    <3> QED
      BY <3>2, SlotCounts DEF Initial, EntryOf
  <2>2. CASE T \notin 1 .. wp.ts
    BY <2>2, NextIsInitial
  <2> QED
    BY <2>1, <2>2
<1>4. wp'.ts = 0 /\ wp'.off = 0 /\ wp'.st = <<>>
  <2>1. wp' = [ResetWorld(wp) EXCEPT !.lock = 1]
    BY <1>1 DEF UnregisterSwap, Install
  <2> QED
    BY <2>1 DEF ResetWorld, NoWorld
<1>5. ASSUME NEW T \in 1 .. MaxTimestamp PROVE CountOf(T)' = -1 /\ ListOf(T)' = {}
  <2>1. ~ HasEntry(wp, T)'
    <3>1. SInv'
      BY NextSInv DEF Next, UnregisterStep
    <3>2. wp' \in WorldType
      BY <3>1 DEF SInv, OInv, IInv, TypeOK
    <3>3. Len(wp'.st) = 0 /\ 0 * N = 0
      BY <1>4, ZeroOffset
    <3>4. Slots(wp') = {}
      BY <1>4, <3>3 DEF Slots
    <3>5. T \in Nat
      BY StorageAssumption
    <3> QED
      BY <3>2, <3>4, <3>5, SlotHasEntry
  <2> QED
    BY <2>1 DEF CountOf, ListOf
<1>6. counts' = counts /\ lists' = lists /\ \A T \in 1 .. MaxTimestamp : counts[T] = -1 /\ lists[T] = {}
  BY <1>3, <1>5 DEF counts, lists
<1>7. Entries!Restart
  BY <1>4, <1>6, MapRestart
<1> QED
  BY <1>7 DEF Entries!Next

\* The other steps replace the world by one that has the same entries.
WorldStays == wp'.ts = wp.ts /\ wp'.off = wp.off /\ wp'.st = wp.st

\* A lock or a bit changes no entry,
LEMMA SameWorldStays ==
  ASSUME SameWorld(wp', wp) PROVE WorldStays
BY DEF SameWorld, WorldStays

\* nor does the number of threads.
LEMMA MembersStay ==
  ASSUME wp \in WorldType, NEW n \in Int, wp' = [wp EXCEPT !.nt = n, !.bit = 1, !.lock = 0]
  PROVE  WorldStays
<1>1. wp'.ts = wp.ts
  BY MembersCounted, Zenon
<1>2. wp'.off = wp.off
  BY MembersCounted, Zenon
<1>3. wp'.st = wp.st
  BY MembersCounted, Zenon
<1> QED
  BY <1>1, <1>2, <1>3 DEF WorldStays

\* A change of the lock.
LEMMA LockStays ==
  ASSUME wp \in WorldType, NEW lock \in 0 .. 1, wp' = [wp EXCEPT !.lock = lock]
  PROVE  WorldStays
BY LockOnly, SameWorldStays, Zenon

\* No step of a registration changes an entry.
LEMMA RegisterStays ==
  ASSUME SInv, NEW t \in Threads, RegisterStep(t)
  PROVE  WorldStays /\ rc' = rc /\ list' = list
<1>1. wp \in WorldType /\ wp.nt \in Nat /\ 1 \in 0 .. 1 /\ 0 \in 0 .. 1
  BY Types
<1>2. rc' = rc /\ list' = list
  BY DEF RegisterStep, RegisterLock, RegisterSwap
<1>3. CASE RegisterLock(t)
  <2>1. wp' = [wp EXCEPT !.lock = 1]
    BY <1>3 DEF RegisterLock
  <2> QED
    BY <1>1, <1>2, <2>1, LockStays, Zenon
<1>4. CASE RegisterSwap(t) /\ t \in ofresh /\ wp = owp[t]
  <2> PICK n \in Int : n = wp.nt + 1
    BY <1>1
  <2>1. wp' = [wp EXCEPT !.nt = wp.nt + 1, !.bit = 1, !.lock = 0]
    BY <1>4 DEF RegisterSwap, Install
  <2>2. wp' = [wp EXCEPT !.nt = n, !.bit = 1, !.lock = 0]
    BY <2>1, Zenon
  <2> QED
    BY <1>1, <1>2, <2>2, MembersStay, Zenon
<1>5. CASE RegisterSwap(t) /\ ~ (t \in ofresh /\ wp = owp[t])
  BY <1>2, <1>5 DEF RegisterSwap, WorldStays
<1> QED
  BY <1>3, <1>4, <1>5 DEF RegisterStep

\* Of a checkin only the decrement and the emptying of a list do.
LEMMA CheckinStays ==
  ASSUME SInv, NEW t \in Threads, CheckinStep(t), ~ CheckinDecrement(t), ~ CheckinSnip(t)
  PROVE  WorldStays /\ rc' = rc /\ list' = list
<1>1. wp \in WorldType /\ 1 \in 0 .. 1 /\ 0 \in 0 .. 1
  BY Types
<1>2. rc' = rc /\ list' = list
  BY DEF CheckinStep, Checkin, CheckinBit, CheckinCopy, CheckinRange, CheckinClear, CheckinDone, shared
<1>3. CASE CheckinBit(t) /\ wp.lock # 1
  <2>1. wp' = [wp EXCEPT !.bit = 1]
    BY <1>3 DEF CheckinBit
  <2> QED
    BY <1>1, <1>2, <2>1, BitOnly, SameWorldStays, Zenon
<1>4. CASE CheckinCopy(t)
  <2>1. wp' = [wp EXCEPT !.bit = 1, !.lock = 0]
    BY <1>4 DEF CheckinCopy, Install
  <2> QED
    BY <1>1, <1>2, <2>1, BitSetUnlocked, SameWorldStays, Zenon
<1>5. CASE ~ (CheckinBit(t) /\ wp.lock # 1) /\ ~ CheckinCopy(t)
  <2>1. wp' = wp
    BY <1>5 DEF CheckinStep, Checkin, CheckinBit, CheckinRange, CheckinClear, CheckinDone, shared
  <2> QED
    BY <1>2, <2>1 DEF WorldStays
<1> QED
  BY <1>3, <1>4, <1>5

\* Of an unregistration only the last one, which wipes, does.
LEMMA UnregisterStays ==
  ASSUME SInv, NEW t \in Threads, UnregisterStep(t), ~ (UnregisterSwap(t) /\ ~ (wp.nt > 1))
  PROVE  WorldStays /\ rc' = rc /\ list' = list
<1>1. wp \in WorldType /\ wp.nt \in Nat /\ 1 \in 0 .. 1 /\ 0 \in 0 .. 1
  BY Types
<1>2. rc' = rc /\ list' = list
  BY DEF UnregisterStep, UnregisterBegin, UnregisterLock, UnregisterSwap, UnregisterFail,
         UnregisterWipe, shared
<1>3. CASE UnregisterSwap(t)
  <2> PICK n \in Int : n = wp.nt - 1
    BY <1>1
  <2>1. wp' = [wp EXCEPT !.nt = wp.nt - 1, !.bit = 1, !.lock = 0]
    BY <1>3 DEF UnregisterSwap, Install
  <2>2. wp' = [wp EXCEPT !.nt = n, !.bit = 1, !.lock = 0]
    BY <2>1, Zenon
  <2> QED
    BY <1>1, <1>2, <2>2, MembersStay, Zenon
<1>4. CASE ~ UnregisterSwap(t)
  <2>1. wp' = wp \/ \E lock \in 0 .. 1 : wp' = [wp EXCEPT !.lock = lock]
    <3>1. ASSUME UnregisterBegin(t) PROVE wp' = wp
      BY <3>1 DEF UnregisterBegin, shared
    <3>2. ASSUME UnregisterLock(t) PROVE wp' = wp \/ wp' = [wp EXCEPT !.lock = 1]
      BY <3>2 DEF UnregisterLock
    <3>3. ASSUME UnregisterFail(t) PROVE wp' = wp \/ wp' = [wp EXCEPT !.lock = 0]
      BY <3>3 DEF UnregisterFail
    <3>4. ASSUME UnregisterWipe(t) PROVE wp' = [wp EXCEPT !.lock = 0]
      BY <3>4 DEF UnregisterWipe
    <3> QED
      BY <1>1, <1>4, <3>1, <3>2, <3>3, <3>4, Zenon DEF UnregisterStep
  <2>2. ASSUME wp' = wp PROVE WorldStays
    BY <2>2 DEF WorldStays
  <2> QED
    BY <1>1, <1>2, <2>1, <2>2, LockStays, Zenon
<1> QED
  BY <1>3, <1>4

\* A free initialises the entries of a storage that is in no world.
LEMMA FreeStays ==
  ASSUME SInv, NEW t \in Threads, FreeStep(t), ~ FreeSwap(t), ~ FreeRetain(t), ~ FreeFile(t)
  PROVE  /\ WorldStays
         /\ \A s \in Storages \ pool : rc'[s] = rc[s] /\ list'[s] = list[s]
<1>1. wp' = wp
  <2>1. FreeNow(t) \/ FreeBegin(t) \/ FreeReload(t) => wp' = wp
    BY DEF FreeNow, FreeBegin, FreeReload, shared
  <2>2. TryFail(t) \/ TryIncrement(t) \/ TryAdd(t) \/ TryReorganize(t) => wp' = wp
    BY Zenon DEF TryFail, TryIncrement, TryAdd, TryReorganize, shared
  <2>3. ScanCount(t) \/ ScanReorganize(t) \/ Reorganize(t) => wp' = wp
    BY Zenon DEF ScanCount, ScanReorganize, Reorganize, shared
  <2>4. Grow(t) \/ FreeSwapFail(t) => wp' = wp
    BY Zenon DEF Grow, FreeSwapFail
  <2> QED
    BY <2>1, <2>2, <2>3, <2>4 DEF FreeStep
<1>2. WorldStays
  BY <1>1 DEF WorldStays
<1>3. CASE TryAdd(t)
  <2>1. CASE own[t] # None
    BY <1>2, <1>3, <2>1, Zenon DEF TryAdd
  <2>2. CASE own[t] = None
    <3>1. PICK s \in pool : /\ rc'   = [rc   EXCEPT ![s] = [x \in Indices |-> -1]]
                            /\ list' = [list EXCEPT ![s] = [x \in Indices |-> {}]]
      BY <1>3, <2>2, Zenon DEF TryAdd
    <3> QED
      BY <1>2, <3>1, Types
  <2> QED
    BY <2>1, <2>2
<1>4. CASE ~ TryAdd(t)
  <2>1. FreeNow(t) \/ FreeBegin(t) \/ FreeReload(t) => rc' = rc /\ list' = list
    BY DEF FreeNow, FreeBegin, FreeReload, shared
  <2>2. TryFail(t) \/ TryIncrement(t) \/ TryReorganize(t) => rc' = rc /\ list' = list
    BY Zenon DEF TryFail, TryIncrement, TryReorganize, shared
  <2>3. ScanCount(t) \/ ScanReorganize(t) \/ Reorganize(t) => rc' = rc /\ list' = list
    BY Zenon DEF ScanCount, ScanReorganize, Reorganize, shared
  <2>4. Grow(t) \/ FreeSwapFail(t) => rc' = rc /\ list' = list
    BY Zenon DEF Grow, FreeSwapFail
  <2> QED
    BY <1>2, <1>4, <2>1, <2>2, <2>3, <2>4 DEF FreeStep
<1> QED
  BY <1>3, <1>4

\* Every step is one of TimestampEntries, or changes none of its variables.
LEMMA StepsMap == SInv /\ [Next]_vars => [Entries!Next]_(Entries!evars)
<1> SUFFICES ASSUME SInv, [Next]_vars PROVE Entries!Next \/ UNCHANGED Entries!evars
  OBVIOUS
<1>1. ASSUME WorldStays, \A s \in Storages \ pool : rc'[s] = rc[s] /\ list'[s] = list[s]
      PROVE  UNCHANGED Entries!evars
  BY <1>1, WorldIsNotPooled, EntriesStay DEF WorldStays
<1>2. CASE Next
  <2> PICK t \in Threads : RegisterStep(t) \/ FreeStep(t) \/ CheckinStep(t) \/ UnregisterStep(t)
    BY <1>2 DEF Next
  <2>1. CASE RegisterStep(t)
    BY <1>1, <2>1, RegisterStays
  <2>2. CASE FreeStep(t)
    BY <1>1, <2>2, FreeStays, RaiseStep, RetainStep, FileStep
  <2>3. CASE CheckinStep(t)
    BY <1>1, <2>3, CheckinStays, CountStep, EmptyStep
  <2>4. CASE UnregisterStep(t)
    BY <1>1, <2>4, UnregisterStays, RestartStep
  <2> QED
    BY <2>1, <2>2, <2>3, <2>4
<1>3. CASE UNCHANGED vars
  <2>1. WorldStays /\ rc' = rc /\ list' = list
    BY <1>3 DEF vars, shared, WorldStays
  <2> QED
    BY <1>1, <2>1
<1> QED
  BY <1>2, <1>3

\* ImplementsTimestampEntries: the storages, rotated, shared and reused, are an
\* entry of its own for every timestamp, in its initial state when the timestamp
\* is raised; this is what module Aba takes them for.
THEOREM EntriesAreImplemented == Spec => ImplementsTimestampEntries
<1>1. SInv /\ [Next]_vars => [Entries!Next]_(Entries!evars)
  BY StepsMap
<1> QED
  BY <1>1, EntriesInit, AlwaysSInv, PTL DEF Spec, ImplementsTimestampEntries, Entries!Spec

\* StepsImplementTimestampEntries: the same of the steps of a behaviour alone.
THEOREM StepsAreImplemented == Spec => StepsImplementTimestampEntries
<1>1. SInv /\ [Next]_vars => [Entries!Next]_(Entries!evars)
  BY StepsMap
<1> QED
  BY <1>1, AlwaysSInv, PTL DEF Spec, StepsImplementTimestampEntries

=============================================================================
