---------------------------- MODULE AbaOwnership -----------------------------
(***************************************************************************)
(* Proofs about module Aba, the first part: every world and every pointer  *)
(* has one owner, what the local variables of a thread say, and who holds  *)
(* the lock of the world pointer.                                          *)
(***************************************************************************)
EXTENDS AbaInvariant, AbaProofs, FiniteSetTheorems

\* The lock a thread has taken is on a world that has been replaced.
LockedBy == [t \in Threads |-> {w \in {owp[t].w} : pc[t] \in LockPcs /\ w # wp.w}]

\* k[x] is the place an item waits in and h[x] the thread or the timestamp that
\* place belongs to: as functions, they give every item one owner.
WorldsOwned(k) ==
    \A w \in Worlds :
        /\ k[w] \in {"free", "current", "leaks", "list", "arg", "chain", "replaced", "locked"}
        /\ k[w] = "free" <=> w \in free
        /\ k[w] = "current" <=> w = wp.w
        /\ k[w] = "leaks" <=> w \in leaks

PointersOwned(k) ==
    \A p \in Pointers :
        /\ k[p] \in {"none", "list", "arg"}
        /\ k[p] = "none" <=> pstate[p] # "retired"

ThreadsOwn(k, h) ==
    \A w \in Worlds, t \in Threads :
        /\ k[w] = "chain" /\ h[w] = t <=> w \in chain[t]
        /\ k[w] = "replaced" /\ h[w] = t <=> w \in fw[t]
        /\ k[w] = "locked" /\ h[w] = t <=> w \in LockedBy[t]

ArgsOwn(k, h) == \A x \in Items, t \in Threads : k[x] = "arg" /\ h[x] = t <=> x = arg[t]

ListsOwn(k, h) == \A x \in Items, T \in Timestamps : k[x] = "list" /\ h[x] = T <=> x \in list[T]

OwnersExist(k, h) ==
    \A x \in Items :
        /\ k[x] = "list" => h[x] \in Timestamps
        /\ k[x] \in {"arg", "chain", "replaced", "locked"} => h[x] \in Threads

OwnedBy(k, h) ==
    /\ WorldsOwned(k) /\ PointersOwned(k) /\ ThreadsOwn(k, h)
    /\ ArgsOwn(k, h) /\ ListsOwn(k, h) /\ OwnersExist(k, h)

Owned == \E k, h : OwnedBy(k, h)

\* The inductive invariant of Aba.
Inv == IInv /\ Safe /\ Owned

-----------------------------------------------------------------------------
(* Who owns a world or a pointer.                                          *)

\* Steps that move no world and no pointer.
LEMMA OwnedQuiet ==
  ASSUME Owned,
         free' = free, wp'.w = wp.w, leaks' = leaks, list' = list,
         \A p \in Pointers : pstate'[p] = "retired" <=> pstate[p] = "retired",
         \A u \in Threads : arg'[u] = arg[u] /\ chain'[u] = chain[u] /\ fw'[u] = fw[u],
         \A u \in Threads : LockedBy'[u] = LockedBy[u]
  PROVE  Owned'
<1>1. PICK k, h : OwnedBy(k, h)
  BY DEF Owned
<1>2. WorldsOwned(k)' /\ PointersOwned(k)'
  BY <1>1 DEF OwnedBy, WorldsOwned, PointersOwned
<1>3. ThreadsOwn(k, h)'
  BY <1>1 DEF OwnedBy, ThreadsOwn
<1>4. ArgsOwn(k, h)' /\ ListsOwn(k, h)' /\ OwnersExist(k, h)'
  BY <1>1 DEF OwnedBy, ArgsOwn, ListsOwn, OwnersExist
<1> QED
  BY <1>2, <1>3, <1>4 DEF Owned, OwnedBy


\* A world that is swapped for another stays with the thread that has locked
\* it, if there is one.
LEMMA SwappedWorld ==
  ASSUME IInv, Safe, NEW w \in free, wp'.w = w,
         \A u \in Threads : pc'[u] \in LockPcs <=> pc[u] \in LockPcs,
         \A u \in Threads : pc[u] \in LockPcs => owp'[u].w = owp[u].w
  PROVE  \A u \in Threads, v \in Worlds :
            v \in LockedBy'[u] <=> v \in LockedBy[u] \/ (v = wp.w /\ HoldsLock(u) /\ owp[u] = wp)
BY DEF LockedBy, Safe, LockAgrees, LastIsAlone, RefsAgree, HoldsLock, LockPcs

\* The thread that holds the lock of the current world while a registered
\* thread takes a step.
LEMMA LockHolder ==
  ASSUME IInv, Safe, NEW t \in Threads, tss[t] # 0
  PROVE  /\ wp.lock = 1 => \E l \in Threads : HoldsLock(l) /\ owp[l] = wp
         /\ \A l, u \in Threads : HoldsLock(l) /\ owp[l] = wp /\ HoldsLock(u) /\ owp[u] = wp => l = u
         /\ wp.lock = 0 => \A u \in Threads : ~ (HoldsLock(u) /\ owp[u] = wp)
BY DEF Safe, LockAgrees, LastIsAlone, LocalsAllAgree, LocalsAgree

\* A registration locks the current world, replaces it and has it freed.
LEMMA RegisterOwned ==
  ASSUME IInv, Safe, Owned, NEW t \in Threads, RegisterStep(t)
  PROVE  Owned'
<1> USE DEF IInv
<1>0. PICK k, h : OwnedBy(k, h)
  BY DEF Owned
<1>1. CASE RegisterLock(t)
  <2>1. \A u \in Threads : LockedBy'[u] = LockedBy[u]
    BY <1>1 DEF RegisterLock, LockedBy, Goto, TypeOK, LockPcs, Locked, WorldPointers
  <2> QED
    BY <1>1, <2>1, OwnedQuiet DEF RegisterLock, program, Locked, TypeOK, WorldPointers
<1>2. CASE RegisterSwap(t) /\ wp = owp[t]
  <2>1. PICK w \in free : Allocate(w, AddThread(store[wp.w])) /\ wp' = Ptr(w, 1)
    BY <1>2 DEF RegisterSwap
  <2>2. w \in Worlds /\ wp.w \in Worlds /\ w # wp.w /\ Worlds \subseteq Items
    BY <1>0, CurrentWorld DEF TypeOK, OwnedBy, WorldsOwned, Items
  <2>3. /\ wp'.w = w /\ free' = free \ {w} /\ leaks' = leaks /\ list' = list
        /\ arg' = arg /\ fw' = fw /\ pstate' = pstate
        /\ \A u \in Threads, v \in Worlds : v \in chain'[u] <=> v \in chain[u] \/ (u = t /\ v = wp.w)
    BY <1>2, <2>1 DEF RegisterSwap, Allocate, TypeOK, Ptr, program
  <2>4. \A u \in Threads : LockedBy'[u] = LockedBy[u]
    BY <1>2, <2>1
    DEF RegisterSwap, LockedBy, Goto, TypeOK, LockPcs, Ptr, Safe, LockAgrees, HoldsLock, LastIsAlone, RefsAgree
  <2>5. PICK k2, h2 : /\ k2 = [x \in Items |-> IF x = w THEN "current" ELSE IF x = wp.w THEN "chain" ELSE k[x]]
                     /\ h2 = [x \in Items |-> IF x = wp.w THEN t ELSE h[x]]
    OBVIOUS
  <2>6. OwnedBy(k2, h2)'
    BY <1>0, <2>2, <2>3, <2>4, <2>5, ConstantsAssumption
    DEF OwnedBy, ThreadsOwn, WorldsOwned, PointersOwned, ArgsOwn, ListsOwn, OwnersExist, Items
  <2> QED
    BY <2>6 DEF Owned
<1>3. CASE RegisterSwap(t) /\ wp # owp[t]
  <2>1. /\ pc[t] = "join" /\ owp[t].w \in Worlds /\ owp[t].w # wp.w
        /\ Worlds \subseteq Items /\ owp[t].w \in LockedBy[t]
    BY <1>3
    DEF RegisterSwap, CallsAreConsistent, CallIsConsistent, WorldPointers, Safe, LockAgrees, HoldsLock, Items,
        LockedBy, LockPcs
  <2>2. /\ wp' = wp /\ free' = free /\ leaks' = leaks /\ list' = list
        /\ arg' = arg /\ fw' = fw /\ pstate' = pstate
        /\ \A u \in Threads, v \in Worlds : v \in chain'[u] <=> v \in chain[u] \/ (u = t /\ v = owp[t].w)
    BY <1>3 DEF RegisterSwap, TypeOK, program
  <2>3. \A u \in Threads, v \in Worlds : v \in LockedBy'[u] <=> v \in LockedBy[u] /\ u # t
    BY <1>3, <2>2 DEF RegisterSwap, LockedBy, Goto, TypeOK, LockPcs
  <2>4. PICK k2, h2 : /\ k2 = [x \in Items |-> IF x = owp[t].w THEN "chain" ELSE k[x]]
                     /\ h2 = [x \in Items |-> h[x]]
    OBVIOUS
  <2>5. \A v \in Worlds : v \in LockedBy[t] => v = owp[t].w
    BY DEF LockedBy
  <2>6. OwnedBy(k2, h2)'
    BY <1>0, <2>1, <2>2, <2>3, <2>4, <2>5, ConstantsAssumption
    DEF OwnedBy, ThreadsOwn, WorldsOwned, PointersOwned, ArgsOwn, ListsOwn, OwnersExist, Items
  <2> QED
    BY <2>6 DEF Owned
<1>4. ASSUME RegisterDrop(t), NEW w \in chain[t], chain' = [chain EXCEPT ![t] = @ \ {w}], CallFree(t, w, "drop")
      PROVE  Owned'
  <2>1. pc[t] = "drop" /\ arg[t] = Nil /\ w \in Worlds /\ Worlds \subseteq Items
    BY <1>4 DEF RegisterDrop, Safe, LocalsAllAgree, LocalsAgree, FreePcs, TypeOK, Items
  <2>2. /\ wp' = wp /\ free' = free /\ leaks' = leaks /\ list' = list /\ fw' = fw /\ pstate' = pstate
        /\ \A u \in Threads, v \in Worlds : v \in chain'[u] <=> v \in chain[u] /\ ~ (u = t /\ v = w)
        /\ \A u \in Threads, x \in Items : x = arg'[u] <=> x = arg[u] \/ (u = t /\ x = w)
    BY <1>4, <2>1, ConstantsAssumption DEF RegisterDrop, CallFree, TypeOK, program, library, Items
  <2>3. \A u \in Threads : LockedBy'[u] = LockedBy[u]
    BY <1>4, <2>1 DEF RegisterDrop, CallFree, Goto, TypeOK, LockPcs, library, LockedBy
  <2>4. PICK k2, h2 : /\ k2 = [x \in Items |-> IF x = w THEN "arg" ELSE k[x]]
                     /\ h2 = [x \in Items |-> h[x]]
    OBVIOUS
  <2>5. OwnedBy(k2, h2)'
    BY <1>0, <1>4, <2>1, <2>2, <2>3, <2>4, ConstantsAssumption
    DEF OwnedBy, ThreadsOwn, WorldsOwned, PointersOwned, ArgsOwn, ListsOwn, OwnersExist, Items
  <2> QED
    BY <2>5 DEF Owned
<1>5. CASE RegisterDrop(t) /\ UNCHANGED <<chain, arg, ret>>
  <2>1. \A u \in Threads : LockedBy'[u] = LockedBy[u]
    BY <1>5 DEF RegisterDrop, LockedBy, CallFree, Goto, TypeOK, LockPcs, library
  <2> QED
    BY <1>5, <2>1, OwnedQuiet DEF RegisterDrop, program, library
<1> QED
  BY <1>1, <1>2, <1>3, <1>4, <1>5 DEF RegisterStep, RegisterDrop

\* A free files its item and the world it has replaced under its timestamp.
LEMMA FreeOwned ==
  ASSUME IInv, Safe, Owned, NEW t \in Threads, FreeStep(t)
  PROVE  Owned'
<1> USE DEF IInv
<1>0. PICK k, h : OwnedBy(k, h)
  BY DEF Owned
<1>1. CASE FreeRead(t) \/ FreeReload(t) \/ FreeRetain(t)
  <2>1. \A u \in Threads : LockedBy'[u] = LockedBy[u]
    BY <1>1 DEF FreeRead, FreeReload, FreeRetain, LockedBy, Goto, TypeOK, LockPcs, library
  <2> QED
    BY <1>1, <2>1, OwnedQuiet DEF FreeRead, FreeReload, FreeRetain, program, library
<1>2. CASE FreeSwap(t) /\ wp # cwp[t]
  <2>1. \A u \in Threads : LockedBy'[u] = LockedBy[u]
    BY <1>2 DEF FreeSwap, LockedBy, Goto, TypeOK, LockPcs
  <2> QED
    BY <1>2, <2>1, OwnedQuiet DEF FreeSwap, program
<1>3. CASE FreeSwap(t) /\ wp = cwp[t]
  <2>1. PICK w \in free : Allocate(w, [store[wp.w] EXCEPT !.ts = @ + 1]) /\ wp' = Raised(w)
    BY <1>3 DEF FreeSwap
  <2>2. w \in Worlds /\ wp.w \in Worlds /\ w # wp.w /\ Worlds \subseteq Items /\ tss[t] # 0 /\ wp.lock \in 0 .. 1
    BY <1>0, <1>3, CurrentWorld
    DEF TypeOK, OwnedBy, WorldsOwned, Items, CallsAreConsistent, CallIsConsistent, FreeSwap, FreePcs
  <2>3. /\ wp'.w = w /\ free' = free \ {w} /\ leaks' = leaks /\ list' = list
        /\ arg' = arg /\ chain' = chain /\ pstate' = pstate
        /\ \A u \in Threads, v \in Worlds : v \in fw'[u] <=> v \in fw[u] \/ (u = t /\ v = wp.w /\ wp.lock = 0)
    BY <1>3, <2>1 DEF FreeSwap, Allocate, TypeOK, Ptr, Raised, ToFree, program
  <2>4. \A u \in Threads, v \in Worlds :
           v \in LockedBy'[u] <=> v \in LockedBy[u] \/ (v = wp.w /\ HoldsLock(u) /\ owp[u] = wp)
    <3>1. \A u \in Threads : pc'[u] \in LockPcs <=> pc[u] \in LockPcs
      BY <1>3 DEF FreeSwap, Goto, TypeOK, LockPcs
    <3>2. owp' = owp
      BY <1>3 DEF FreeSwap
    <3> QED
      BY <2>3, <3>1, <3>2, SwappedWorld
  <2>5. CASE wp.lock = 0
    <3>1. \A u \in Threads : ~ (HoldsLock(u) /\ owp[u] = wp)
      BY <2>2, <2>5, LockHolder
    <3>2. PICK k2, h2 : /\ k2 = [x \in Items |-> IF x = w THEN "current" ELSE IF x = wp.w THEN "replaced" ELSE k[x]]
                       /\ h2 = [x \in Items |-> IF x = wp.w THEN t ELSE h[x]]
      OBVIOUS
    <3>3. OwnedBy(k2, h2)'
      BY <1>0, <2>2, <2>3, <2>4, <2>5, <3>1, <3>2, ConstantsAssumption
      DEF OwnedBy, ThreadsOwn, WorldsOwned, PointersOwned, ArgsOwn, ListsOwn, OwnersExist, Items
    <3> QED
      BY <3>3 DEF Owned
  <2>6. CASE wp.lock = 1
    <3>1. PICK l \in Threads : /\ HoldsLock(l) /\ owp[l] = wp
                               /\ \A u \in Threads : HoldsLock(u) /\ owp[u] = wp => u = l
      BY <2>2, <2>6, LockHolder
    <3>2. PICK k2, h2 : /\ k2 = [x \in Items |-> IF x = w THEN "current" ELSE IF x = wp.w THEN "locked" ELSE k[x]]
                       /\ h2 = [x \in Items |-> IF x = wp.w THEN l ELSE h[x]]
      OBVIOUS
    <3>3. OwnedBy(k2, h2)'
      BY <1>0, <2>2, <2>3, <2>4, <2>6, <3>1, <3>2, ConstantsAssumption
      DEF OwnedBy, ThreadsOwn, WorldsOwned, PointersOwned, ArgsOwn, ListsOwn, OwnersExist, Items
    <3> QED
      BY <3>3 DEF Owned
  <2> QED
    BY <2>2, <2>5, <2>6
<1>4. CASE FreeAppend(t)
  <2> DEFINE T == FilesUnder(t)
  <2>1. T \in Timestamps /\ arg[t] \in Items
    BY SMTT(30), <1>4, CurrentWorld, ConstantsAssumption
    DEF FreeAppend, FreePcs, CallsAreConsistent, CallIsConsistent, Safe, CursorsAgree, Registered, Filing, Now,
        Timestamps, TypeOK
  <2>2. /\ wp' = wp /\ free' = free /\ leaks' = leaks /\ chain' = chain /\ pstate' = pstate
        /\ \A u \in Threads, v \in Worlds : v \in fw'[u] <=> v \in fw[u]
        /\ \A u \in Threads, x \in Items : x = arg'[u] <=> x = arg[u] /\ u # t
        /\ \A x \in Items, U \in Timestamps : x \in list'[U] <=> x \in list[U] \/ (U = T /\ x = arg[t])
    BY <1>4, <2>1, ConstantsAssumption DEF FreeAppend, ReturnFromFree, TypeOK, program, FilesUnder, Items
  <2>3. \A u \in Threads : LockedBy'[u] = LockedBy[u]
    BY <1>4 DEF FreeAppend, ReturnFromFree, Goto, TypeOK, LockPcs, LockedBy
  <2>4. PICK k2, h2 : /\ k2 = [x \in Items |-> IF x = arg[t] THEN "list" ELSE k[x]]
                     /\ h2 = [x \in Items |-> IF x = arg[t] THEN T ELSE h[x]]
    OBVIOUS
  <2>5. OwnedBy(k2, h2)'
    BY <1>0, <2>1, <2>2, <2>3, <2>4, ConstantsAssumption
    DEF OwnedBy, ThreadsOwn, WorldsOwned, PointersOwned, ArgsOwn, ListsOwn, OwnersExist, Items
  <2> QED
    BY <2>5 DEF Owned
<1>5. CASE FreeAppendWorld(t)
  <2> DEFINE T == FilesUnder(t)
  <2>1. T \in Timestamps /\ arg[t] = Nil /\ fw[t] \subseteq Worlds /\ Worlds \subseteq Items
    BY SMTT(30), <1>5, CurrentWorld, ConstantsAssumption
    DEF FreeAppendWorld, FreePcs, CallsAreConsistent, CallIsConsistent, Safe, CursorsAgree, Registered, Filing, Now,
        Timestamps, TypeOK,
        LocalsAllAgree, LocalsAgree, Items
  <2>2. /\ wp' = wp /\ free' = free /\ leaks' = leaks /\ chain' = chain /\ pstate' = pstate
        /\ \A u \in Threads, v \in Worlds : v \in fw'[u] <=> v \in fw[u] /\ u # t
        /\ \A u \in Threads, x \in Items : x = arg'[u] <=> x = arg[u]
        /\ \A x \in Items, U \in Timestamps : x \in list'[U] <=> x \in list[U] \/ (U = T /\ x \in fw[t])
    BY <1>5, <2>1, ConstantsAssumption DEF FreeAppendWorld, ReturnFromFree, TypeOK, program, FilesUnder, Items
  <2>3. \A u \in Threads : LockedBy'[u] = LockedBy[u]
    BY <1>5 DEF FreeAppendWorld, ReturnFromFree, Goto, TypeOK, LockPcs, LockedBy
  <2>4. PICK k2, h2 : /\ k2 = [x \in Items |-> IF x \in fw[t] THEN "list" ELSE k[x]]
                     /\ h2 = [x \in Items |-> IF x \in fw[t] THEN T ELSE h[x]]
    OBVIOUS
  <2>5. OwnedBy(k2, h2)'
    BY <1>0, <2>1, <2>2, <2>3, <2>4, ConstantsAssumption
    DEF OwnedBy, ThreadsOwn, WorldsOwned, PointersOwned, ArgsOwn, ListsOwn, OwnersExist, Items
  <2> QED
    BY <2>5 DEF Owned
<1>6. CASE FreeNow(t)
  <2>1. fw[t] = {} /\ arg[t] \in Items
    BY <1>6 DEF FreeNow, FreePcs, Safe, LocalsAllAgree, LocalsAgree, CallsAreConsistent, CallIsConsistent
  <2>2. /\ wp' = wp /\ leaks' = leaks /\ chain' = chain /\ list' = list
        /\ \A v \in Worlds : v \in free' <=> v \in free \/ v = arg[t]
        /\ \A p \in Pointers : pstate'[p] # "retired" <=> pstate[p] # "retired" \/ p = arg[t]
        /\ \A u \in Threads, v \in Worlds : v \in fw'[u] <=> v \in fw[u]
        /\ \A u \in Threads, x \in Items : x = arg'[u] <=> x = arg[u] /\ u # t
    BY <1>6, <2>1, ConstantsAssumption DEF FreeNow, Release, FreeWorlds, ReturnFromFree, TypeOK, Items
  <2>3. \A u \in Threads : LockedBy'[u] = LockedBy[u]
    BY <1>6 DEF FreeNow, ReturnFromFree, Goto, TypeOK, LockPcs, LockedBy
  <2>4. PICK k2, h2 : /\ k2 = [x \in Items |-> IF x = arg[t] THEN (IF x \in Worlds THEN "free" ELSE "none") ELSE k[x]]
                     /\ h2 = [x \in Items |-> h[x]]
    OBVIOUS
  <2>5. OwnedBy(k2, h2)'
    BY <1>0, <2>1, <2>2, <2>3, <2>4, ConstantsAssumption
    DEF OwnedBy, ThreadsOwn, WorldsOwned, PointersOwned, ArgsOwn, ListsOwn, OwnersExist, Items
  <2> QED
    BY <2>5 DEF Owned
<1> QED
  BY <1>1, <1>2, <1>3, <1>4, <1>5, <1>6 DEF FreeStep

\* A checkin replaces a locked world, and releases what it has cut off a list.
LEMMA CheckinOwned ==
  ASSUME IInv, Safe, Owned, NEW t \in Threads, CheckinStep(t)
  PROVE  Owned'
<1> USE DEF IInv
<1>0. PICK k, h : OwnedBy(k, h)
  BY DEF Owned
<1>1. CASE Checkin(t) \/ CheckinRange(t) \/ CheckinDecrement(t) \/ CheckinSnip(t) \/ CheckinDone(t)
  <2>1. \A u \in Threads : LockedBy'[u] = LockedBy[u]
    BY <1>1
    DEF Checkin, BeginCheckin, BitStep, CheckinRange, CheckinDecrement, CheckinSnip, CheckinDone, LockedBy, Goto,
        TypeOK, LockPcs, library
  <2> QED
    BY <1>1, <2>1, OwnedQuiet DEF Checkin, CheckinRange, CheckinDecrement, CheckinSnip, CheckinDone, program, library
<1>2. CASE CheckinBit(t)
  <2>1. wp'.w = wp.w
    BY <1>2 DEF CheckinBit, TypeOK, WorldPointers
  <2>2. \A u \in Threads : LockedBy'[u] = LockedBy[u]
    BY <1>2, <2>1 DEF CheckinBit, BitStep, LockedBy, Goto, TypeOK, LockPcs
  <2> QED
    BY <1>2, <2>1, <2>2, OwnedQuiet DEF CheckinBit, program
<1>3. CASE CheckinCopy(t) /\ wp # cwp[t]
  <2>1. \A u \in Threads : LockedBy'[u] = LockedBy[u]
    BY <1>3 DEF CheckinCopy, LockedBy, TypeOK, LockPcs
  <2> QED
    BY <1>3, <2>1, OwnedQuiet DEF CheckinCopy, program
<1>4. CASE CheckinCopy(t) /\ wp = cwp[t]
  <2>1. PICK w \in free : Allocate(w, store[wp.w]) /\ wp' = Ptr(w, 1) /\ owp' = [owp EXCEPT ![t] = Ptr(w, 1)]
    BY <1>4 DEF CheckinCopy
  <2>2. /\ w \in Worlds /\ wp.w \in Worlds /\ w # wp.w /\ Worlds \subseteq Items
        /\ tss[t] # 0 /\ arg[t] = Nil /\ wp.lock \in 0 .. 1
    BY <1>0, <1>4, CurrentWorld
    DEF TypeOK, OwnedBy, WorldsOwned, Items, CallsAreConsistent, CallIsConsistent, CheckinCopy, CheckinPcs,
        FreePcs, Safe, LocalsAllAgree, LocalsAgree
  <2>3. /\ wp'.w = w /\ free' = free \ {w} /\ leaks' = leaks /\ list' = list
        /\ fw' = fw /\ chain' = chain /\ pstate' = pstate
        /\ \A u \in Threads, x \in Items : x = arg'[u] <=> x = arg[u] \/ (u = t /\ x = wp.w /\ wp.lock = 0)
    BY <1>4, <2>1, <2>2, ConstantsAssumption DEF CheckinCopy, Allocate, TypeOK, Ptr, ToFree, CallFree, program, Items
  <2>4. \A u \in Threads, v \in Worlds :
           v \in LockedBy'[u] <=> v \in LockedBy[u] \/ (v = wp.w /\ HoldsLock(u) /\ owp[u] = wp)
    <3>1. \A u \in Threads : pc'[u] \in LockPcs <=> pc[u] \in LockPcs
      BY <1>4 DEF CheckinCopy, CallFree, Goto, TypeOK, LockPcs
    <3>2. \A u \in Threads : pc[u] \in LockPcs => owp'[u].w = owp[u].w
      BY <1>4, <2>1 DEF CheckinCopy, TypeOK, LockPcs
    <3> QED
      BY <2>3, <3>1, <3>2, SwappedWorld
  <2>5. CASE wp.lock = 0
    <3>1. \A u \in Threads : ~ (HoldsLock(u) /\ owp[u] = wp)
      BY <2>2, <2>5, LockHolder
    <3>2. PICK k2, h2 : /\ k2 = [x \in Items |-> IF x = w THEN "current" ELSE IF x = wp.w THEN "arg" ELSE k[x]]
                       /\ h2 = [x \in Items |-> IF x = wp.w THEN t ELSE h[x]]
      OBVIOUS
    <3>3. OwnedBy(k2, h2)'
      BY <1>0, <2>2, <2>3, <2>4, <2>5, <3>1, <3>2, ConstantsAssumption
      DEF OwnedBy, ThreadsOwn, WorldsOwned, PointersOwned, ArgsOwn, ListsOwn, OwnersExist, Items
    <3> QED
      BY <3>3 DEF Owned
  <2>6. CASE wp.lock = 1
    <3>1. PICK l \in Threads : /\ HoldsLock(l) /\ owp[l] = wp
                               /\ \A u \in Threads : HoldsLock(u) /\ owp[u] = wp => u = l
      BY <2>2, <2>6, LockHolder
    <3>2. PICK k2, h2 : /\ k2 = [x \in Items |-> IF x = w THEN "current" ELSE IF x = wp.w THEN "locked" ELSE k[x]]
                       /\ h2 = [x \in Items |-> IF x = wp.w THEN l ELSE h[x]]
      OBVIOUS
    <3>3. OwnedBy(k2, h2)'
      BY <1>0, <2>2, <2>3, <2>4, <2>6, <3>1, <3>2, ConstantsAssumption
      DEF OwnedBy, ThreadsOwn, WorldsOwned, PointersOwned, ArgsOwn, ListsOwn, OwnersExist, Items
    <3> QED
      BY <3>3 DEF Owned
  <2> QED
    BY <2>2, <2>5, <2>6
<1>5. CASE CheckinRelease(t)
  <2> DEFINE T == cur[t] - 1
  <2>1. T \in Timestamps /\ snip[t] = list[T]
    BY <1>5, ConstantsAssumption
    DEF CheckinRelease, CallsAreConsistent, CallIsConsistent, Safe, ListsAgree, Timestamps, TypeOK
  <2>2. /\ wp' = wp /\ leaks' = leaks /\ chain' = chain /\ fw' = fw /\ arg' = arg
        /\ \A v \in Worlds : v \in free' <=> v \in free \/ v \in list[T]
        /\ \A p \in Pointers : pstate'[p] # "retired" <=> pstate[p] # "retired" \/ p \in list[T]
        /\ \A x \in Items, U \in Timestamps : x \in list'[U] <=> x \in list[U] /\ U # T
    BY <1>5, <2>1 DEF CheckinRelease, Emptied, Release, FreeWorlds, TypeOK
  <2>3. \A u \in Threads : LockedBy'[u] = LockedBy[u]
    BY <1>5 DEF CheckinRelease, Goto, TypeOK, LockPcs, LockedBy
  <2>4. PICK k2, h2 : /\ k2 = [x \in Items |-> IF x \in list[T] THEN (IF x \in Worlds THEN "free" ELSE "none") ELSE k[x]]
                     /\ h2 = [x \in Items |-> h[x]]
    OBVIOUS
  <2>5. OwnedBy(k2, h2)'
    BY <1>0, <2>1, <2>2, <2>3, <2>4, ConstantsAssumption
    DEF OwnedBy, ThreadsOwn, WorldsOwned, PointersOwned, ArgsOwn, ListsOwn, OwnersExist, Items
  <2> QED
    BY <2>5 DEF Owned
<1> QED
  BY <1>1, <1>2, <1>3, <1>4, <1>5 DEF CheckinStep

\* An unregistration leaks the world it had locked, frees it, or wipes all.
LEMMA UnregisterOwned ==
  ASSUME IInv, Safe, Owned, NEW t \in Threads, UnregisterStep(t)
  PROVE  Owned'
<1> USE DEF IInv
<1>0. PICK k, h : OwnedBy(k, h)
  BY DEF Owned
<1>1. CASE Unregister(t) \/ UnregisterBegin(t) \/ UnregisterFail(t)
  <2>1. \A u \in Threads : LockedBy'[u] = LockedBy[u]
    BY <1>1
    DEF Unregister, UnregisterBegin, UnregisterFail, BeginCheckin, BitStep, LockedBy, Goto, TypeOK, LockPcs, library
  <2> QED
    BY <1>1, <2>1, OwnedQuiet DEF Unregister, UnregisterBegin, UnregisterFail, program, library
<1>2. CASE UnregisterLock(t)
  <2>1. wp'.w = wp.w
    BY <1>2 DEF UnregisterLock, Locked, TypeOK, WorldPointers
  <2>2. \A u \in Threads : LockedBy'[u] = LockedBy[u]
    BY <1>2, <2>1 DEF UnregisterLock, Restart, Locked, LockedBy, Goto, TypeOK, LockPcs, WorldPointers
  <2> QED
    BY <1>2, <2>1, <2>2, OwnedQuiet DEF UnregisterLock, program
<1>3. CASE UnregisterSwap(t)
  <2>1. PICK w \in free : wp'.w = w /\ free' = free \ {w} /\ \E l \in {"leak", "wipe"} : Goto(t, l)
    BY <1>3 DEF UnregisterSwap, Allocate, Ptr, Locked
  <2>2. /\ w \in Worlds /\ wp.w \in Worlds /\ w # wp.w /\ Worlds \subseteq Items
        /\ HoldsLock(t) /\ owp[t] = wp /\ tss[t] # 0
    BY <1>0, <1>3, CurrentWorld
    DEF TypeOK, OwnedBy, WorldsOwned, Items, UnregisterSwap, Safe, LocalsAllAgree, LocalsAgree, HoldsLock,
        CallsAreConsistent, CallIsConsistent
  <2>3. /\ leaks' = leaks /\ list' = list /\ fw' = fw /\ chain' = chain /\ pstate' = pstate /\ arg' = arg
    BY <1>3 DEF UnregisterSwap, program
  <2>4. \A u \in Threads, v \in Worlds : v \in LockedBy'[u] <=> v \in LockedBy[u] \/ (v = wp.w /\ u = t)
    <3>1. \A u \in Threads : pc'[u] \in LockPcs <=> pc[u] \in LockPcs
      BY <1>3, <2>1 DEF UnregisterSwap, Goto, TypeOK, LockPcs
    <3>2. owp' = owp
      BY <1>3 DEF UnregisterSwap
    <3>3. \A u \in Threads : HoldsLock(u) /\ owp[u] = wp => u = t
      BY <2>2, LockHolder
    <3>4. \A u \in Threads, v \in Worlds :
             v \in LockedBy'[u] <=> v \in LockedBy[u] \/ (v = wp.w /\ HoldsLock(u) /\ owp[u] = wp)
      BY <2>1, <3>1, <3>2, SwappedWorld
    <3> QED
      BY <2>2, <3>3, <3>4
  <2>5. PICK k2, h2 : /\ k2 = [x \in Items |-> IF x = w THEN "current" ELSE IF x = wp.w THEN "locked" ELSE k[x]]
                     /\ h2 = [x \in Items |-> IF x = wp.w THEN t ELSE h[x]]
    OBVIOUS
  <2>6. OwnedBy(k2, h2)'
    BY <1>0, <2>1, <2>2, <2>3, <2>4, <2>5, ConstantsAssumption
    DEF OwnedBy, ThreadsOwn, WorldsOwned, PointersOwned, ArgsOwn, ListsOwn, OwnersExist, Items
  <2> QED
    BY <2>6 DEF Owned
<1>4. CASE UnregisterUnlock(t) /\ wp.w = owp[t].w /\ wp.lock = 1
  <2>1. wp'.w = wp.w
    BY <1>4 DEF UnregisterUnlock, Unlocked, TypeOK, WorldPointers
  <2>2. \A u \in Threads : LockedBy'[u] = LockedBy[u]
    BY <1>4, <2>1 DEF UnregisterUnlock, Restart, LockedBy, Goto, TypeOK, LockPcs
  <2> QED
    BY <1>4, <2>1, <2>2, OwnedQuiet DEF UnregisterUnlock, program
<1>5. CASE UnregisterUnlock(t) /\ ~ (wp.w = owp[t].w /\ wp.lock = 1)
  <2>1. /\ pc[t] = "unlock" /\ owp[t].w \in Worlds /\ owp[t].w # wp.w /\ arg[t] = Nil
        /\ Worlds \subseteq Items /\ owp[t].w \in LockedBy[t]
    BY <1>5
    DEF UnregisterUnlock, CallsAreConsistent, CallIsConsistent, WorldPointers, Safe, LockAgrees, HoldsLock, Items,
        LockedBy, LockPcs, LocalsAllAgree, LocalsAgree, FreePcs
  <2>2. /\ wp' = wp /\ free' = free /\ leaks' = leaks /\ list' = list
        /\ chain' = chain /\ fw' = fw /\ pstate' = pstate
        /\ \A u \in Threads, x \in Items : x = arg'[u] <=> x = arg[u] \/ (u = t /\ x = owp[t].w)
    BY <1>5, <2>1, ConstantsAssumption DEF UnregisterUnlock, CallFree, TypeOK, program, Items
  <2>3. \A u \in Threads, v \in Worlds : v \in LockedBy'[u] <=> v \in LockedBy[u] /\ u # t
    BY <1>5, <2>1, <2>2 DEF UnregisterUnlock, CallFree, LockedBy, Goto, TypeOK, LockPcs
  <2>4. \A v \in Worlds : v \in LockedBy[t] => v = owp[t].w
    BY DEF LockedBy
  <2>5. PICK k2, h2 : /\ k2 = [x \in Items |-> IF x = owp[t].w THEN "arg" ELSE k[x]]
                     /\ h2 = [x \in Items |-> h[x]]
    OBVIOUS
  <2>6. OwnedBy(k2, h2)'
    BY <1>0, <2>1, <2>2, <2>3, <2>4, <2>5, ConstantsAssumption
    DEF OwnedBy, ThreadsOwn, WorldsOwned, PointersOwned, ArgsOwn, ListsOwn, OwnersExist, Items
  <2> QED
    BY <2>6 DEF Owned
<1>6. CASE UnregisterLeak(t)
  <2>1. /\ pc[t] = "leak" /\ owp[t].w \in Worlds /\ owp[t].w # wp.w
        /\ Worlds \subseteq Items /\ owp[t].w \in LockedBy[t]
    BY <1>6
    DEF UnregisterLeak, CallsAreConsistent, CallIsConsistent, WorldPointers, Safe, LastIsAlone, Items, LockedBy,
        LockPcs
  <2>2. /\ wp' = wp /\ free' = free /\ leaks' = leaks \cup {owp[t].w} /\ list' = list
        /\ chain' = chain /\ fw' = fw /\ pstate' = pstate /\ arg' = arg
    BY <1>6, <2>1 DEF UnregisterLeak, Unregistered, program
  <2>3. \A u \in Threads, v \in Worlds : v \in LockedBy'[u] <=> v \in LockedBy[u] /\ u # t
    BY <1>6, <2>1, <2>2 DEF UnregisterLeak, Unregistered, Restart, LockedBy, Goto, TypeOK, LockPcs
  <2>4. \A v \in Worlds : v \in LockedBy[t] => v = owp[t].w
    BY DEF LockedBy
  <2>5. PICK k2, h2 : /\ k2 = [x \in Items |-> IF x = owp[t].w THEN "leaks" ELSE k[x]]
                     /\ h2 = [x \in Items |-> h[x]]
    OBVIOUS
  <2>6. OwnedBy(k2, h2)'
    BY <1>0, <2>1, <2>2, <2>3, <2>4, <2>5, ConstantsAssumption
    DEF OwnedBy, ThreadsOwn, WorldsOwned, PointersOwned, ArgsOwn, ListsOwn, OwnersExist, Items
  <2> QED
    BY <2>6 DEF Owned
<1>7. CASE UnregisterWipe(t)
  <2>1. /\ pc[t] = "wipe" /\ owp[t].w \in Worlds /\ owp[t].w # wp.w
        /\ Worlds \subseteq Items /\ owp[t].w \in LockedBy[t]
    BY <1>7
    DEF UnregisterWipe, CallsAreConsistent, CallIsConsistent, WorldPointers, Safe, LastIsAlone, Items, LockedBy,
        LockPcs
  <2>2. \A T \in Timestamps : list[T] = {}
    BY <2>1
    DEF Safe, LastIsAlone, ListsAgree, Awaited, Registered, Empties, CallsAreConsistent, CallIsConsistent,
        CheckinPcs, LoopPcs
  <2>3. /\ wp' = wp /\ leaks \subseteq Worlds
        /\ \A v \in Worlds : v \notin leaks'
        /\ \A v \in Worlds : v \in free' <=> v \in free \/ v \in leaks \/ v = owp[t].w
        /\ \A x \in Items, T \in Timestamps : x \in list'[T] <=> x \in list[T]
        /\ chain' = chain /\ fw' = fw /\ pstate' = pstate /\ arg' = arg
    BY <1>7, <2>1, <2>2 DEF UnregisterWipe, FreeWorlds, TypeOK, program
  <2>4. \A u \in Threads, v \in Worlds : v \in LockedBy'[u] <=> v \in LockedBy[u] /\ u # t
    BY <1>7, <2>1, <2>3 DEF UnregisterWipe, LockedBy, Goto, TypeOK, LockPcs
  <2>5. \A v \in Worlds : v \in LockedBy[t] => v = owp[t].w
    BY DEF LockedBy
  <2>6. PICK k2, h2 : /\ k2 = [x \in Items |-> IF x = owp[t].w \/ x \in leaks THEN "free" ELSE k[x]]
                     /\ h2 = [x \in Items |-> h[x]]
    OBVIOUS
  <2>7. OwnedBy(k2, h2)'
    BY <1>0, <2>1, <2>3, <2>4, <2>5, <2>6, ConstantsAssumption
    DEF OwnedBy, ThreadsOwn, WorldsOwned, PointersOwned, ArgsOwn, ListsOwn, OwnersExist, Items
  <2> QED
    BY <2>7 DEF Owned
<1>8. CASE UnregisterOpen(t)
  <2>1. wp'.w = wp.w
    BY <1>8 DEF UnregisterOpen, Unlocked, TypeOK, WorldPointers
  <2>2. \A u \in Threads : LockedBy'[u] = LockedBy[u]
    BY <1>8, <2>1 DEF UnregisterOpen, Unregistered, Restart, LockedBy, Goto, TypeOK, LockPcs
  <2> QED
    BY <1>8, <2>1, <2>2, OwnedQuiet DEF UnregisterOpen, Unregistered, program
<1> QED
  BY <1>1, <1>2, <1>3, <1>4, <1>5, <1>6, <1>7, <1>8 DEF UnregisterStep

\* The program frees a pointer, or links one that was released.
LEMMA ProgramOwned ==
  ASSUME IInv, Safe, Owned, NEW t \in Threads, ProgramStep(t)
  PROVE  Owned'
<1> USE DEF IInv
<1>0. PICK k, h : OwnedBy(k, h)
  BY DEF Owned
<1>1. ASSUME NEW p \in Pointers, Free(t, p) PROVE Owned'
  <2>1. pc[t] = "idle" /\ arg[t] = Nil /\ pstate[p] # "retired" /\ p \in Items /\ p \notin Worlds
    BY <1>1, ConstantsAssumption DEF Free, Safe, LocalsAllAgree, LocalsAgree, FreePcs, Items
  <2>2. /\ wp' = wp /\ free' = free /\ leaks' = leaks /\ list' = list /\ fw' = fw /\ chain' = chain
        /\ \A u \in Threads, x \in Items : x = arg'[u] <=> x = arg[u] \/ (u = t /\ x = p)
        /\ \A q \in Pointers : pstate'[q] = "retired" <=> pstate[q] = "retired" \/ q = p
    BY <1>1, <2>1, ConstantsAssumption DEF Free, CallFree, TypeOK, library, Items
  <2>3. \A u \in Threads : LockedBy'[u] = LockedBy[u]
    BY <1>1, <2>1 DEF Free, CallFree, Goto, TypeOK, LockPcs, library, LockedBy
  <2>4. PICK k2, h2 : /\ k2 = [x \in Items |-> IF x = p THEN "arg" ELSE k[x]]
                     /\ h2 = [x \in Items |-> IF x = p THEN t ELSE h[x]]
    OBVIOUS
  <2>5. OwnedBy(k2, h2)'
    BY <1>0, <1>1, <2>1, <2>2, <2>3, <2>4, ConstantsAssumption
    DEF OwnedBy, ThreadsOwn, WorldsOwned, PointersOwned, ArgsOwn, ListsOwn, OwnersExist, Items
  <2> QED
    BY <2>5 DEF Owned
<1>2. ASSUME NEW p \in Pointers, Publish(t, p) PROVE Owned'
  <2>1. \A u \in Threads : LockedBy'[u] = LockedBy[u]
    BY <1>2 DEF Publish, library, locals, LockedBy
  <2> QED
    BY <1>2, <2>1, OwnedQuiet DEF Publish, library, locals, TypeOK
<1> QED
  BY <1>1, <1>2 DEF ProgramStep

\* A reset gives the leaks and the current world back to the allocator.
LEMMA ResetOwned ==
  ASSUME IInv, Safe, Owned, Reset
  PROVE  Owned'
<1> USE DEF IInv
<1>0. PICK k, h : OwnedBy(k, h)
  BY DEF Owned
<1>1. PICK w \in free \cup leaks \cup {wp.w} :
          wp' = Ptr(w, 0) /\ free' = (free \cup leaks \cup {wp.w}) \ {w}
  BY DEF Reset
<1>2. w \in Worlds /\ wp.w \in Worlds /\ Worlds \subseteq Items /\ wp'.w = w
  BY <1>1, CurrentWorld DEF TypeOK, Items, Ptr
<1>3. /\ leaks \subseteq Worlds /\ list' = list /\ fw' = fw /\ chain' = chain /\ pstate' = pstate /\ arg' = arg
      /\ \A v \in Worlds : v \notin leaks'
      /\ \A v \in Worlds : v \in free' <=> v \in free \cup leaks \cup {wp.w} /\ v # w
  BY <1>1 DEF Reset, TypeOK, program, locals
<1>4. \A u \in Threads : LockedBy[u] = {} /\ LockedBy'[u] = {}
  BY DEF Reset, LockedBy, LockPcs, program, locals
<1>5. PICK k2, h2 : /\ k2 = [x \in Items |-> IF x = w THEN "current" ELSE IF x = wp.w \/ x \in leaks THEN "free" ELSE k[x]]
                   /\ h2 = [x \in Items |-> h[x]]
  OBVIOUS
<1>6. OwnedBy(k2, h2)'
  BY <1>0, <1>2, <1>3, <1>4, <1>5, ConstantsAssumption
  DEF OwnedBy, ThreadsOwn, WorldsOwned, PointersOwned, ArgsOwn, ListsOwn, OwnersExist, Items
<1> QED
  BY <1>6 DEF Owned

\* One world is current, the others are free, and no pointer is retired.
LEMMA InitOwned == Init => Owned
<1> SUFFICES ASSUME Init PROVE Owned
  OBVIOUS
<1>1. PICK w \in Worlds : wp = Ptr(w, 0) /\ free = Worlds \ {w}
  BY DEF Init
<1>2. PICK k, h : /\ k = [x \in Items |-> IF x = w THEN "current" ELSE IF x \in Worlds THEN "free" ELSE "none"]
                  /\ h = [x \in Items |-> Nil]
  OBVIOUS
<1>3. wp.w = w /\ leaks = {} /\ \A u \in Threads : LockedBy[u] = {}
  BY <1>1 DEF Init, Ptr, LockedBy, LockPcs
<1>4. OwnedBy(k, h)
  BY <1>1, <1>2, <1>3, ConstantsAssumption
  DEF Init, OwnedBy, ThreadsOwn, WorldsOwned, PointersOwned, ArgsOwn, ListsOwn, OwnersExist, Items
<1> QED
  BY <1>4 DEF Owned

\* Every step of Aba keeps one owner for every world and every pointer.
LEMMA NextOwned == IInv /\ Safe /\ Owned /\ [Next]_vars => Owned'
<1> SUFFICES ASSUME IInv, Safe, Owned, [Next]_vars PROVE Owned'
  OBVIOUS
<1>1. ASSUME NEW t \in Threads,
             RegisterStep(t) \/ FreeStep(t) \/ CheckinStep(t) \/ UnregisterStep(t) \/ ProgramStep(t)
      PROVE  Owned'
  BY <1>1, RegisterOwned, FreeOwned, CheckinOwned, UnregisterOwned, ProgramOwned
<1>2. CASE Reset
  BY <1>2, ResetOwned
<1>3. CASE UNCHANGED vars
  <2>1. \A u \in Threads : LockedBy'[u] = LockedBy[u]
    BY <1>3 DEF vars, library, locals, LockedBy
  <2> QED
    BY <1>3, <2>1, OwnedQuiet DEF vars, library, program, locals
<1> QED
  BY <1>1, <1>2, <1>3 DEF Next

-----------------------------------------------------------------------------
(* The local variables of the other threads, and the current world.        *)

\* What a thread may do next.
Step(t) == RegisterStep(t) \/ FreeStep(t) \/ CheckinStep(t) \/ UnregisterStep(t) \/ ProgramStep(t)

\* A step of one thread leaves the local variables of the others alone.
LEMMA OtherThreads ==
  ASSUME TypeOK, NEW t \in Threads, Step(t), NEW u \in Threads, u # t
  PROVE  /\ tss'[u] = tss[u] /\ pc'[u] = pc[u] /\ op'[u] = op[u] /\ ret'[u] = ret[u]
         /\ new'[u] = new[u] /\ cur'[u] = cur[u] /\ owp'[u] = owp[u] /\ cwp'[u] = cwp[u]
         /\ arg'[u] = arg[u] /\ chain'[u] = chain[u] /\ fw'[u] = fw[u] /\ snip'[u] = snip[u]
<1> USE DEF TypeOK, Goto, CallFree, library, program, locals
<1>1. CASE RegisterStep(t)
  BY <1>1 DEF RegisterStep, RegisterLock, RegisterSwap, RegisterDrop
<1>2. CASE FreeStep(t)
  BY SMTT(30), <1>2
  DEF FreeStep, FreeRead, FreeReload, FreeSwap, FreeRetain, FreeAppend, FreeAppendWorld, FreeNow, ReturnFromFree
<1>3. CASE CheckinStep(t)
  BY <1>3
  DEF CheckinStep, Checkin, BeginCheckin, CheckinBit, CheckinCopy, CheckinRange, CheckinDecrement, CheckinSnip,
      CheckinRelease, CheckinDone
<1>4. CASE UnregisterStep(t)
  BY <1>4
  DEF UnregisterStep, Unregister, UnregisterBegin, BeginCheckin, UnregisterLock, UnregisterSwap, UnregisterFail,
      UnregisterUnlock,
              UnregisterLeak, UnregisterWipe, UnregisterOpen, Unregistered, Restart
<1>5. CASE ProgramStep(t)
  BY <1>5 DEF ProgramStep, Free, Publish
<1> QED
  BY <1>1, <1>2, <1>3, <1>4, <1>5 DEF Step

\* The address of the current world changes only to one that was free.
LEMMA CurrentIsNew ==
  ASSUME TypeOK, NEW t \in Threads, Step(t)
  PROVE  wp'.w = wp.w \/ wp'.w \in free
<1> USE DEF TypeOK, WorldPointers, library, program, locals, Ptr, Locked, Unlocked
<1>1. CASE RegisterStep(t)
  BY <1>1 DEF RegisterStep, RegisterLock, RegisterSwap, RegisterDrop
<1>2. CASE FreeStep(t)
  BY <1>2 DEF FreeStep, FreeRead, FreeReload, FreeSwap, FreeRetain, FreeAppend, FreeAppendWorld, FreeNow, Raised
<1>3. CASE CheckinStep(t)
  BY <1>3
  DEF CheckinStep, Checkin, CheckinBit, CheckinCopy, CheckinRange, CheckinDecrement, CheckinSnip, CheckinRelease,
      CheckinDone
<1>4. CASE UnregisterStep(t)
  <2>1. CASE UnregisterSwap(t)
    BY <2>1 DEF UnregisterSwap
  <2> QED
    BY <1>4, <2>1 DEF UnregisterStep, Unregister, UnregisterBegin, UnregisterLock, UnregisterFail, UnregisterUnlock,
                      UnregisterLeak, UnregisterWipe, UnregisterOpen
<1>5. CASE ProgramStep(t)
  BY <1>5 DEF ProgramStep, Free, Publish
<1> QED
  BY <1>1, <1>2, <1>3, <1>4, <1>5 DEF Step

\* The current world is allocated.
LEMMA CurrentInUse ==
  ASSUME TypeOK, Owned
  PROVE  wp.w \notin free /\ wp.w \notin leaks
BY CurrentWorld DEF Owned, OwnedBy, WorldsOwned

-----------------------------------------------------------------------------
(* The local variables of a thread.                                        *)

\* The local variables of the thread that takes a step agree after it, and
\* those of the others are what they were.
LEMMA LocalsStep ==
  ASSUME IInv, IInv', Safe, Owned, NEW t \in Threads, Step(t)
  PROVE  LocalsAllAgree'
<1> USE DEF IInv, Goto, library, program, locals
<1>0. LocalsAgree(t) /\ CallIsConsistent(t)
  BY DEF Safe, LocalsAllAgree, CallsAreConsistent
<1>1. ASSUME NEW u \in Threads, u # t PROVE LocalsAgree(u)'
  <2>1. LocalsAgree(u)
    BY DEF Safe, LocalsAllAgree
  <2> QED
    BY <1>1, <2>1, OtherThreads DEF LocalsAgree, HoldsLock, InCheckin
<1> SUFFICES LocalsAgree(t)'
  BY <1>1 DEF LocalsAllAgree
<1> USE <1>0 DEF LocalsAgree, HoldsLock, InCheckin, CallIsConsistent, FreePcs, LoopPcs, CheckinPcs, TypeOK
<1>2. CASE RegisterStep(t)
  <2>1. CASE RegisterLock(t)
    BY <2>1 DEF RegisterLock, Locked, WorldPointers
  <2>2. CASE RegisterSwap(t)
    BY <2>2 DEF RegisterSwap
  <2>3. CASE RegisterDrop(t)
    BY <2>3, ConstantsAssumption DEF RegisterDrop, CallFree, NoPtr
  <2> QED
    BY <1>2, <2>1, <2>2, <2>3 DEF RegisterStep
<1>3. CASE FreeStep(t)
  <2>1. CASE FreeRead(t) \/ FreeReload(t)
    BY <2>1 DEF FreeRead, FreeReload
  <2>2. CASE FreeSwap(t)
    BY <2>2 DEF FreeSwap
  <2>3. CASE FreeRetain(t)
    BY <2>3 DEF FreeRetain
  <2>4. CASE FreeAppend(t) \/ FreeAppendWorld(t) \/ FreeNow(t)
    BY <2>4, ConstantsAssumption DEF FreeAppend, FreeAppendWorld, FreeNow, ReturnFromFree, Items
  <2> QED
    BY <1>3, <2>1, <2>2, <2>3, <2>4 DEF FreeStep
<1>4. CASE CheckinStep(t)
  <2> USE DEF BitStep, WorldPointers
  <2>1. CASE Checkin(t)
    BY <2>1, CurrentWorld DEF Checkin, BeginCheckin, UpToDate
  <2>2. CASE CheckinBit(t)
    BY <2>2 DEF CheckinBit, RetryWith
  <2>3. CASE CheckinCopy(t)
    BY <2>3, CurrentInUse, ConstantsAssumption DEF CheckinCopy, CallFree, Ptr, ToFree
  <2>4. CASE CheckinRange(t)
    BY <2>4 DEF CheckinRange
  <2>5. CASE CheckinDecrement(t)
    BY <2>5 DEF CheckinDecrement
  <2>6. CASE CheckinSnip(t) \/ CheckinRelease(t)
    BY <2>6 DEF CheckinSnip, CheckinRelease
  <2>7. CASE CheckinDone(t)
    BY <2>7 DEF CheckinDone
  <2> QED
    BY <1>4, <2>1, <2>2, <2>3, <2>4, <2>5, <2>6, <2>7 DEF CheckinStep
<1>5. CASE UnregisterStep(t)
  <2> USE DEF WorldPointers
  <2>1. CASE Unregister(t)
    BY <2>1 DEF Unregister
  <2>2. CASE UnregisterBegin(t)
    <3>1. tss[t] <= store[wp.w].ts + 1 /\ tss[t] \in Int /\ store[wp.w].ts \in Int
      BY <2>2, CurrentWorld DEF UnregisterBegin, Safe, CursorsAgree, Registered, Cursor, Reach, Now
    <3>2. CASE UpToDate(t)
      <4>1. /\ pc[t] = "ubegin" /\ pc'[t] = "ulock" /\ owp'[t] = wp /\ new'[t] = store[wp.w].ts
            /\ tss'[t] = tss[t] /\ ret'[t] = ret[t] /\ cwp'[t] = cwp[t] /\ arg'[t] = arg[t] /\ fw'[t] = fw[t]
        BY <2>2, <3>2 DEF UnregisterBegin
      <4>2. tss[t] = new'[t] + 1
        BY <3>1, <3>2, <4>1, CurrentWorld, ConstantsAssumption DEF UpToDate
      <4> QED
        BY <4>1, <4>2
    <3>3. CASE ~ UpToDate(t)
      BY <2>2, <3>3, CurrentWorld DEF UnregisterBegin, BeginCheckin, BitStep, UpToDate
    <3> QED
      BY <3>2, <3>3
  <2>3. CASE UnregisterLock(t)
    <3>1. CASE owp[t].lock = 0 /\ wp.lock = 0 /\ wp.w = owp[t].w
      <4>1. /\ pc[t] = "ulock" /\ pc'[t] = "leave" /\ owp'[t] = Locked(wp) /\ cwp'[t] = Locked(wp) /\ new'[t] = new[t]
            /\ tss'[t] = tss[t] /\ ret'[t] = ret[t] /\ arg'[t] = arg[t] /\ fw'[t] = fw[t]
        BY <2>3, <3>1 DEF UnregisterLock
      <4>2. Locked(wp).lock = 1
        BY DEF Locked
      <4> QED
        BY <4>1, <4>2
    <3>2. CASE ~ (owp[t].lock = 0 /\ wp.lock = 0 /\ wp.w = owp[t].w)
      BY <2>3, <3>2 DEF UnregisterLock, Restart
    <3> QED
      BY <3>1, <3>2
  <2>4. CASE UnregisterSwap(t)
    BY <2>4 DEF UnregisterSwap
  <2>5. CASE UnregisterFail(t)
    <3>1. MayLeave(t, cwp[t]) /\ MayLeave(t, wp) => wp = cwp[t]
      BY <2>5 DEF UnregisterFail, MayLeave, Safe, LockAgrees
    <3> QED
      BY <2>5, <3>1 DEF UnregisterFail
  <2>6. CASE UnregisterUnlock(t)
    BY <2>6, ConstantsAssumption DEF UnregisterUnlock, Restart, CallFree, NoPtr
  <2>7. CASE UnregisterLeak(t)
    BY <2>7 DEF UnregisterLeak, Unregistered, Restart
  <2>8. CASE UnregisterWipe(t)
    BY <2>8 DEF UnregisterWipe
  <2>9. CASE UnregisterOpen(t)
    BY <2>9 DEF UnregisterOpen, Unregistered, Restart
  <2> QED
    BY <1>5, <2>1, <2>2, <2>3, <2>4, <2>5, <2>6, <2>7, <2>8, <2>9 DEF UnregisterStep
<1>6. CASE ProgramStep(t)
  BY <1>6, ConstantsAssumption DEF ProgramStep, Free, CallFree, Publish, NoPtr, Items
<1> QED
  BY <1>2, <1>3, <1>4, <1>5, <1>6 DEF Step

-----------------------------------------------------------------------------
(* The lock of the world pointer.                                          *)

\* Nobody cleans up while a thread is registered.
LEMMA NobodyWipes ==
  ASSUME Safe, NEW t \in Threads, tss[t] # 0, NEW u \in Threads
  PROVE  pc[u] \notin {"wipe", "open"}
BY DEF Safe, LastIsAlone

\* Steps that leave the current world, and those who hold its lock, as they
\* were.
LEMMA LockQuiet ==
  ASSUME IInv, Safe, NEW t \in Threads, Step(t), wp' = wp, tss[t] # 0,
         pc[t] \notin {"join", "leave", "unlock", "leak"},
         pc'[t] \notin {"join", "leave", "unlock", "leak", "wipe", "open"}
  PROVE  LockAgrees' /\ LastIsAlone'
<1>1. \A u \in Threads : u # t => pc'[u] = pc[u] /\ owp'[u] = owp[u]
  BY OtherThreads DEF IInv
<1>2. LockAgrees'
  BY <1>1, NobodyWipes DEF Safe, LockAgrees, HoldsLock
<1>3. LastIsAlone'
  <2>1. \A u \in Threads : pc'[u] \notin {"wipe", "open"}
    BY <1>1, NobodyWipes
  <2>2. \A u \in Threads : pc'[u] = "leak" => owp'[u].w # wp'.w
    BY <1>1 DEF Safe, LastIsAlone
  <2> QED
    BY <2>1, <2>2 DEF LastIsAlone
<1> QED
  BY <1>2, <1>3

\* Steps that swap in a world, other than the last thread's.
LEMMA LockSwap ==
  ASSUME IInv, Safe, NEW t \in Threads, Step(t), NEW w \in free, wp'.w = w, wp'.lock = 0,
         \A u \in Threads : pc[u] \notin {"wipe", "open"},
         pc'[t] \notin {"join", "leave", "unlock", "wipe", "open"},
         pc'[t] = "leak" => owp'[t] = owp[t]
  PROVE  LockAgrees' /\ LastIsAlone'
<1>1. \A u \in Threads : u # t => pc'[u] = pc[u] /\ owp'[u] = owp[u]
  BY OtherThreads DEF IInv
<1>2. \A u \in Threads : owp[u].w # w
  BY DEF Safe, RefsAgree
<1>3. LockAgrees'
  BY <1>1, <1>2 DEF LockAgrees, HoldsLock
<1>4. LastIsAlone'
  <2>1. \A u \in Threads : pc'[u] \notin {"wipe", "open"}
    BY <1>1
  <2>2. \A u \in Threads : pc'[u] = "leak" => owp'[u].w # wp'.w
    BY <1>1, <1>2
  <2> QED
    BY <2>1, <2>2 DEF LastIsAlone
<1> QED
  BY <1>3, <1>4

\* Steps that lock the current world.
LEMMA LockTaken ==
  ASSUME IInv, Safe, NEW t \in Threads, Step(t), wp.lock = 0, wp' = Locked(wp), owp'[t] = wp', HoldsLock(t)'
  PROVE  LockAgrees' /\ LastIsAlone'
<1>1. \A u \in Threads : u # t => pc'[u] = pc[u] /\ owp'[u] = owp[u]
  BY OtherThreads DEF IInv
<1>2. wp'.w = wp.w
  BY DEF Locked, IInv, TypeOK, WorldPointers
<1>3. \A u \in Threads : pc[u] \notin {"wipe", "open"} /\ ~ (HoldsLock(u) /\ owp[u].w = wp.w)
  BY DEF Safe, LastIsAlone, LockAgrees, LocalsAllAgree, LocalsAgree
<1>4. LockAgrees'
  <2>1. \A u \in Threads : HoldsLock(u)' /\ owp'[u].w = wp'.w => u = t
    BY <1>1, <1>2, <1>3 DEF HoldsLock
  <2> QED
    BY <2>1 DEF LockAgrees
<1>5. LastIsAlone'
  <2>1. \A u \in Threads : pc'[u] \notin {"wipe", "open"}
    BY <1>1, <1>3 DEF HoldsLock
  <2>2. \A u \in Threads : pc'[u] = "leak" => owp'[u].w # wp'.w
    BY <1>1, <1>2 DEF Safe, LastIsAlone, HoldsLock
  <2> QED
    BY <2>1, <2>2 DEF LastIsAlone
<1> QED
  BY <1>4, <1>5

\* A locked world keeps its owner, and the last thread remains alone.
LEMMA LocksStep ==
  ASSUME IInv, Safe, Owned, NEW t \in Threads, Step(t)
  PROVE  LockAgrees' /\ LastIsAlone'
<1> USE DEF IInv, Goto
<1>0. /\ LocalsAgree(t) /\ CallIsConsistent(t)
      /\ \A u \in Threads : u # t => pc'[u] = pc[u] /\ owp'[u] = owp[u] /\ cwp'[u] = cwp[u] /\ tss'[u] = tss[u]
  BY OtherThreads DEF Safe, LocalsAllAgree, CallsAreConsistent
<1>1. CASE RegisterStep(t)
  <2>1. CASE RegisterLock(t)
    <3>1. wp.lock = 0 /\ wp' = Locked(wp) /\ owp'[t] = wp' /\ pc'[t] = "join"
      BY <2>1 DEF RegisterLock, TypeOK
    <3> QED
      BY <3>1, LockTaken DEF HoldsLock
  <2>2. CASE RegisterSwap(t) /\ wp = owp[t]
    <3>1. PICK w \in free : wp' = Ptr(w, 1)
      BY <2>2 DEF RegisterSwap
    <3>2. pc'[t] = "drop" /\ pc[t] = "join"
      BY <2>2 DEF RegisterSwap, TypeOK
    <3>3. \A u \in Threads : pc[u] \notin {"wipe", "open"}
      BY <2>2, <3>2 DEF Safe, LastIsAlone, HoldsLock
    <3> QED
      BY <3>1, <3>2, <3>3, LockSwap DEF Ptr
  <2>3. CASE RegisterSwap(t) /\ wp # owp[t]
    <3>1. wp' = wp /\ store' = store /\ tss' = tss /\ cwp' = cwp /\ pc[t] = "join" /\ pc'[t] = "lock"
      BY <2>3 DEF RegisterSwap, TypeOK
    <3>2. LockAgrees'
      BY <1>0, <2>3, <3>1 DEF Safe, LockAgrees, HoldsLock
    <3>3. LastIsAlone'
      BY <1>0, <3>1 DEF Safe, LastIsAlone, HoldsLock, Now
    <3> QED
      BY <3>2, <3>3
  <2>4. CASE RegisterDrop(t)
    <3>1. wp' = wp /\ tss[t] # 0 /\ pc[t] = "drop" /\ pc'[t] \in {"fread", "idle"}
      BY <1>0, <2>4 DEF RegisterDrop, CallFree, library, CallIsConsistent, TypeOK
    <3> QED
      BY <3>1, LockQuiet
  <2> QED
    BY <1>1, <2>1, <2>2, <2>3, <2>4 DEF RegisterStep
<1>2. CASE FreeStep(t)
  <2>1. tss[t] # 0 /\ pc[t] \in FreePcs /\ pc'[t] \in FreePcs \cup {"idle", "drop", "range", "ubegin"}
    BY SMTT(30), <1>0, <1>2
    DEF FreeStep, FreeRead, FreeReload, FreeSwap, FreeRetain, FreeAppend, FreeAppendWorld, FreeNow, ReturnFromFree,
                      FreePcs, CallIsConsistent, TypeOK
  <2>2. CASE wp' = wp
    BY <2>1, <2>2, LockQuiet DEF FreePcs, Step
  <2>3. CASE FreeSwap(t) /\ wp = cwp[t]
    <3>1. PICK w \in free : wp' = Raised(w)
      BY <2>3 DEF FreeSwap
    <3>2. \A u \in Threads : pc[u] \notin {"wipe", "open"}
      BY <2>1, NobodyWipes
    <3> QED
      BY <2>1, <3>1, <3>2, LockSwap DEF Raised, Ptr, FreePcs
  <2> QED
    BY <1>2, <2>2, <2>3
    DEF FreeStep, FreeRead, FreeReload, FreeSwap, FreeRetain, FreeAppend, FreeAppendWorld, FreeNow, library
<1>3. CASE CheckinStep(t)
  <2>1. /\ tss[t] # 0 /\ pc[t] \in CheckinPcs \cup {"idle"}
        /\ pc'[t] \in CheckinPcs \cup {"idle", "fread", "ulock"}
    BY <1>0, <1>3
    DEF CheckinStep, Checkin, BeginCheckin, BitStep, CheckinBit, CheckinCopy, CheckinRange, CheckinDecrement,
        CheckinSnip, CheckinRelease,
        CheckinDone, CallFree, CheckinPcs, LoopPcs, CallIsConsistent, TypeOK
  <2>2. CASE wp' = wp
    BY <2>1, <2>2, LockQuiet DEF CheckinPcs, LoopPcs, Step
  <2>3. CASE CheckinCopy(t) /\ wp = cwp[t]
    <3>1. PICK w \in free : wp' = Ptr(w, 1)
      BY <2>3 DEF CheckinCopy
    <3>2. \A u \in Threads : pc[u] \notin {"wipe", "open"}
      BY <2>1, NobodyWipes
    <3> QED
      BY <2>1, <3>1, <3>2, LockSwap DEF Ptr, CheckinPcs, LoopPcs
  <2>4. CASE CheckinBit(t) /\ wp = cwp[t]
    <3>1. wp.lock = 0 /\ wp'.w = wp.w /\ wp'.lock = 0
      BY <1>0, <2>4 DEF CheckinBit, LocalsAgree, TypeOK, WorldPointers
    <3>2. \A u \in Threads : pc[u] \notin {"wipe", "open"} /\ ~ (HoldsLock(u) /\ owp[u].w = wp.w)
      BY <2>1, <3>1, NobodyWipes DEF Safe, LockAgrees, LocalsAllAgree, LocalsAgree
    <3>3. pc'[t] = "range"
      BY <2>4 DEF CheckinBit, TypeOK
    <3>4. LockAgrees'
      BY <1>0, <3>1, <3>2, <3>3 DEF LockAgrees, HoldsLock
    <3>5. LastIsAlone'
      <4>1. \A u \in Threads : pc'[u] \notin {"wipe", "open"}
        BY <1>0, <3>2, <3>3
      <4>2. \A u \in Threads : pc'[u] = "leak" => owp'[u].w # wp'.w
        BY <1>0, <3>1, <3>3 DEF Safe, LastIsAlone
      <4> QED
        BY <4>1, <4>2 DEF LastIsAlone
    <3> QED
      BY <3>4, <3>5
  <2> QED
    BY <1>3, <2>2, <2>3, <2>4
    DEF CheckinStep, Checkin, CheckinBit, CheckinCopy, CheckinRange, CheckinDecrement, CheckinSnip, CheckinRelease,
        CheckinDone, library
<1>4. CASE UnregisterStep(t)
  <2>1. CASE Unregister(t) \/ UnregisterBegin(t)
    <3>1. /\ wp' = wp /\ tss[t] # 0 /\ pc[t] \in {"idle", "ubegin"}
          /\ pc'[t] \in {"ubegin", "ulock", "range", "copy", "bit"}
      BY <1>0, <2>1 DEF Unregister, UnregisterBegin, BeginCheckin, BitStep, library, CallIsConsistent, TypeOK
    <3> QED
      BY <3>1, LockQuiet
  <2>2. CASE UnregisterLock(t)
    <3>1. CASE owp[t].lock = 0 /\ wp.lock = 0 /\ wp.w = owp[t].w
      <4>1. wp' = Locked(wp) /\ owp'[t] = wp' /\ pc'[t] = "leave"
        BY <2>2, <3>1 DEF UnregisterLock, TypeOK
      <4> QED
        BY <3>1, <4>1, LockTaken DEF HoldsLock
    <3>2. CASE ~ (owp[t].lock = 0 /\ wp.lock = 0 /\ wp.w = owp[t].w)
      <4>1. wp' = wp /\ tss[t] # 0 /\ pc[t] = "ulock" /\ pc'[t] = "ubegin"
        BY <1>0, <2>2, <3>2 DEF UnregisterLock, Restart, CallIsConsistent, TypeOK
      <4> QED
        BY <4>1, LockQuiet
    <3> QED
      BY <3>1, <3>2
  <2>3. CASE UnregisterSwap(t)
    <3>1. /\ pc[t] = "leave" /\ tss[t] # 0 /\ owp[t] = wp /\ owp' = owp /\ tss' = [tss EXCEPT ![t] = 0]
          /\ \A u \in Threads : pc[u] \notin {"wipe", "open"}
      BY <1>0, <2>3, NobodyWipes DEF UnregisterSwap, CallIsConsistent, LocalsAgree
    <3>2. CASE ~ LastThread(store[wp.w])
      <4>1. PICK w \in free : wp' = Ptr(w, 1)
        BY <2>3, <3>2 DEF UnregisterSwap
      <4>2. pc'[t] = "leak"
        BY <2>3, <3>2 DEF UnregisterSwap, TypeOK
      <4> QED
        BY <3>1, <4>1, <4>2, LockSwap DEF Ptr
    <3>3. CASE LastThread(store[wp.w])
      <4>1. PICK w \in free : Allocate(w, Blank) /\ wp' = Locked(Ptr(w, 0)) /\ cwp' = [cwp EXCEPT ![t] = wp']
        BY <2>3, <3>3 DEF UnregisterSwap
      <4>2. pc'[t] = "wipe" /\ cwp'[t] = wp' /\ wp'.w = w /\ wp'.lock = 1 /\ Now' = 0
        BY <2>3, <3>3, <4>1 DEF UnregisterSwap, TypeOK, Locked, Ptr, Allocate, Now, Blank
      <4>3. \A u \in Threads : tss'[u] = 0
        <5>1. Cardinality(Registered) = 1 /\ IsFiniteSet(Registered) /\ t \in Registered
          <6>1. IsFiniteSet(Registered)
            BY ConstantsAssumption, FS_Subset DEF Registered
          <6> QED
            BY <3>1, <3>3, <6>1 DEF LastThread, Safe, CountsAgree, Registered
        <5>2. \A u \in Threads : tss[u] # 0 => u = t
          BY <5>1, FS_Singleton DEF Registered
        <5> QED
          BY <3>1, <5>2 DEF TypeOK
      <4>4. \A u \in Threads : owp[u].w # w
        BY DEF Safe, RefsAgree
      <4>5. LockAgrees'
        BY <1>0, <3>1, <4>2, <4>4 DEF LockAgrees, HoldsLock
      <4>6. LastIsAlone'
        BY <1>0, <3>1, <4>2, <4>3, <4>4 DEF LastIsAlone, HoldsLock
      <4> QED
        BY <4>5, <4>6
    <3> QED
      BY <3>2, <3>3
  <2>4. CASE UnregisterFail(t)
    <3>1. /\ wp' = wp /\ store' = store /\ owp' = owp /\ tss' = tss /\ tss[t] # 0 /\ pc[t] = "leave" /\ pc'[t] \in {"leave", "unlock"}
      BY <1>0, <2>4 DEF UnregisterFail, library, CallIsConsistent, TypeOK
    <3>2. LockAgrees'
      BY <1>0, <3>1 DEF Safe, LockAgrees, HoldsLock
    <3>3. LastIsAlone'
      BY <1>0, <3>1 DEF Safe, LastIsAlone
    <3> QED
      BY <3>2, <3>3
  <2>5. CASE UnregisterUnlock(t)
    <3>1. /\ pc[t] = "unlock" /\ tss[t] # 0 /\ pc'[t] \in {"ubegin", "fread"} /\ HoldsLock(t)
          /\ \A u \in Threads : pc[u] \notin {"wipe", "open"}
      BY <1>0, <2>5, NobodyWipes DEF UnregisterUnlock, Restart, CallFree, CallIsConsistent, TypeOK, HoldsLock
    <3>2. wp'.w = wp.w
      BY <2>5 DEF UnregisterUnlock, Unlocked, TypeOK, WorldPointers
    <3>3. LastIsAlone'
      BY <1>0, <3>1, <3>2 DEF Safe, LastIsAlone
    <3>4. CASE wp.w = owp[t].w /\ wp.lock = 1
      <4>1. wp'.lock = 0 /\ owp[t] = wp
        BY <2>5, <3>1, <3>4 DEF UnregisterUnlock, Unlocked, TypeOK, WorldPointers, Safe, LockAgrees
      <4>2. \A u \in Threads : HoldsLock(u) /\ owp[u].w = wp.w => u = t
        BY <3>1, <4>1 DEF Safe, LockAgrees
      <4>3. LockAgrees'
        BY <1>0, <3>1, <3>2, <4>1, <4>2 DEF LockAgrees, HoldsLock
      <4> QED
        BY <3>3, <4>3
    <3>5. CASE ~ (wp.w = owp[t].w /\ wp.lock = 1)
      <4>1. wp' = wp /\ owp[t] # wp
        BY <1>0, <2>5, <3>1, <3>5 DEF UnregisterUnlock, LocalsAgree
      <4>2. LockAgrees'
        BY <1>0, <3>1, <4>1 DEF Safe, LockAgrees, HoldsLock
      <4> QED
        BY <3>3, <4>2
    <3> QED
      BY <3>4, <3>5
  <2>6. CASE UnregisterLeak(t)
    <3>1. wp' = wp /\ store' = store /\ tss' = tss /\ cwp'[t] = NoPtr /\ pc[t] = "leak" /\ pc'[t] = "idle"
      BY <2>6 DEF UnregisterLeak, Unregistered, Restart, TypeOK
    <3>2. LockAgrees'
      BY <1>0, <3>1 DEF Safe, LockAgrees, HoldsLock
    <3>3. LastIsAlone'
      BY <1>0, <3>1 DEF Safe, LastIsAlone, HoldsLock, Now
    <3> QED
      BY <3>2, <3>3
  <2>7. CASE UnregisterWipe(t)
    <3>1. /\ wp' = wp /\ tss' = tss /\ cwp' = cwp /\ pc[t] = "wipe" /\ pc'[t] = "open"
          /\ store'[wp.w] \in {store[wp.w], Blank}
      BY <2>7, CurrentWorld DEF UnregisterWipe, FreeWorlds, TypeOK
    <3>2. Now = 0 => Now' = 0
      BY <3>1 DEF Now, Blank
    <3>3. LockAgrees'
      BY <1>0, <3>1 DEF Safe, LockAgrees, HoldsLock
    <3>4. LastIsAlone'
      BY <1>0, <3>1, <3>2 DEF Safe, LastIsAlone, HoldsLock
    <3> QED
      BY <3>3, <3>4
  <2>8. CASE UnregisterOpen(t)
    <3>1. /\ pc[t] = "open" /\ pc'[t] = "idle" /\ wp'.w = wp.w /\ wp'.lock = 0
          /\ \A u \in Threads : ~ (HoldsLock(u) /\ owp[u].w = wp.w)
          /\ \A u \in Threads : pc[u] \in {"wipe", "open"} => u = t
      BY <2>8
      DEF UnregisterOpen, Unregistered, Restart, Unlocked, TypeOK, WorldPointers, Safe, LastIsAlone, LockAgrees
    <3>2. LockAgrees'
      BY <1>0, <3>1 DEF LockAgrees, HoldsLock
    <3>3. LastIsAlone'
      BY <1>0, <3>1 DEF Safe, LastIsAlone
    <3> QED
      BY <3>2, <3>3
  <2> QED
    BY <1>4, <2>1, <2>2, <2>3, <2>4, <2>5, <2>6, <2>7, <2>8 DEF UnregisterStep
<1>5. CASE ProgramStep(t)
  <2>1. wp' = wp /\ tss[t] # 0 /\ pc[t] = "idle" /\ pc'[t] \in {"fread", "idle"}
    BY <1>5 DEF ProgramStep, Free, CallFree, Publish, library, locals, TypeOK
  <2> QED
    BY <2>1, LockQuiet
<1> QED
  BY <1>1, <1>2, <1>3, <1>4, <1>5 DEF Step

=============================================================================
