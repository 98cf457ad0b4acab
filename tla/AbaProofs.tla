----------------------------- MODULE AbaProofs -----------------------------
(***************************************************************************)
(* Proofs about module Aba for any set of threads, pointers and worlds and *)
(* any bound on the timestamp.                                             *)
(***************************************************************************)
EXTENDS AbaProperties, TLAPS

\* TypeOK is not inductive: where a thread is in a call says which of its
\* local variables hold a world, a pointer or a timestamp that can be used.
IInv == TypeOK /\ CallsAreConsistent

-----------------------------------------------------------------------------
(* The types of what the actions are built from.                           *)

LEMMA PtrType ==
  ASSUME NEW w \in Worlds, NEW bit \in 0 .. 1
  PROVE  /\ Ptr(w, bit) \in WorldPointers
         /\ Locked(Ptr(w, bit)) \in WorldPointers
BY DEF Ptr, Locked, WorldPointers

LEMMA LockType ==
  ASSUME NEW p \in WorldPointers
  PROVE  Locked(p) \in WorldPointers /\ Unlocked(p) \in WorldPointers
BY DEF Locked, Unlocked, WorldPointers

\* The world pointer always names a world, so that its contents are defined.
LEMMA CurrentWorld ==
  ASSUME TypeOK
  PROVE  /\ wp.w \in Worlds /\ wp.bit \in 0 .. 1 /\ wp.lock \in 0 .. 1
         /\ store[wp.w] \in Contents
         /\ store[wp.w].ts \in 0 .. MaxTimestamp
         /\ store[wp.w].nt \in Int
BY DEF TypeOK, WorldPointers, Contents

LEMMA AllocateType ==
  ASSUME TypeOK, NEW w, NEW contents \in Contents, Allocate(w, contents)
  PROVE  w \in Worlds /\ store' \in [Worlds -> Contents] /\ free' \subseteq Worlds
BY DEF TypeOK, Allocate

LEMMA FreeWorldsType ==
  ASSUME TypeOK, NEW S, FreeWorlds(S)
  PROVE  store' \in [Worlds -> Contents] /\ free' \subseteq Worlds
BY ConstantsAssumption DEF TypeOK, FreeWorlds, Contents, Blank

-----------------------------------------------------------------------------
(* IInv is inductive.                                                      *)

LEMMA InitIInv == Init => IInv
<1> SUFFICES ASSUME Init PROVE IInv
  OBVIOUS
<1>1. TypeOK
  BY ConstantsAssumption DEF Init, TypeOK, WorldPointers, Ptr, NoPtr, Contents, Blank, Pcs, Timestamps
<1>2. CallsAreConsistent
  BY DEF Init, CallsAreConsistent, CallIsConsistent, FreePcs, CheckinPcs, LoopPcs
<1> QED
  BY <1>1, <1>2 DEF IInv

LEMMA RegisterIInv ==
  ASSUME IInv, NEW t \in Threads, RegisterStep(t) PROVE IInv'
<1> USE DEF IInv, Goto, library, program, locals
<1>1. CASE RegisterLock(t)
  <2> USE DEF RegisterLock
  <2>1. TypeOK'
    BY SMTT(30), <1>1, ConstantsAssumption DEF TypeOK, WorldPointers, Locked, Pcs, RegisterPcs
  <2>2. CallsAreConsistent'
    BY <1>1, ConstantsAssumption DEF TypeOK, CallsAreConsistent, CallIsConsistent, FreePcs, RegisterPcs, CheckinPcs, LeavePcs, LoopPcs, Locked, WorldPointers
  <2> QED
    BY <2>1, <2>2
<1>2. CASE RegisterSwap(t)
  <2> USE DEF RegisterSwap
  <2>1. /\ AddThread(store[wp.w]) \in Contents
        /\ FirstTimestamp(store[wp.w]) \in 1 .. MaxTimestamp + 1
    BY CurrentWorld, ConstantsAssumption DEF AddThread, FirstTimestamp, Contents
  <2>2. owp[t].w \in Worlds
    BY <1>2 DEF CallsAreConsistent, CallIsConsistent, WorldPointers
  <2>3. CASE wp = owp[t]
    <3>1. PICK w \in free : Allocate(w, AddThread(store[wp.w])) /\ wp' = Ptr(w, 1)
      BY <1>2, <2>3
    <3>2. wp' \in WorldPointers /\ store' \in [Worlds -> Contents] /\ free' \subseteq Worlds
      BY <2>1, <3>1, AllocateType, PtrType
    <3>3. TypeOK'
      BY <1>2, <2>1, <2>2, <2>3, <3>2 DEF TypeOK, Pcs, RegisterPcs
    <3>4. CallsAreConsistent'
      BY <1>2, <2>1, <2>3 DEF TypeOK, CallsAreConsistent, CallIsConsistent, FreePcs, RegisterPcs, CheckinPcs, LeavePcs, LoopPcs
    <3> QED
      BY <3>3, <3>4
  <2>4. CASE wp # owp[t]
    <3>1. TypeOK'
      BY <1>2, <2>2, <2>4 DEF TypeOK, Pcs, RegisterPcs
    <3>2. CallsAreConsistent'
      BY <1>2, <2>4 DEF TypeOK, CallsAreConsistent, CallIsConsistent, FreePcs, RegisterPcs, CheckinPcs, LeavePcs, LoopPcs
    <3> QED
      BY <3>1, <3>2
  <2> QED
    BY <2>3, <2>4
<1>3. CASE RegisterDrop(t)
  <2> USE DEF RegisterDrop, CallFree
  <2>1. TypeOK'
    <3>1. ASSUME NEW w \in chain[t],
                 chain' = [chain EXCEPT ![t] = @ \ {w}],
                 arg' = [arg EXCEPT ![t] = w],
                 ret' = [ret EXCEPT ![t] = "drop"],
                 pc' = [pc EXCEPT ![t] = "fread"],
                 op' = op
          PROVE  TypeOK'
      <4>1. chain' \in [Threads -> SUBSET Worlds] /\ w \in Items
        BY <3>1 DEF TypeOK, Items
      <4>2. /\ arg' \in [Threads -> Items \cup {Nil}]
            /\ ret' \in [Threads -> {"idle", "drop", "range", "ubegin"}]
        BY <3>1, <4>1 DEF TypeOK
      <4>3. pc' \in [Threads -> Pcs]
        BY <3>1 DEF TypeOK, Pcs, FreePcs
      <4> QED
        BY <1>3, <3>1, <4>1, <4>2, <4>3 DEF TypeOK
    <3>2. CASE chain[t] = {}
      <4>1. pc' \in [Threads -> Pcs]
        BY <1>3, <3>2 DEF TypeOK, Pcs
      <4> QED
        BY <1>3, <3>2, <4>1 DEF TypeOK
    <3> QED
      BY <1>3, <3>1, <3>2
  <2>2. CallsAreConsistent'
    BY <1>3, ConstantsAssumption DEF TypeOK, CallsAreConsistent, CallIsConsistent, FreePcs, RegisterPcs, CheckinPcs, LeavePcs, LoopPcs, Items
  <2> QED
    BY <2>1, <2>2
<1> QED
  BY <1>1, <1>2, <1>3 DEF RegisterStep

LEMMA FreeIInv ==
  ASSUME IInv, NEW t \in Threads, FreeStep(t) PROVE IInv'
<1> USE DEF IInv, Goto, library, program, locals
<1>1. CASE FreeRead(t)
  <2> USE DEF FreeRead
  <2>1. TypeOK'
    BY <1>1, ConstantsAssumption DEF TypeOK, Pcs, FreePcs
  <2>2. CallsAreConsistent'
    BY <1>1, ConstantsAssumption DEF TypeOK, CallsAreConsistent, CallIsConsistent, FreePcs, RegisterPcs, CheckinPcs, LeavePcs, LoopPcs
  <2> QED
    BY <2>1, <2>2
<1>2. CASE FreeReload(t)
  <2> USE DEF FreeReload
  <2>1. TypeOK'
    BY <1>2, ConstantsAssumption DEF TypeOK, Pcs, FreePcs
  <2>2. CallsAreConsistent'
    BY <1>2, ConstantsAssumption DEF TypeOK, CallsAreConsistent, CallIsConsistent, FreePcs, RegisterPcs, CheckinPcs, LeavePcs, LoopPcs
  <2> QED
    BY <2>1, <2>2
<1>3. CASE FreeSwap(t)
  <2> USE DEF FreeSwap
  <2>1. TypeOK'
    <3>1. CASE wp = cwp[t]
      <4>1. PICK w \in free : /\ Allocate(w, [store[wp.w] EXCEPT !.ts = @ + 1])
                              /\ wp' = Raised(w)
                              /\ cwp' = [cwp EXCEPT ![t] = Raised(w)]
        BY <1>3, <3>1
      <4>2. [store[wp.w] EXCEPT !.ts = @ + 1] \in Contents
        BY <1>3, <3>1, CurrentWorld, ConstantsAssumption DEF Contents
      <4>3. /\ Raised(w) \in WorldPointers
            /\ store' \in [Worlds -> Contents] /\ free' \subseteq Worlds
        BY <4>1, <4>2, AllocateType, PtrType DEF Raised
      <4>4. ToFree(wp) \subseteq Worlds
        BY CurrentWorld DEF ToFree
      <4> QED
        BY <1>3, <3>1, <4>1, <4>3, <4>4 DEF TypeOK, Pcs, FreePcs
    <3>2. CASE wp # cwp[t]
      BY <1>3, <3>2 DEF TypeOK, Pcs, FreePcs
    <3> QED
      BY <3>1, <3>2
  <2>2. CallsAreConsistent'
    BY <1>3, ConstantsAssumption
    DEF TypeOK, CallsAreConsistent, CallIsConsistent, FreePcs, RegisterPcs, CheckinPcs, LeavePcs, LoopPcs,
        Allocate, Raised, ToFree, Ptr, WorldPointers
  <2> QED
    BY <2>1, <2>2
<1>4. CASE FreeRetain(t)
  <2> USE DEF FreeRetain
  <2>1. TypeOK'
    <3>1. cwp[t].w \in Worlds
      BY <1>4 DEF CallsAreConsistent, CallIsConsistent, FreePcs, WorldPointers
    <3> DEFINE world == store[cwp[t].w]
    <3>2. Retained(world) \in Int
      BY <3>1 DEF TypeOK, Contents, Retained
    <3>3. world.ts \in Timestamps => rc[world.ts] + Retained(world) \in Int
      BY <3>2 DEF TypeOK
    <3>4. rc' = [rc EXCEPT ![world.ts] = rc[world.ts] + Retained(world)]
      BY <1>4
    <3>5. rc' \in [Timestamps -> Int]
      <4>1. CASE world.ts \in Timestamps
        BY <3>3, <3>4, <4>1 DEF TypeOK
      <4>2. CASE world.ts \notin Timestamps
        BY <3>4, <4>2 DEF TypeOK
      <4> QED
        BY <4>1, <4>2
    <3> QED
      BY <1>4, <3>5 DEF TypeOK, Pcs, FreePcs
  <2>2. CallsAreConsistent'
    BY <1>4, ConstantsAssumption DEF TypeOK, CallsAreConsistent, CallIsConsistent, FreePcs, RegisterPcs, CheckinPcs, LeavePcs, LoopPcs
  <2> QED
    BY <2>1, <2>2
<1>5. CASE FreeAppend(t)
  <2> USE DEF FreeAppend, ReturnFromFree
  <2>1. TypeOK'
    <3>1. arg[t] \in Items
      BY <1>5 DEF CallsAreConsistent, CallIsConsistent, FreePcs
    <3> DEFINE T == store[cwp[t].w].ts
    <3>2. T \in Timestamps => list[T] \cup {arg[t]} \in SUBSET Items
      BY <3>1 DEF TypeOK
    <3>3. list' = [list EXCEPT ![T] = list[T] \cup {arg[t]}]
      BY <1>5
    <3>4. list' \in [Timestamps -> SUBSET Items]
      <4>1. CASE T \in Timestamps
        BY <3>2, <3>3, <4>1 DEF TypeOK
      <4>2. CASE T \notin Timestamps
        BY <3>3, <4>2 DEF TypeOK
      <4> QED
        BY <4>1, <4>2
    <3> QED
      <4>1. pc' \in [Threads -> Pcs]
        BY <1>5 DEF TypeOK, Pcs, FreePcs, RegisterPcs, CheckinPcs, LeavePcs
      <4>2. /\ arg' \in [Threads -> Items \cup {Nil}]
            /\ op' \in [Threads -> {"none", "register", "free", "checkin", "unregister"}]
            /\ ret' \in [Threads -> {"idle", "drop", "range", "ubegin"}]
        BY <1>5 DEF TypeOK
      <4>3. /\ cwp' \in [Threads -> WorldPointers \cup {NoPtr}]
            /\ fw' \in [Threads -> SUBSET Worlds]
        BY <1>5 DEF TypeOK
      <4> QED
        BY <1>5, <3>4, <4>1, <4>2, <4>3 DEF TypeOK
  <2>2. CallsAreConsistent'
    BY <1>5, ConstantsAssumption DEF TypeOK, CallsAreConsistent, CallIsConsistent, FreePcs, RegisterPcs, CheckinPcs, LeavePcs, LoopPcs
  <2> QED
    BY <2>1, <2>2
<1>6. CASE FreeAppendWorld(t)
  <2> USE DEF FreeAppendWorld, ReturnFromFree
  <2>1. TypeOK'
    BY <1>6, ConstantsAssumption DEF TypeOK, Items, Pcs, FreePcs, RegisterPcs, CheckinPcs, LeavePcs
  <2>2. CallsAreConsistent'
    BY <1>6, ConstantsAssumption DEF TypeOK, CallsAreConsistent, CallIsConsistent, FreePcs, RegisterPcs, CheckinPcs, LeavePcs, LoopPcs
  <2> QED
    BY <2>1, <2>2
<1>7. CASE FreeNow(t)
  <2> USE DEF FreeNow, ReturnFromFree, Release, FreeWorlds
  <2>1. TypeOK'
    BY <1>7, ConstantsAssumption DEF TypeOK, Contents, Blank, Pcs, RegisterPcs, CheckinPcs, LeavePcs
  <2>2. CallsAreConsistent'
    BY <1>7, ConstantsAssumption DEF TypeOK, CallsAreConsistent, CallIsConsistent, FreePcs, RegisterPcs, CheckinPcs, LeavePcs, LoopPcs
  <2> QED
    BY <2>1, <2>2
<1> QED
  BY <1>1, <1>2, <1>3, <1>4, <1>5, <1>6, <1>7 DEF FreeStep

LEMMA CheckinIInv ==
  ASSUME IInv, NEW t \in Threads, CheckinStep(t) PROVE IInv'
<1> USE DEF IInv, Goto, library, program, locals
<1>1. CASE Checkin(t)
  <2> USE DEF Checkin, Promise, BeginCheckin, BitStep
  <2>1. TypeOK'
    <3>1. /\ wp \in WorldPointers
          /\ store[wp.w].ts \in 0 .. MaxTimestamp
      BY CurrentWorld DEF TypeOK
    <3>2. /\ owp' \in [Threads -> WorldPointers \cup {NoPtr}]
          /\ cwp' \in [Threads -> WorldPointers \cup {NoPtr}]
          /\ new' \in [Threads -> 0 .. MaxTimestamp]
      BY SMTT(30), <1>1, <3>1 DEF TypeOK
    <3>3. /\ pc' \in [Threads -> Pcs]
          /\ op' \in [Threads -> {"none", "register", "free", "checkin", "unregister"}]
      BY <1>1 DEF TypeOK, Pcs, CheckinPcs
    <3>4. holders' \in [Pointers -> SUBSET Threads]
      BY <1>1 DEF TypeOK
    <3> QED
      BY <1>1, <3>2, <3>3, <3>4 DEF TypeOK
  <2>2. CallsAreConsistent'
    BY <1>1, ConstantsAssumption DEF TypeOK, CallsAreConsistent, CallIsConsistent, FreePcs, RegisterPcs, CheckinPcs, LeavePcs, LoopPcs
  <2> QED
    BY <2>1, <2>2
<1>2. CASE CheckinBit(t)
  <2> USE DEF CheckinBit, RetryWith, BitStep
  <2>1. TypeOK'
    <3>1. owp[t] \in WorldPointers \cup {NoPtr} /\ wp \in WorldPointers
      BY DEF TypeOK
    <3>2. pc' \in [Threads -> Pcs]
      BY <1>2 DEF TypeOK, Pcs, CheckinPcs
    <3>3. CASE wp = cwp[t]
      <4>1. wp' \in WorldPointers
        BY <1>2, <3>1, <3>3 DEF WorldPointers
      <4>2. /\ owp' \in [Threads -> WorldPointers \cup {NoPtr}]
            /\ cwp' \in [Threads -> WorldPointers \cup {NoPtr}]
        BY <1>2, <3>3, <4>1 DEF TypeOK
      <4> QED
        BY <1>2, <3>2, <4>1, <4>2 DEF TypeOK
    <3>4. CASE wp # cwp[t]
      <4>1. /\ owp' \in [Threads -> WorldPointers \cup {NoPtr}]
            /\ cwp' \in [Threads -> WorldPointers \cup {NoPtr}]
        BY <1>2, <3>1, <3>4 DEF TypeOK
      <4> QED
        BY <1>2, <3>2, <3>4, <4>1 DEF TypeOK
    <3> QED
      BY <3>3, <3>4
  <2>2. CallsAreConsistent'
    BY SMTT(30), <1>2, ConstantsAssumption DEF TypeOK, CallsAreConsistent, CallIsConsistent, FreePcs, RegisterPcs, CheckinPcs, LeavePcs, LoopPcs, WorldPointers
  <2> QED
    BY <2>1, <2>2
<1>3. CASE CheckinCopy(t)
  <2> USE DEF CheckinCopy
  <2>1. CASE wp = cwp[t]
    <3>1. PICK w \in free : /\ Allocate(w, store[wp.w])
                            /\ wp' = Ptr(w, 1)
                            /\ owp' = [owp EXCEPT ![t] = Ptr(w, 1)]
      BY <1>3, <2>1
    <3>2. /\ Ptr(w, 1) \in WorldPointers /\ wp.w \in Items
          /\ store' \in [Worlds -> Contents] /\ free' \subseteq Worlds
      BY <3>1, AllocateType, PtrType, CurrentWorld DEF Items
    <3>3. TypeOK'
      BY SMTT(30), <1>3, <2>1, <3>1, <3>2 DEF TypeOK, CallFree, Goto, Pcs, CheckinPcs, FreePcs
    <3>4. CallsAreConsistent'
      BY <1>3, <2>1, <3>1, <3>2 DEF TypeOK, CallsAreConsistent, CallIsConsistent, CallFree, FreePcs, RegisterPcs, CheckinPcs, LeavePcs, LoopPcs
    <3> QED
      BY <3>3, <3>4
  <2>2. CASE wp # cwp[t]
    <3>1. TypeOK'
      BY <1>3, <2>2 DEF TypeOK
    <3>2. CallsAreConsistent'
      BY <1>3, <2>2 DEF TypeOK, CallsAreConsistent, CallIsConsistent, FreePcs, RegisterPcs, CheckinPcs, LeavePcs, LoopPcs
    <3> QED
      BY <3>1, <3>2
  <2> QED
    BY <2>1, <2>2
<1>4. CASE CheckinRange(t)
  <2> USE DEF CheckinRange
  <2>1. TypeOK'
    BY <1>4, ConstantsAssumption DEF TypeOK, Pcs, CheckinPcs, LoopPcs
  <2>2. CallsAreConsistent'
    BY <1>4, ConstantsAssumption DEF TypeOK, CallsAreConsistent, CallIsConsistent, FreePcs, RegisterPcs, CheckinPcs, LeavePcs, LoopPcs, Contents
  <2> QED
    BY <2>1, <2>2
<1>5. CASE CheckinDecrement(t)
  <2> USE DEF CheckinDecrement
  <2>1. TypeOK'
    <3>1. cur[t] + 1 \in 0 .. MaxTimestamp + 1
      BY <1>5, ConstantsAssumption DEF TypeOK
    <3>2. cur[t] \in Timestamps => rc[cur[t]] - 1 \in Int
      BY DEF TypeOK
    <3>3. rc' = [rc EXCEPT ![cur[t]] = rc[cur[t]] - 1]
      BY <1>5
    <3>4. rc' \in [Timestamps -> Int]
      <4>1. CASE cur[t] \in Timestamps
        BY <3>2, <3>3, <4>1 DEF TypeOK
      <4>2. CASE cur[t] \notin Timestamps
        BY <3>3, <4>2 DEF TypeOK
      <4> QED
        BY <4>1, <4>2
    <3> QED
      BY <1>5, <3>1, <3>4 DEF TypeOK, Pcs, CheckinPcs, LoopPcs
  <2>2. CallsAreConsistent'
    <3>1. MaxTimestamp \in Nat
      BY ConstantsAssumption
    <3> QED
      BY <1>5, <3>1
      DEF TypeOK, CallsAreConsistent, CallIsConsistent, FreePcs, RegisterPcs, CheckinPcs, LeavePcs, LoopPcs
  <2> QED
    BY <2>1, <2>2
<1>6. CASE CheckinSnip(t)
  <2> USE DEF CheckinSnip
  <2>1. TypeOK'
    <3>1. cur[t] \in 2 .. new[t] + 1 /\ new[t] \in 0 .. MaxTimestamp
      BY <1>6 DEF TypeOK, CallsAreConsistent, CallIsConsistent
    <3>2. cur[t] - 1 \in Timestamps
      BY <3>1, ConstantsAssumption DEF Timestamps
    <3>3. snip' \in [Threads -> SUBSET Items]
      BY <1>6, <3>2 DEF TypeOK
    <3>4. pc' \in [Threads -> Pcs]
      BY <1>6 DEF TypeOK, Pcs, CheckinPcs, LoopPcs
    <3> QED
      BY <1>6, <3>3, <3>4 DEF TypeOK
  <2>2. CallsAreConsistent'
    BY <1>6, ConstantsAssumption DEF TypeOK, CallsAreConsistent, CallIsConsistent, FreePcs, RegisterPcs, CheckinPcs, LeavePcs, LoopPcs
  <2> QED
    BY <2>1, <2>2
<1>7. CASE CheckinRelease(t)
  <2> USE DEF CheckinRelease, Emptied, Release
  <2>1. TypeOK'
    <3>1. store' \in [Worlds -> Contents] /\ free' \subseteq Worlds
      BY <1>7, FreeWorldsType
    <3> QED
      BY <1>7, <3>1 DEF TypeOK, Pcs, CheckinPcs, LoopPcs
  <2>2. CallsAreConsistent'
    BY <1>7, ConstantsAssumption DEF TypeOK, CallsAreConsistent, CallIsConsistent, FreePcs, RegisterPcs, CheckinPcs, LeavePcs, LoopPcs
  <2> QED
    BY <2>1, <2>2
<1>8. CASE CheckinDone(t)
  <2> USE DEF CheckinDone
  <2>1. TypeOK'
    BY SMTT(30), <1>8, ConstantsAssumption DEF TypeOK, Pcs, LeavePcs
  <2>2. CallsAreConsistent'
    BY <1>8, ConstantsAssumption DEF TypeOK, CallsAreConsistent, CallIsConsistent, FreePcs, RegisterPcs, CheckinPcs, LeavePcs, LoopPcs
  <2> QED
    BY <2>1, <2>2
<1> QED
  BY <1>1, <1>2, <1>3, <1>4, <1>5, <1>6, <1>7, <1>8 DEF CheckinStep

LEMMA UnregisterIInv ==
  ASSUME IInv, NEW t \in Threads, UnregisterStep(t) PROVE IInv'
<1> USE DEF IInv, Goto, library, program, locals
<1>1. CASE Unregister(t)
  <2> USE DEF Unregister, Promise
  <2>1. TypeOK'
    BY <1>1, ConstantsAssumption DEF TypeOK, Pcs, LeavePcs
  <2>2. CallsAreConsistent'
    BY <1>1, ConstantsAssumption DEF TypeOK, CallsAreConsistent, CallIsConsistent, FreePcs, RegisterPcs, CheckinPcs, LeavePcs, LoopPcs
  <2> QED
    BY <2>1, <2>2
<1>2. CASE UnregisterBegin(t)
  <2> USE DEF UnregisterBegin, BeginCheckin, BitStep
  <2>1. TypeOK'
    <3>1. /\ wp \in WorldPointers
          /\ store[wp.w].ts \in 0 .. MaxTimestamp
      BY CurrentWorld DEF TypeOK
    <3>2. /\ owp' \in [Threads -> WorldPointers \cup {NoPtr}]
          /\ cwp' \in [Threads -> WorldPointers \cup {NoPtr}]
          /\ new' \in [Threads -> 0 .. MaxTimestamp]
      BY <1>2, <3>1 DEF TypeOK
    <3>3. pc' \in [Threads -> Pcs]
      BY <1>2 DEF TypeOK, Pcs, CheckinPcs, LeavePcs
    <3> QED
      BY <1>2, <3>2, <3>3 DEF TypeOK
  <2>2. CallsAreConsistent'
    BY <1>2, ConstantsAssumption DEF TypeOK, CallsAreConsistent, CallIsConsistent, FreePcs, RegisterPcs, CheckinPcs, LeavePcs, LoopPcs
  <2> QED
    BY <2>1, <2>2
<1>3. CASE UnregisterLock(t)
  <2> USE DEF UnregisterLock, Restart
  <2>1. TypeOK'
    <3>1. wp \in WorldPointers /\ Locked(wp) \in WorldPointers /\ 0 \in 0 .. MaxTimestamp
      BY LockType, ConstantsAssumption DEF TypeOK
    <3>2. wp' \in WorldPointers
      BY <1>3, <3>1
    <3>3. /\ owp' \in [Threads -> WorldPointers \cup {NoPtr}]
          /\ cwp' \in [Threads -> WorldPointers \cup {NoPtr}]
          /\ new' \in [Threads -> 0 .. MaxTimestamp]
      BY SMTT(30), <1>3, <3>1 DEF TypeOK
    <3>4. pc' \in [Threads -> Pcs]
      BY <1>3 DEF TypeOK, Pcs, LeavePcs
    <3> QED
      BY <1>3, <3>2, <3>3, <3>4 DEF TypeOK
  <2>2. CallsAreConsistent'
    BY <1>3, ConstantsAssumption, LockType DEF TypeOK, CallsAreConsistent, CallIsConsistent, FreePcs, RegisterPcs, CheckinPcs, LeavePcs, LoopPcs
  <2> QED
    BY <2>1, <2>2
<1>4. CASE UnregisterSwap(t)
  <2> USE DEF UnregisterSwap
  <2>1. TypeOK'
    <3>1. CASE LastThread(store[wp.w])
      <4>1. PICK w \in free : /\ Allocate(w, Blank) /\ wp' = Locked(Ptr(w, 0))
                              /\ cwp' = [cwp EXCEPT ![t] = wp']
        BY <1>4, <3>1
      <4>2. Blank \in Contents
        BY ConstantsAssumption DEF Blank, Contents
      <4>3. /\ wp' \in WorldPointers
            /\ store' \in [Worlds -> Contents] /\ free' \subseteq Worlds
        BY <4>1, <4>2, AllocateType, PtrType
      <4> QED
        BY <1>4, <3>1, <4>1, <4>3, ConstantsAssumption DEF TypeOK, Pcs, LeavePcs
    <3>2. CASE ~ LastThread(store[wp.w])
      <4>1. PICK w \in free : /\ Allocate(w, RemoveThread(store[wp.w]))
                              /\ wp' = Ptr(w, 1)
                              /\ cwp' = [cwp EXCEPT ![t] = NoPtr]
        BY <1>4, <3>2
      <4>2. RemoveThread(store[wp.w]) \in Contents
        BY CurrentWorld DEF RemoveThread, Contents
      <4>3. /\ wp' \in WorldPointers
            /\ store' \in [Worlds -> Contents] /\ free' \subseteq Worlds
        BY <4>1, <4>2, AllocateType, PtrType
      <4> QED
        BY <1>4, <3>2, <4>1, <4>3, ConstantsAssumption DEF TypeOK, Pcs, LeavePcs
    <3> QED
      BY <3>1, <3>2
  <2>2. CallsAreConsistent'
    BY SMTT(30), <1>4, ConstantsAssumption
    DEF TypeOK, CallsAreConsistent, CallIsConsistent, FreePcs, RegisterPcs, CheckinPcs, LeavePcs, LoopPcs, Allocate, RemoveThread,
        LastThread, MayLeave, Locked, Ptr, WorldPointers
  <2> QED
    BY <2>1, <2>2
<1>5. CASE UnregisterFail(t)
  <2> USE DEF UnregisterFail
  <2>1. TypeOK'
    BY <1>5, ConstantsAssumption DEF TypeOK, Pcs, LeavePcs
  <2>2. CallsAreConsistent'
    BY <1>5, ConstantsAssumption DEF TypeOK, CallsAreConsistent, CallIsConsistent, FreePcs, RegisterPcs, CheckinPcs, LeavePcs, LoopPcs
  <2> QED
    BY <2>1, <2>2
<1>6. CASE UnregisterUnlock(t)
  <2> USE DEF UnregisterUnlock, Restart, CallFree
  <2>1. TypeOK'
    <3>1. owp[t].w \in Items
      BY <1>6 DEF CallsAreConsistent, CallIsConsistent, WorldPointers, Items
    <3>2. Unlocked(wp) \in WorldPointers
      BY LockType DEF TypeOK
    <3>3. CASE wp.w = owp[t].w /\ wp.lock = 1
      <4>1. /\ owp' \in [Threads -> WorldPointers \cup {NoPtr}]
            /\ cwp' \in [Threads -> WorldPointers \cup {NoPtr}]
            /\ new' \in [Threads -> 0 .. MaxTimestamp]
        BY <1>6, <3>3, ConstantsAssumption DEF TypeOK
      <4>2. pc' \in [Threads -> Pcs]
        BY <1>6, <3>3 DEF TypeOK, Pcs, LeavePcs
      <4> QED
        BY <1>6, <3>2, <3>3, <4>1, <4>2 DEF TypeOK
    <3>4. CASE ~ (wp.w = owp[t].w /\ wp.lock = 1)
      BY SMTT(30), <1>6, <3>1, <3>4, ConstantsAssumption DEF TypeOK, Pcs, FreePcs
    <3> QED
      BY <3>3, <3>4
  <2>2. CallsAreConsistent'
    BY <1>6, ConstantsAssumption
    DEF TypeOK, CallsAreConsistent, CallIsConsistent, FreePcs, RegisterPcs, CheckinPcs, LeavePcs, LoopPcs, WorldPointers, Items
  <2> QED
    BY <2>1, <2>2
<1>7. CASE UnregisterLeak(t)
  <2> USE DEF UnregisterLeak, Unregistered, Restart
  <2>1. TypeOK'
    BY <1>7, ConstantsAssumption DEF TypeOK, CallsAreConsistent, CallIsConsistent, WorldPointers, Pcs
  <2>2. CallsAreConsistent'
    BY <1>7, ConstantsAssumption DEF TypeOK, CallsAreConsistent, CallIsConsistent, FreePcs, RegisterPcs, CheckinPcs, LeavePcs, LoopPcs
  <2> QED
    BY <2>1, <2>2
<1>8. CASE UnregisterWipe(t)
  <2> USE DEF UnregisterWipe, FreeWorlds
  <2>1. TypeOK'
    BY <1>8, ConstantsAssumption DEF TypeOK, Contents, Blank, Pcs, LeavePcs
  <2>2. CallsAreConsistent'
    BY <1>8, ConstantsAssumption DEF TypeOK, CallsAreConsistent, CallIsConsistent, FreePcs, RegisterPcs, CheckinPcs, LeavePcs, LoopPcs
  <2> QED
    BY <2>1, <2>2
<1>9. CASE UnregisterOpen(t)
  <2> USE DEF UnregisterOpen, Unregistered, Restart
  <2>1. TypeOK'
    BY <1>9, ConstantsAssumption DEF TypeOK, WorldPointers, Unlocked, Pcs
  <2>2. CallsAreConsistent'
    BY <1>9, ConstantsAssumption DEF TypeOK, CallsAreConsistent, CallIsConsistent, FreePcs, RegisterPcs, CheckinPcs, LeavePcs, LoopPcs
  <2> QED
    BY <2>1, <2>2
<1> QED
  BY <1>1, <1>2, <1>3, <1>4, <1>5, <1>6, <1>7, <1>8, <1>9 DEF UnregisterStep

LEMMA ProgramIInv ==
  ASSUME IInv, NEW t \in Threads, ProgramStep(t) PROVE IInv'
<1> USE DEF IInv, Goto, library, program, locals
<1>1. ASSUME NEW p \in Pointers, Free(t, p) PROVE IInv'
  <2> USE DEF Free, CallFree
  <2>1. TypeOK'
    BY <1>1 DEF TypeOK, Items, Pcs, FreePcs
  <2>2. CallsAreConsistent'
    BY <1>1, ConstantsAssumption
    DEF TypeOK, CallsAreConsistent, CallIsConsistent, FreePcs, RegisterPcs, CheckinPcs, LeavePcs, LoopPcs, Items
  <2> QED
    BY <2>1, <2>2
<1>2. ASSUME NEW p \in Pointers, Publish(t, p) PROVE IInv'
  <2> USE DEF Publish
  <2>1. TypeOK'
    BY <1>2 DEF TypeOK
  <2>2. CallsAreConsistent'
    BY <1>2 DEF CallsAreConsistent, CallIsConsistent
  <2> QED
    BY <2>1, <2>2
<1> QED
  BY <1>1, <1>2 DEF ProgramStep

LEMMA ResetIInv ==
  ASSUME IInv, Reset PROVE IInv'
<1> USE DEF IInv, Reset, library, program, locals
<1>1. PICK w \in free \cup leaks \cup {wp.w} :
          wp' = Ptr(w, 0) /\ free' = (free \cup leaks \cup {wp.w}) \ {w}
  OBVIOUS
<1>2. w \in Worlds /\ free' \subseteq Worlds
  BY <1>1, CurrentWorld DEF TypeOK
<1>3. store' \in [Worlds -> Contents]
  BY ConstantsAssumption DEF TypeOK, Contents, Blank
<1>4. TypeOK'
  BY <1>1, <1>2, <1>3, PtrType DEF TypeOK
<1>5. CallsAreConsistent'
  BY DEF CallsAreConsistent, CallIsConsistent
<1> QED
  BY <1>4, <1>5

LEMMA NextIInv == IInv /\ [Next]_vars => IInv'
<1> SUFFICES ASSUME IInv, [Next]_vars PROVE IInv'
  OBVIOUS
<1>1. ASSUME NEW t \in Threads,
             RegisterStep(t) \/ FreeStep(t) \/ CheckinStep(t) \/ UnregisterStep(t) \/ ProgramStep(t)
      PROVE  IInv'
  BY <1>1, RegisterIInv, FreeIInv, CheckinIInv, UnregisterIInv, ProgramIInv
<1>2. CASE Reset
  BY <1>2, ResetIInv
<1>3. CASE UNCHANGED vars
  BY <1>3 DEF vars, library, program, locals, IInv, TypeOK, CallsAreConsistent, CallIsConsistent
<1> QED
  BY <1>1, <1>2, <1>3 DEF Next

LEMMA AlwaysIInv == Spec => []IInv
BY InitIInv, NextIInv, PTL DEF Spec

-----------------------------------------------------------------------------

\* Every variable of every reachable state has its type, however many
\* threads, pointers and worlds there are.
THEOREM TypeCorrect == Spec => []TypeOK
<1>1. IInv => TypeOK
  BY DEF IInv
<1> QED
  BY <1>1, AlwaysIInv, PTL

\* Whatever calls _mulle_aba_free_owned_pointer, the program or the library
\* in the middle of a registration, a checkin or an unregistration, the
\* thread is registered: the assertion at the top of that function holds.
THEOREM FreeIsCalledRegistered == Spec => []CallerIsRegistered
<1>1. IInv => CallerIsRegistered
  BY DEF IInv, CallsAreConsistent, CallIsConsistent, CallerIsRegistered
<1> QED
  BY <1>1, AlwaysIInv, PTL

=============================================================================
