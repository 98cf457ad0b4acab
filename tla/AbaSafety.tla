----------------------------- MODULE AbaSafety ------------------------------
(***************************************************************************)
(* Proofs about module Aba, the last part.  What waits on the list of a    *)
(* timestamp is taken off by the last thread to check in, and nothing waits*)
(* under a timestamp that a thread which may still use it is already past, *)
(* neither worlds, which the library reads, nor pointers of the program.   *)
(* So the invariant holds in every behaviour, and with it the properties of*)
(* AbaProperties, the promise of GracePeriod, and the authors' state graph *)
(* of the world pointer.                                                   *)
(***************************************************************************)
EXTENDS AbaCounting

-----------------------------------------------------------------------------
(* Lists.                                                                  *)

\* A checkin empties a list after it has found its retain count at 0.
LEMMA EmptiesStep ==
  ASSUME IInv, Safe, NEW t \in Threads, Step(t)
  PROVE  /\ Empties(t)' => \/ Decrements(t) /\ rc[cur[t]] = 0 /\ pc'[t] = "snip"
                           \/ /\ pc[t] = "snip" /\ pc'[t] = "clear"
                              /\ snip'[t] = list[cur[t] - 1] /\ list' = list
         /\ Decrements(t) => cur'[t] = cur[t] + 1 /\ (rc[cur[t]] = 0 => Empties(t)')
         /\ pc[t] = "snip" => pc'[t] = "clear" /\ cur'[t] = cur[t]
<1> USE DEF IInv, Empties, Decrements, Goto, TypeOK
<1>0. CallIsConsistent(t)
  BY DEF CallsAreConsistent
<1>1. CASE RegisterStep(t)
  BY <1>1 DEF RegisterStep, RegisterLock, RegisterSwap, RegisterDrop, CallFree
<1>2. CASE FreeStep(t)
  BY <1>0, <1>2
  DEF FreeStep, FreeRead, FreeReload, FreeSwap, FreeRetain, FreeAppend, FreeAppendWorld, FreeNow, ReturnFromFree,
      CallIsConsistent, FreePcs
<1>3. CASE CheckinStep(t)
  <2>1. CASE CheckinDecrement(t)
    BY <2>1 DEF CheckinDecrement, LastCheckin
  <2>2. CASE CheckinSnip(t)
    BY <2>2 DEF CheckinSnip, library
  <2>3. CASE CheckinDone(t)
    <3>1. cur[t] \in Int /\ new[t] \in Int
      BY ConstantsAssumption
    <3> QED
      BY <2>3, <3>1 DEF CheckinDone
  <2> QED
    BY <1>3, <2>1, <2>2, <2>3
    DEF CheckinStep, Checkin, BeginCheckin, BitStep, CheckinBit, CheckinCopy, CheckinRange, CheckinRelease, CallFree
<1>4. CASE UnregisterStep(t)
  BY <1>4
  DEF UnregisterStep, Unregister, UnregisterBegin, BeginCheckin, BitStep, UnregisterLock, UnregisterSwap,
      UnregisterFail, UnregisterUnlock,
      UnregisterLeak, UnregisterWipe, UnregisterOpen, Unregistered, Restart, CallFree
<1>5. CASE ProgramStep(t)
  BY <1>5 DEF ProgramStep, Free, CallFree, Publish, locals
<1> QED
  BY <1>1, <1>2, <1>3, <1>4, <1>5 DEF Step

\* The checkin that finds the retain count at 0 is the last one, and the last
\* one finds it at 0.
LEMMA LastDecrement ==
  ASSUME IInv, Safe, NEW t \in Threads, Decrements(t)
  PROVE  /\ cur[t] \in 1 .. Now /\ t \in Awaited(cur[t])
         /\ rc[cur[t]] = 0 <=> Awaited(cur[t]) = {t}
<1> USE DEF IInv
<1>0. PICK T : T = cur[t]
  OBVIOUS
<1>1. /\ LocalsAgree(t) /\ CallIsConsistent(t) /\ pc[t] = "dec" /\ t \in Registered
      /\ cur[t] \in Nat /\ new[t] \in Nat /\ Now \in Nat
  BY CurrentWorld, ConstantsAssumption
  DEF Safe, LocalsAllAgree, CallsAreConsistent, TypeOK, Now, Decrements, CallIsConsistent, CheckinPcs, LoopPcs,
      Registered
<1>2. T \in 1 .. Now /\ t \in Awaited(T)
  BY <1>0, <1>1 DEF Decrements, Safe, CursorsAgree, CallIsConsistent, Awaited, Cursor, LoopPcs
<1>3. IsFiniteSet(Awaited(T)) /\ Cardinality(Awaited(T)) \in Nat
  BY Finite
<1>4. ASSUME NEW u \in Threads, Raiser(u, T)
      PROVE  rc[T] <= -1 /\ u \in Awaited(T) /\ u # t
  <2>1. pc[u] = "fretain" /\ FilesUnder(u) = T /\ u \in Registered /\ cwp[u].w \in Worlds
    BY <1>4 DEF Raiser, Registered, CallsAreConsistent, CallIsConsistent, FreePcs, WorldPointers
  <2>2. rc[T] \in Int /\ store[cwp[u].w].nt \in Int
    <3>1. T \in Timestamps
      BY <1>1, <1>2, CurrentWorld, ConstantsAssumption DEF Timestamps, Now
    <3> QED
      BY <2>1, <3>1 DEF TypeOK, Contents
  <2>3. CountsAgree
    BY DEF Safe
  <2>4. rc[T] + store[cwp[u].w].nt = Cardinality(Awaited(T)) - 1 /\ Cardinality(Awaited(T)) <= store[cwp[u].w].nt
    BY <2>1, <2>3 DEF CountsAgree
  <2>5. Cursor(u) <= T
    BY <2>1 DEF Safe, CursorsAgree, Filing
  <2> QED
    BY <1>1, <1>3, <2>1, <2>2, <2>4, <2>5 DEF Awaited
<1>5. CASE \A u \in Threads : ~ Raiser(u, T)
  <2>1. rc[T] = Cardinality(Awaited(T)) - 1
    BY <1>2, <1>5 DEF Safe, CountsAgree
  <2>2. Cardinality(Awaited(T)) = 1 => Awaited(T) = {t}
    <3>1. Cardinality(Awaited(T) \ {t}) = Cardinality(Awaited(T)) - 1 /\ IsFiniteSet(Awaited(T) \ {t})
      BY <1>2, <1>3, FS_RemoveElement
    <3>2. Cardinality(Awaited(T) \ {t}) = 0 => Awaited(T) \ {t} = {}
      BY <3>1, FS_EmptySet
    <3> QED
      BY <1>2, <1>3, <3>1, <3>2
  <2>3. Awaited(T) = {t} => Cardinality(Awaited(T)) = 1
    BY FS_Singleton
  <2> QED
    BY <1>0, <1>2, <1>3, <2>1, <2>2, <2>3
<1>6. CASE \E u \in Threads : Raiser(u, T)
  <2>1. rc[T] <= -1 /\ Awaited(T) # {t} /\ rc[T] # 0
    BY <1>4, <1>6
  <2> QED
    BY <1>0, <1>2, <2>1
<1> QED
  BY <1>5, <1>6

\* Nobody is awaited for a timestamp whose list is being emptied.
LEMMA EmptiesNow ==
  ASSUME IInv, Safe, NEW u \in Threads, Empties(u)
  PROVE  /\ u \in Registered /\ cur[u] \in Nat
         /\ cur[u] - 1 \in 1 .. Now /\ cur[u] - 1 \in Timestamps
         /\ Awaited(cur[u] - 1) = {}
<1>1. u \in Registered /\ cur[u] \in 2 .. new[u] + 1 /\ new[u] \in Nat
  BY ConstantsAssumption
  DEF IInv, Empties, CallsAreConsistent, CallIsConsistent, CheckinPcs, LoopPcs, Registered, TypeOK
<1>2. new[u] <= Now /\ Now \in 0 .. MaxTimestamp
  BY <1>1, CurrentWorld DEF IInv, Safe, CursorsAgree, Now
<1> QED
  BY <1>1, <1>2, ConstantsAssumption DEF Safe, ListsAgree, Timestamps

\* A free that appends to a list is itself awaited for its timestamp.
LEMMA AppendsAwaited ==
  ASSUME IInv, Safe, NEW u \in Threads, Filing(u)
  PROVE  u \in Awaited(FilesUnder(u)) /\ FilesUnder(u) \in 1 .. Now
BY DEF Awaited, Registered, Filing, IInv, CallsAreConsistent, CallIsConsistent, FreePcs, Safe, CursorsAgree

\* What waits on a list is awaited by a thread, and only the last one takes
\* it off.
LEMMA ListsStep ==
  ASSUME IInv, IInv', Safe, Owned, Owned', NEW t \in Threads, Step(t)
  PROVE  ListsAgree'
<1> USE DEF IInv
<1>0. Now \in Nat /\ Now' \in Nat
  BY CurrentWorld, ConstantsAssumption DEF TypeOK, WorldPointers, Contents, Now
<1>1. \A u \in Threads : u # t => pc'[u] = pc[u] /\ cur'[u] = cur[u] /\ snip'[u] = snip[u] /\ (Empties(u)' <=> Empties(u))
  BY OtherThreads DEF Empties
<1>2. ASSUME NEW u \in Threads, Empties(u)'
      PROVE  Awaited(cur[u] - 1)' = {}
  <2>0. PICK T : T = cur'[u] - 1
    OBVIOUS
  <2> SUFFICES Awaited(T)' = {}
    BY <2>0 DEF Awaited
  <2>1. CASE Empties(u) /\ cur'[u] = cur[u]
    BY <2>0, <2>1, EmptiesNow, AwaitedStep
  <2>2. CASE u = t /\ Decrements(t) /\ rc[cur[t]] = 0
    <3>1. cur'[t] = cur[t] + 1
      BY <2>2, EmptiesStep
    <3>2. cur[t] \in 1 .. Now /\ Awaited(cur[t]) = {t}
      BY <2>2, LastDecrement
    <3>3. T = cur[t] /\ T \in 1 .. Now
      BY <2>0, <2>2, <3>1, <3>2
    <3> QED
      BY <2>2, <3>2, <3>3, AwaitedStep
  <2> QED
    BY <1>1, <1>2, <2>1, <2>2, EmptiesStep DEF Empties
<1>3. \A u, v \in Threads : Empties(u)' /\ Empties(v)' /\ cur'[u] = cur'[v] => u = v
  <2>1. ASSUME NEW u \in Threads, u # t, Empties(u)', Empties(t)', cur'[u] = cur'[t]
        PROVE  FALSE
    <3>1. Empties(u) /\ cur'[u] = cur[u]
      BY <1>1, <2>1
    <3>2. CASE Decrements(t)
      <4>1. cur'[t] = cur[t] + 1 /\ t \in Awaited(cur[t]) /\ cur[t] \in 1 .. Now
        BY <3>2, EmptiesStep, LastDecrement
      <4>2. cur[u] - 1 = cur[t]
        <5>1. cur[u] \in Nat
          BY <3>1, EmptiesNow
        <5>2. cur[t] \in Nat
          BY <4>1, <1>0
        <5>3. cur[u] = cur[t] + 1
          BY <2>1, <3>1, <4>1
        <5> QED
          BY <5>1, <5>2, <5>3
      <4> QED
        BY <3>1, <4>1, <4>2, EmptiesNow
    <3>3. CASE pc[t] = "snip"
      <4>1. Empties(t) /\ cur'[t] = cur[t]
        BY <3>3, EmptiesStep DEF Empties
      <4> QED
        BY <2>1, <3>1, <4>1 DEF Safe, ListsAgree
    <3> QED
      BY <2>1, <3>2, <3>3, EmptiesStep
  <2>2. \A u, v \in Threads : u # t /\ v # t /\ Empties(u)' /\ Empties(v)' /\ cur'[u] = cur'[v] => u = v
    BY <1>1 DEF Safe, ListsAgree
  <2> QED
    BY <2>1, <2>2
<1>4. ASSUME NEW u \in Threads, pc'[u] = "clear"
      PROVE  snip'[u] = list'[cur'[u] - 1]
  <2>1. CASE u # t
    <3>1. Empties(u) /\ pc[u] = "clear" /\ cur'[u] = cur[u] /\ snip'[u] = snip[u]
      BY <1>1, <1>4, <2>1 DEF Empties
    <3>2. PICK T \in Timestamps : T = cur[u] - 1
      BY <3>1, EmptiesNow
    <3>3. Awaited(T) = {} /\ u \in Registered
      BY <3>1, <3>2, EmptiesNow
    <3>4. ~ (pc[t] = "clear" /\ cur[t] - 1 = T)
      <4>1. pc[t] = "clear" => cur[t] \in Nat /\ cur[u] \in Nat
        BY <3>1, EmptiesNow DEF Empties
      <4>2. Empties(t) /\ cur[t] = cur[u] => t = u
        BY <3>1 DEF Safe, ListsAgree
      <4> QED
        BY <2>1, <3>2, <4>1, <4>2 DEF Empties
    <3>5. ~ (pc[t] \in {"flist", "fworld"} /\ FilesUnder(t) = T)
      BY <3>3, AppendsAwaited DEF Filing
    <3>6. pc[t] # "wipe"
      BY <3>3 DEF Safe, LastIsAlone, Registered
    <3>7. list'[T] = list[T]
      BY <3>4, <3>5, <3>6, ListStep
    <3> QED
      BY <3>1, <3>2, <3>7 DEF Safe, ListsAgree
  <2>2. CASE u = t
    BY <1>4, <2>2, EmptiesStep DEF Empties
  <2> QED
    BY <2>1, <2>2
<1>5. ASSUME NEW T \in Timestamps, list'[T] # {}
      PROVE  Awaited(T)' # {} \/ \E u \in Threads : Empties(u)' /\ cur'[u] - 1 = T
  <2>1. CASE pc[t] \in {"flist", "fworld"} /\ FilesUnder(t) = T
    <3>1. t \in Awaited(T) /\ T \in 1 .. Now /\ ~ Decrements(t)
      BY <2>1, AppendsAwaited DEF Filing, Decrements
    <3> QED
      BY <3>1, AwaitedStep
  <2>2. CASE list'[T] = list[T] /\ ~ (pc[t] = "clear" /\ cur[t] - 1 = T)
    <3>1. T \in 1 .. Now
      <4>1. T \in Nat /\ T >= 1
        BY ConstantsAssumption DEF Timestamps
      <4>2. ~ (T > Now)
        BY <1>5, <2>2 DEF Safe, CountsAgree
      <4> QED
        BY <1>0, <4>1, <4>2
    <3>2. CASE Awaited(T) # {}
      <4> SUFFICES ASSUME Awaited(T)' = {} PROVE \E u \in Threads : Empties(u)' /\ cur'[u] - 1 = T
        OBVIOUS
      <4>1. Decrements(t) /\ cur[t] = T /\ Awaited(T) \subseteq {t}
        BY <3>1, <3>2, AwaitedStep
      <4>2. rc[cur[t]] = 0
        BY <3>2, <4>1, LastDecrement
      <4>3. Empties(t)' /\ cur'[t] = T + 1
        BY <4>1, <4>2, EmptiesStep
      <4> QED
        BY <3>1, <4>3
    <3>3. ASSUME NEW u \in Threads, Empties(u), cur[u] - 1 = T
          PROVE  Empties(u)' /\ cur'[u] - 1 = T
      BY <1>1, <2>2, <3>3, EmptiesStep DEF Empties
    <3> QED
      BY <1>5, <2>2, <3>2, <3>3 DEF Safe, ListsAgree
  <2> QED
    BY <1>5, <2>1, <2>2, ListStep
<1> QED
  BY <1>2, <1>3, <1>4, <1>5 DEF ListsAgree

-----------------------------------------------------------------------------
(* What threads refer to.                                                  *)

\* The only world a thread comes to refer to in a step is the current one.
LEMMA RefsNew ==
  ASSUME IInv, NEW t \in Threads, Step(t)
  PROVE  Refs(t)' \subseteq Refs(t) \cup {wp'.w}
<1> USE DEF IInv, TypeOK, WorldPointers, NoPtr, Refs, library, program, locals
<1>1. CASE RegisterStep(t)
  BY <1>1 DEF RegisterStep, RegisterLock, RegisterSwap, RegisterDrop, Locked
<1>2. CASE FreeStep(t)
  <2>1. CASE FreeRead(t) \/ FreeReload(t)
    BY <2>1 DEF FreeRead, FreeReload
  <2>2. CASE FreeSwap(t)
    BY <2>2 DEF FreeSwap, Raised, Ptr
  <2>3. CASE FreeRetain(t) \/ FreeAppend(t) \/ FreeAppendWorld(t) \/ FreeNow(t)
    BY <2>3 DEF FreeRetain, FreeAppend, FreeAppendWorld, FreeNow, ReturnFromFree
  <2> QED
    BY <1>2, <2>1, <2>2, <2>3 DEF FreeStep
<1>3. CASE CheckinStep(t)
  <2>1. CASE CheckinBit(t)
    BY <2>1 DEF CheckinBit, RetryWith, BitStep
  <2>2. CASE CheckinCopy(t)
    BY <2>2 DEF CheckinCopy, Ptr
  <2>3. CASE Checkin(t)
    BY <2>3 DEF Checkin, BeginCheckin
  <2>4. CASE CheckinRange(t)
    BY <2>4 DEF CheckinRange
  <2>5. CASE CheckinDecrement(t) \/ CheckinSnip(t) \/ CheckinRelease(t) \/ CheckinDone(t)
    BY <2>5 DEF CheckinDecrement, CheckinSnip, CheckinRelease, CheckinDone
  <2> QED
    BY <1>3, <2>1, <2>2, <2>3, <2>4, <2>5 DEF CheckinStep
<1>4. CASE UnregisterStep(t)
  <2>1. CASE UnregisterLock(t)
    BY <2>1 DEF UnregisterLock, Restart, Locked
  <2>2. CASE UnregisterSwap(t)
    BY <2>2 DEF UnregisterSwap
  <2>3. CASE Unregister(t) \/ UnregisterBegin(t)
    BY <2>3 DEF Unregister, UnregisterBegin, BeginCheckin
  <2>4. CASE UnregisterFail(t)
    BY <2>4 DEF UnregisterFail
  <2>5. CASE UnregisterUnlock(t)
    BY <2>5 DEF UnregisterUnlock, CallFree, Restart
  <2>6. CASE UnregisterLeak(t) \/ UnregisterWipe(t) \/ UnregisterOpen(t)
    BY <2>6 DEF UnregisterLeak, UnregisterWipe, UnregisterOpen, Unregistered, Restart
  <2> QED
    BY <1>4, <2>1, <2>2, <2>3, <2>4, <2>5, <2>6 DEF UnregisterStep
<1>5. CASE ProgramStep(t)
  BY <1>5 DEF ProgramStep, Free, Publish
<1> QED
  BY <1>1, <1>2, <1>3, <1>4, <1>5 DEF Step

\* A thread gets no further while it refers to a world.
LEMMA LimitStep ==
  ASSUME IInv, Safe, NEW t \in Threads, Step(t), tss[t] # 0, tss'[t] # 0, Refs(t) # {}, Refs(t)' # {}
  PROVE  Limit(t)' = Limit(t)
<1> USE DEF IInv, Limit, InCheckin, CheckinPcs, LoopPcs, Goto
<1>0. LocalsAgree(t) /\ CallIsConsistent(t)
  BY DEF Safe, LocalsAllAgree, CallsAreConsistent
<1>00. /\ pc[t] \notin {"idle", "lock", "drop", "ubegin"}
       /\ ~ (owp'[t] = NoPtr /\ cwp'[t] = NoPtr)
  BY <1>0 DEF LocalsAgree, Refs, NoPtr
<1>1. CASE RegisterStep(t)
  BY <1>0, <1>00, <1>1 DEF RegisterStep, RegisterLock, RegisterSwap, RegisterDrop, CallIsConsistent
<1>2. CASE FreeStep(t)
  <2>1. pc[t] \in FreePcs /\ tss' = tss /\ new' = new
    BY <1>2 DEF FreeStep, FreeRead, FreeReload, FreeSwap, FreeRetain, FreeAppend, FreeAppendWorld, FreeNow, FreePcs
  <2>2. \/ pc'[t] \in FreePcs /\ ret'[t] = ret[t]
        \/ pc'[t] = ret[t] /\ ret'[t] = "idle"
    BY SMTT(30), <1>2
    DEF FreeStep, FreeRead, FreeReload, FreeSwap, FreeRetain, FreeAppend, FreeAppendWorld, FreeNow, ReturnFromFree,
        FreePcs, TypeOK
  <2> QED
    BY <1>0, <2>1, <2>2 DEF FreePcs, CallIsConsistent
<1>3. CASE CheckinStep(t)
  <2>1. CASE CheckinBit(t) \/ CheckinCopy(t)
    BY <2>1 DEF CheckinBit, CheckinCopy, BitStep, CallFree, TypeOK
  <2>2. CASE CheckinRange(t) \/ CheckinDecrement(t) \/ CheckinSnip(t) \/ CheckinRelease(t)
    BY <2>2 DEF CheckinRange, CheckinDecrement, CheckinSnip, CheckinRelease, TypeOK
  <2>3. CASE CheckinDone(t)
    <3>1. pc[t] = "dec" /\ cwp[t] = NoPtr /\ cwp'[t] = NoPtr
      BY <1>0, <2>3 DEF CheckinDone, LocalsAgree
    <3>2. op[t] # "checkin"
      BY <1>00, <2>3, <3>1 DEF CheckinDone, TypeOK
    <3>3. /\ tss'[t] = new[t] + 1 /\ new'[t] = new[t] /\ pc'[t] = "ulock" /\ ret'[t] = ret[t] /\ ret[t] = "idle"
      BY <1>0, <2>3, <3>1, <3>2 DEF CheckinDone, TypeOK, CallIsConsistent, FreePcs
    <3> QED
      BY <3>1, <3>3
  <2> QED
    BY <1>00, <1>3, <2>1, <2>2, <2>3 DEF CheckinStep, Checkin
<1>4. CASE UnregisterStep(t)
  <2> USE <1>0, <1>00 DEF CallIsConsistent, FreePcs, Restart, TypeOK
  <2>1. CASE UnregisterLock(t)
    BY <2>1 DEF UnregisterLock
  <2>2. CASE UnregisterSwap(t)
    BY <2>2 DEF UnregisterSwap
  <2>3. CASE UnregisterFail(t)
    BY <2>3 DEF UnregisterFail
  <2>4. CASE UnregisterUnlock(t)
    BY <2>4 DEF UnregisterUnlock, CallFree
  <2> QED
    BY <1>4, <2>1, <2>2, <2>3, <2>4
    DEF UnregisterStep, Unregister, UnregisterBegin, UnregisterLeak, UnregisterWipe, UnregisterOpen
<1>5. CASE ProgramStep(t)
  BY <1>00, <1>5 DEF ProgramStep, Free, Publish
<1> QED
  BY <1>1, <1>2, <1>3, <1>4, <1>5 DEF Step

\* Nobody gets further than one beyond the timestamp.
LEMMA LimitBound ==
  ASSUME IInv, Safe, NEW u \in Registered
  PROVE  Limit(u) <= Now + 1 /\ Limit(u) \in Nat
<1>1. /\ u \in Threads /\ Cursor(u) <= Reach /\ new[u] <= Now
      /\ Now \in Nat /\ wp.bit \in 0 .. 1 /\ new[u] \in Nat /\ tss[u] \in Nat
  BY CurrentWorld, ConstantsAssumption DEF IInv, TypeOK, Registered, Safe, CursorsAgree, Now
<1>2. ~ InCheckin(u) => Cursor(u) = tss[u]
  BY DEF InCheckin, CheckinPcs, Cursor
<1> QED
  BY <1>1, <1>2 DEF Limit, Reach

\* The world is replaced by one with the bit set or the next timestamp.
LEMMA SwapRaises ==
  ASSUME IInv, IInv', Safe, Owned, Owned', NEW t \in Threads, Step(t), wp'.w # wp.w, Registered' # {}
  PROVE  Reach' >= Now + 1
<1> USE DEF IInv
<1>1. wp'.bit \in 0 .. 1 /\ Now \in Nat /\ Now' \in Nat /\ Reach' = Now' + wp'.bit
  BY CurrentWorld, ConstantsAssumption DEF TypeOK, WorldPointers, Contents, Now, Reach
<1>2. Now' >= Now
  <2>1. PICK u \in Threads : tss'[u] # 0
    BY DEF Registered
  <2> QED
    BY <2>1, ReachStep
<1>3. CASE wp'.bit = 1
  <2>1. Reach' = Now' + 1
    BY <1>1, <1>3
  <2> QED
    BY <1>1, <1>2, <2>1
<1>4. ASSUME pc'[t] = "fretain", pc[t] = "fcas" PROVE Now' = Now + 1
  BY <1>4, FilingStep DEF Filing
<1>5. CASE RegisterStep(t)
  <2>1. RegisterSwap(t) /\ wp' # wp
    BY <1>5 DEF RegisterStep, RegisterLock, RegisterDrop, Locked, library, TypeOK, WorldPointers
  <2> QED
    BY <1>3, <2>1 DEF RegisterSwap, Ptr
<1>6. CASE FreeStep(t)
  <2>1. FreeSwap(t)
    BY <1>6 DEF FreeStep, FreeRead, FreeReload, FreeRetain, FreeAppend, FreeAppendWorld, FreeNow, library
  <2>2. pc[t] = "fcas" /\ pc'[t] = "fretain"
    BY <2>1 DEF FreeSwap, Goto, TypeOK
  <2> QED
    BY <1>1, <1>4, <2>2
<1>7. CASE CheckinStep(t)
  <2>1. CheckinCopy(t)
    BY <1>7
    DEF CheckinStep, Checkin, CheckinBit, CheckinRange, CheckinDecrement, CheckinSnip, CheckinRelease, CheckinDone,
        library,
                TypeOK, WorldPointers
  <2> QED
    BY <1>3, <2>1 DEF CheckinCopy, Ptr
<1>8. CASE UnregisterStep(t)
  <2>1. UnregisterSwap(t)
    BY <1>8
    DEF UnregisterStep, Unregister, UnregisterBegin, UnregisterLock, UnregisterFail, UnregisterUnlock, UnregisterLeak,
                UnregisterWipe, UnregisterOpen, Locked, Unlocked, library, TypeOK, WorldPointers
  <2>2. pc'[t] # "wipe"
    BY LocksStep DEF LastIsAlone, Registered
  <2> QED
    BY <1>3, <2>1, <2>2 DEF UnregisterSwap, Ptr, Goto, TypeOK
<1>9. CASE ProgramStep(t)
  BY <1>9 DEF ProgramStep, Free, Publish, library
<1> QED
  BY <1>5, <1>6, <1>7, <1>8, <1>9 DEF Step

\* The current world is not on its way to a list or on one.
LEMMA CurrentIsNotFiled ==
  ASSUME IInv', Owned'
  PROVE  /\ \A T \in Timestamps : wp'.w \notin list'[T]
         /\ \A u \in Threads : wp'.w # arg'[u] /\ wp'.w \notin fw'[u]
<1>1. PICK k, h : OwnedBy(k, h)'
  BY DEF Owned
<1>2. wp'.w \in Worlds /\ wp'.w \in Items
  BY DEF IInv, TypeOK, WorldPointers, Items
<1> QED
  BY <1>1, <1>2 DEF OwnedBy, WorldsOwned, ThreadsOwn, ArgsOwn, ListsOwn

\* What a free has to put on its list does not change until it is there.
LEMMA FilingItems ==
  ASSUME IInv, Safe, NEW t \in Threads, Step(t), Filing(t)'
  PROVE  /\ Filing(t) => arg'[t] \in {arg[t], Nil} /\ fw'[t] = fw[t]
         /\ pc[t] \in {"fread", "freload"} => arg'[t] = arg[t] /\ fw'[t] = {}
         /\ pc[t] = "fcas" => arg'[t] = arg[t] /\ fw'[t] \subseteq {wp.w}
<1> USE DEF IInv, Filing, TypeOK, Goto
<1>0. LocalsAgree(t)
  BY DEF Safe, LocalsAllAgree
<1>1. CASE FreeStep(t)
  <2>1. CASE FreeSwap(t)
    BY <1>0, <2>1 DEF FreeSwap, ToFree, LocalsAgree
  <2>2. CASE FreeRead(t) \/ FreeReload(t) \/ FreeRetain(t)
    BY <1>0, <2>2 DEF FreeRead, FreeReload, FreeRetain, LocalsAgree
  <2>3. CASE FreeAppend(t) \/ FreeAppendWorld(t) \/ FreeNow(t)
    BY <1>0, <2>3 DEF FreeAppend, FreeAppendWorld, FreeNow, ReturnFromFree
  <2> QED
    BY <1>1, <2>1, <2>2, <2>3 DEF FreeStep
<1>2. CASE ~ FreeStep(t)
  <2>1. pc[t] \notin FreePcs
    BY <1>2
    DEF Step, RegisterStep, RegisterLock, RegisterSwap, RegisterDrop, CheckinStep, Checkin, CheckinBit, CheckinCopy,
        CheckinRange,
        CheckinDecrement, CheckinSnip, CheckinRelease, CheckinDone, UnregisterStep, Unregister, UnregisterBegin, UnregisterLock,
        UnregisterSwap, UnregisterFail, UnregisterUnlock, UnregisterLeak, UnregisterWipe, UnregisterOpen, ProgramStep, Free, Publish, FreePcs
  <2> QED
    BY <2>1 DEF FreePcs
<1> QED
  BY <1>1, <1>2

\* A free decides not to wait when there is no other thread.
LEMMA FreesNow ==
  ASSUME IInv, Safe, NEW t \in Threads, Step(t), pc'[t] = "fnow"
  PROVE  /\ pc[t] \in {"fread", "freload", "fcas"} /\ Counted <= 1
         /\ tss' = tss /\ arg' = arg /\ wp' = wp /\ cwp'[t] = wp'
<1> USE DEF IInv, TypeOK, Goto
<1>1. CASE FreeStep(t)
  <2>0. CallIsConsistent(t)
    BY DEF CallsAreConsistent
  <2>1. CASE FreeRead(t) \/ FreeReload(t)
    BY <2>1 DEF FreeRead, FreeReload, SingleThreaded, Counted, library
  <2>2. CASE FreeSwap(t)
    BY <2>2 DEF FreeSwap, SingleThreaded, Counted
  <2>3. CASE FreeRetain(t) \/ FreeAppend(t) \/ FreeAppendWorld(t) \/ FreeNow(t)
    BY <2>0, <2>3 DEF FreeRetain, FreeAppend, FreeAppendWorld, FreeNow, ReturnFromFree, CallIsConsistent, FreePcs
  <2> QED
    BY <1>1, <2>1, <2>2, <2>3 DEF FreeStep
<1>2. CASE RegisterStep(t)
  BY <1>2 DEF RegisterStep, RegisterLock, RegisterSwap, RegisterDrop, CallFree
<1>3. CASE CheckinStep(t)
  BY <1>3
  DEF CheckinStep, Checkin, BeginCheckin, BitStep, CheckinBit, CheckinCopy, CheckinRange, CheckinDecrement,
      CheckinSnip, CheckinRelease,
      CheckinDone, CallFree
<1>4. CASE UnregisterStep(t)
  BY <1>4
  DEF UnregisterStep, Unregister, UnregisterBegin, BeginCheckin, BitStep, UnregisterLock, UnregisterSwap,
      UnregisterFail, UnregisterUnlock,
      UnregisterLeak, UnregisterWipe, UnregisterOpen, Unregistered, Restart, CallFree
<1>5. CASE ProgramStep(t)
  <2>1. pc'[t] \in {"fread", "idle"}
    BY <1>5 DEF ProgramStep, Free, Publish, CallFree, locals
  <2> QED
    BY <1>5, <2>1
<1> QED
  BY <1>1, <1>2, <1>3, <1>4, <1>5 DEF Step

\* A world that counts one thread counts the one that looks.
LEMMA SingleIsAlone ==
  ASSUME IInv, Safe, NEW t \in Registered, Counted <= 1
  PROVE  Registered = {t}
<1>1. IsFiniteSet(Registered) /\ Cardinality(Registered) \in Nat /\ Cardinality(Registered) <= 1
  BY Finite DEF Safe, CountsAgree, Counted
<1>2. Cardinality(Registered \ {t}) = Cardinality(Registered) - 1 /\ IsFiniteSet(Registered \ {t})
  BY <1>1, FS_RemoveElement
<1>3. Cardinality(Registered \ {t}) \in Nat
  BY <1>2, FS_CardinalityType
<1>4. Cardinality(Registered \ {t}) = 0
  BY <1>1, <1>2, <1>3
<1>5. Registered \ {t} = {}
  BY <1>2, <1>4, FS_EmptySet
<1> QED
  BY <1>5

\* No step frees a world that a thread refers to, or files one under a
\* timestamp for which that thread has already checked in.
LEMMA RefsStep ==
  ASSUME IInv, IInv', Safe, Owned, Owned', NEW t \in Threads, Step(t)
  PROVE  RefsAgree'
<1> USE DEF IInv
<1>0. /\ Now \in Nat /\ Now' \in Nat /\ Reach \in Nat /\ Reach' \in Nat
      /\ wp.bit \in 0 .. 1 /\ wp'.bit \in 0 .. 1 /\ Reach = Now + wp.bit /\ Reach' = Now' + wp'.bit
  BY CurrentWorld, ConstantsAssumption DEF TypeOK, WorldPointers, Contents, Now, Reach
<1>1. LocalsAllAgree' /\ LastIsAlone'
  BY LocalsStep, LocksStep
<1>2. /\ \A T \in Timestamps : wp'.w \notin list'[T]
      /\ \A u \in Threads : wp'.w # arg'[u] /\ wp'.w \notin fw'[u]
  BY CurrentIsNotFiled
<1>3. \A w \in free' : store'[w] = Blank
  BY FreeIsBlank
<1>4. \A u \in Threads : owp'[u].w \notin free' /\ cwp'[u].w \notin free'
  BY RefsInUse
<1>5. ASSUME NEW u \in Threads, tss'[u] = 0, NEW w \in Refs(u)'
      PROVE  w = wp'.w \/ (pc'[u] \in LockPcs /\ w = owp'[u].w)
  <2>1. pc'[u] \in {"idle", "lock", "join", "leak", "wipe", "open"} /\ LocalsAgree(u)'
    BY <1>1, <1>5
    DEF LocalsAllAgree, CallsAreConsistent, CallIsConsistent, TypeOK, Pcs, FreePcs, LoopPcs, RegisterPcs,
        CheckinPcs, LeavePcs
  <2>2. w \in {owp'[u].w, cwp'[u].w} /\ w # Nil
    BY DEF Refs
  <2>3. CASE pc'[u] \in {"idle", "lock", "join", "leak"}
    BY <2>1, <2>2, <2>3 DEF LocalsAgree, LoopPcs, LockPcs, NoPtr
  <2>4. CASE pc'[u] = "wipe"
    BY <1>1, <2>2, <2>4 DEF LastIsAlone, LockPcs
  <2>5. CASE pc'[u] = "open"
    <3>1. cwp'[u] = wp'
      BY <1>1, <2>5 DEF LastIsAlone
    <3>2. CASE u # t
      <4>1. pc[u] = "open" /\ owp'[u] = owp[u] /\ cwp'[u] = cwp[u] /\ tss[u] = 0
        BY <1>5, <2>5, <3>2, OtherThreads
      <4>2. cwp[u] = wp /\ (owp[u].w = Nil \/ owp[u].w = wp.w)
        BY <4>1 DEF Safe, LastIsAlone, RefsAgree, Registered, Refs, LockPcs
      <4> QED
        BY <2>2, <3>1, <4>1, <4>2
    <3>3. CASE u = t
      <4>1. UnregisterWipe(t)
        <5>1. CASE RegisterStep(t)
          BY <2>5, <3>3, <5>1 DEF RegisterStep, RegisterLock, RegisterSwap, RegisterDrop, CallFree, Goto, TypeOK
        <5>2. CASE FreeStep(t)
          BY SMTT(30), <2>5, <3>3, <5>2
          DEF FreeStep, FreeRead, FreeReload, FreeSwap, FreeRetain, FreeAppend, FreeAppendWorld, FreeNow,
              ReturnFromFree, Goto, TypeOK
        <5>3. CASE CheckinStep(t)
          BY <2>5, <3>3, <5>3
          DEF CheckinStep, Checkin, BeginCheckin, BitStep, CheckinBit, CheckinCopy, CheckinRange, CheckinDecrement,
              CheckinSnip,
              CheckinRelease, CheckinDone, CallFree, Goto, TypeOK
        <5>4. CASE UnregisterStep(t)
          BY <2>5, <3>3, <5>4
          DEF UnregisterStep, Unregister, UnregisterBegin, BeginCheckin, BitStep, UnregisterLock, UnregisterSwap,
              UnregisterFail,
              UnregisterUnlock, UnregisterLeak, UnregisterOpen, Unregistered, Restart, CallFree, Goto, TypeOK
        <5>5. CASE ProgramStep(t)
          <6>1. pc'[t] \in {"fread", "idle"}
            BY <5>5 DEF ProgramStep, Free, Publish, CallFree, Goto, locals, TypeOK
          <6> QED
            BY <2>5, <3>3, <6>1
        <5> QED
          BY <5>1, <5>2, <5>3, <5>4, <5>5 DEF Step
      <4>2. owp'[t].w = Nil
        BY <4>1, RefsOrigin
      <4> QED
        BY <2>2, <3>1, <3>3, <4>2
    <3> QED
      BY <3>2, <3>3
  <2> QED
    BY <2>1, <2>3, <2>4, <2>5
<1>6. ASSUME NEW u \in Threads, tss'[u] # 0, NEW w \in Refs(u)', w # wp'.w
      PROVE  /\ w \in Refs(u) /\ u \in Registered
             /\ Limit(u)' = Limit(u) /\ Limit(u) \in Nat /\ Limit(u) <= Now + 1
             /\ w # wp.w => Limit(u) <= Reach
  <2>1. w \in Refs(u)
    BY <1>6, OtherThreads, RefsNew DEF Refs
  <2>2. tss[u] # 0
    <3> SUFFICES ASSUME tss[u] = 0 PROVE FALSE
      OBVIOUS
    <3>1. u = t
      BY <1>6, OtherThreads
    <3>2. pc'[t] = "drop"
      BY <1>0, <1>6, <3>1, TimeStep
    <3>3. owp'[u] = NoPtr /\ cwp'[u] = NoPtr
      BY <1>1, <3>1, <3>2 DEF LocalsAllAgree, LocalsAgree
    <3> QED
      BY <1>6, <3>3 DEF Refs, NoPtr
  <2>3. Limit(u)' = Limit(u)
    <3>1. CASE u = t
      BY <1>6, <2>1, <2>2, <3>1, LimitStep
    <3>2. CASE u # t
      BY <3>2, OtherThreads DEF Limit, InCheckin
    <3> QED
      BY <3>1, <3>2
  <2>4. u \in Registered
    BY <2>2 DEF Registered
  <2> QED
    BY <2>1, <2>3, <2>4, LimitBound DEF Safe, RefsAgree
<1>7. ASSUME NEW u \in Threads, tss'[u] # 0, NEW w \in Refs(u)', w # wp'.w
      PROVE  Limit(u)' <= Reach'
  <2>1. Limit(u)' = Limit(u) /\ Limit(u) \in Nat /\ Limit(u) <= Now + 1 /\ (w # wp.w => Limit(u) <= Reach)
    BY <1>6, <1>7
  <2>2. CASE w # wp.w
    BY <1>0, <1>7, <2>1, <2>2, ReachStep
  <2>3. CASE w = wp.w
    <3>1. Registered' # {}
      BY <1>7 DEF Registered
    <3>2. Reach' >= Now + 1
      BY <1>7, <2>3, <3>1, SwapRaises
    <3> QED
      BY <1>0, <2>1, <3>2
  <2> QED
    BY <2>2, <2>3
<1>8. ASSUME NEW u \in Threads, tss'[u] # 0, NEW w \in Refs(u)', NEW T \in Timestamps, w \in list'[T]
      PROVE  Limit(u)' <= T
  <2>1. w # wp'.w
    BY <1>2, <1>8
  <2>2. w \in Refs(u) /\ u \in Registered /\ Limit(u)' = Limit(u)
    BY <1>6, <1>8, <2>1
  <2>3. w \in list[T] \/ (Filing(t) /\ FilesUnder(t) = T /\ (w = arg[t] \/ w \in fw[t]))
    BY <1>8, ListStep DEF Filing
  <2> QED
    BY <2>2, <2>3 DEF Safe, RefsAgree
<1>9. ASSUME NEW u \in Threads, tss'[u] # 0, NEW w \in Refs(u)', NEW v \in Threads, Filing(v)', w = arg'[v] \/ w \in fw'[v]
      PROVE  Limit(u)' <= FilesUnder(v)'
  <2>0. w # Nil
    BY DEF Refs
  <2>1. w # wp'.w
    BY <1>2, <1>9
  <2>2. /\ w \in Refs(u) /\ u \in Registered
        /\ Limit(u)' = Limit(u) /\ Limit(u) <= Now + 1 /\ (w # wp.w => Limit(u) <= Reach)
    BY <1>6, <1>9, <2>1
  <2>3. CASE Filing(v) /\ FilesUnder(v)' = FilesUnder(v)
    <3>1. w = arg[v] \/ w \in fw[v]
      BY <1>9, <2>0, <2>3, OtherThreads, FilingItems
    <3> QED
      BY <2>2, <2>3, <3>1 DEF Safe, RefsAgree
  <2>4. CASE cwp'[v] = wp' /\ Now' = Now + 1
    BY <2>2, <2>4 DEF FilesUnder, Now
  <2>5. CASE cwp'[v] = wp' /\ wp' = wp /\ Now' = Now /\ wp.bit = 0
    <3>1. FilesUnder(v)' = Now
      BY <2>5 DEF FilesUnder, Now
    <3> QED
      BY <1>0, <2>1, <2>2, <2>5, <3>1
  <2> QED
    BY <1>9, <2>3, <2>4, <2>5, FilingStep
<1>10. ASSUME NEW u \in Threads, tss'[u] # 0, NEW w \in Refs(u)', NEW v \in Threads, pc'[v] = "fnow", w = arg'[v]
       PROVE  FALSE
  <2>1. w # wp'.w
    BY <1>2, <1>10
  <2>2. w \in Refs(u) /\ u \in Registered
    BY <1>6, <1>10, <2>1
  <2>3. CASE v # t
    <3>1. pc[v] = "fnow" /\ arg'[v] = arg[v]
      BY <1>10, <2>3, OtherThreads
    <3> QED
      BY <1>10, <2>2, <3>1 DEF Safe, RefsAgree
  <2>4. CASE v = t
    <3>1. pc[t] \in FreePcs /\ Counted <= 1 /\ cwp'[t] = wp'
      BY <1>10, <2>4, FreesNow DEF FreePcs
    <3>2. t \in Registered
      BY <3>1 DEF Registered, CallsAreConsistent, CallIsConsistent
    <3>3. u = t
      BY <2>2, <3>1, <3>2, SingleIsAlone
    <3>4. w = owp'[t].w /\ w = arg'[t] /\ w # Nil
      BY <1>10, <2>1, <2>4, <3>1, <3>3 DEF Refs
    <3> QED
      BY <1>1, <3>4 DEF LocalsAllAgree, LocalsAgree
  <2> QED
    BY <2>3, <2>4
<1>11. \A u \in Threads \ Registered' : \A w \in Refs(u)' : w = wp'.w \/ (pc'[u] \in LockPcs /\ w = owp'[u].w)
  BY <1>5 DEF Registered
<1>12. \A u \in Registered' : u \in Threads /\ tss'[u] # 0
  BY DEF Registered
<1>13. ASSUME NEW u \in Registered', NEW w \in Refs(u)'
       PROVE  /\ w # wp'.w => Limit(u)' <= Reach'
              /\ \A T \in Timestamps : w \in list'[T] => Limit(u)' <= T
              /\ \A v \in Threads :
                    /\ Filing(v)' /\ (w = arg'[v] \/ w \in fw'[v]) => Limit(u)' <= FilesUnder(v)'
                    /\ pc'[v] = "fnow" => w # arg'[v]
  BY <1>7, <1>8, <1>9, <1>10, <1>12
<1> QED
  BY <1>3, <1>4, <1>11, <1>13 DEF RefsAgree

-----------------------------------------------------------------------------
(* Who may still use a pointer.                                            *)

\* A thread that runs the program has the cursor at its timestamp.
LEMMA UserCursor ==
  ASSUME IInv, NEW u \in Threads, InUserCode(u)
  PROVE  u \in Registered /\ Cursor(u) = tss[u] /\ pc[u] \in {"idle"} \cup FreePcs
BY DEF IInv, InUserCode, Registered, CallsAreConsistent, CallIsConsistent, Cursor, FreePcs, LoopPcs

\* A pointer that is linked is nowhere in the library.
LEMMA LinkedIsNowhere ==
  ASSUME Owned, NEW p \in Pointers, pstate[p] # "retired"
  PROVE  (\A T \in Timestamps : p \notin list[T]) /\ (\A u \in Threads : p # arg[u])
BY DEF Owned, OwnedBy, PointersOwned, ArgsOwn, ListsOwn, Items

\* Threads come to hold a pointer when it is freed, and do so until they check
\* in.
LEMMA HoldersOrigin ==
  ASSUME IInv, IInv', NEW t \in Threads, Step(t), NEW p \in Pointers, NEW u \in holders'[p]
  PROVE  \/ u \in holders[p] /\ (InUserCode(u) => InUserCode(u)' /\ tss'[u] = tss[u])
         \/ /\ Free(t, p) /\ u # t /\ InUserCode(u) /\ InUserCode(u)' /\ tss'[u] = tss[u]
<1> USE DEF IInv
<1>0. CallIsConsistent(t) /\ u \in Threads
  BY DEF CallsAreConsistent, TypeOK
<1>1. u # t => InUserCode(u)' = InUserCode(u) /\ tss'[u] = tss[u]
  BY <1>0, OtherThreads DEF InUserCode
<1>2. ASSUME holders' = holders,
             InUserCode(t) => tss'[t] = tss[t] /\ op'[t] \in {"none", "free"}
      PROVE  u \in holders[p] /\ (InUserCode(u) => InUserCode(u)' /\ tss'[u] = tss[u])
  BY <1>1, <1>2 DEF InUserCode
<1>3. CASE RegisterStep(t)
  BY <1>0, <1>2, <1>3
  DEF RegisterStep, RegisterLock, RegisterSwap, RegisterDrop, program, InUserCode, CallIsConsistent, TypeOK
<1>4. CASE FreeStep(t)
  BY SMTT(30), <1>2, <1>4
  DEF FreeStep, FreeRead, FreeReload, FreeSwap, FreeRetain, FreeAppend, FreeAppendWorld, FreeNow, ReturnFromFree,
      program, InUserCode, TypeOK
<1>5. CASE CheckinStep(t) /\ ~ Checkin(t)
  <2>1. pc[t] \in CheckinPcs /\ holders' = holders
    BY <1>5
    DEF CheckinStep, CheckinBit, CheckinCopy, CheckinRange, CheckinDecrement, CheckinSnip, CheckinRelease,
        CheckinDone, CheckinPcs, LoopPcs,
        program
  <2>2. ~ InUserCode(t)
    BY <1>0, <2>1 DEF InUserCode, CallIsConsistent, CheckinPcs, LoopPcs, FreePcs
  <2> QED
    BY <1>2, <2>1, <2>2
<1>6. CASE UnregisterStep(t) /\ ~ Unregister(t)
  <2>1. pc[t] \in LeavePcs /\ holders' = holders
    BY <1>6
    DEF UnregisterStep, UnregisterBegin, UnregisterLock, UnregisterSwap, UnregisterFail, UnregisterUnlock,
        UnregisterLeak, UnregisterWipe,
        UnregisterOpen, LeavePcs, program
  <2>2. ~ InUserCode(t)
    BY <1>0, <2>1 DEF InUserCode, CallIsConsistent, LeavePcs, FreePcs
  <2> QED
    BY <1>2, <2>1, <2>2
<1>7. CASE Checkin(t) \/ Unregister(t)
  <2>1. u \in holders[p] /\ u # t
    BY <1>7 DEF Checkin, Unregister, Promise
  <2> QED
    BY <1>1, <2>1
<1>8. ASSUME NEW q \in Pointers, Free(t, q)
      PROVE  \/ u \in holders[p] /\ (InUserCode(u) => InUserCode(u)' /\ tss'[u] = tss[u])
             \/ Free(t, p) /\ u # t /\ InUserCode(u) /\ InUserCode(u)' /\ tss'[u] = tss[u]
  <2>1. \A v \in Threads : InUserCode(v) => InUserCode(v)' /\ tss'[v] = tss[v]
    BY <1>8 DEF Free, InUserCode, TypeOK
  <2>2. holders'[p] = IF p = q THEN {v \in Threads \ {t} : InUserCode(v)} ELSE holders[p]
    BY <1>8 DEF Free, TypeOK
  <2> QED
    BY <1>0, <1>8, <2>1, <2>2
<1>9. ASSUME NEW q \in Pointers, Publish(t, q)
      PROVE  u \in holders[p] /\ (InUserCode(u) => InUserCode(u)' /\ tss'[u] = tss[u])
  BY <1>9 DEF Publish, locals, InUserCode
<1> QED
  BY <1>3, <1>4, <1>5, <1>6, <1>7, <1>8, <1>9 DEF Step, CheckinStep, UnregisterStep, ProgramStep

\* A pointer that is retired stays so while somebody may use it.
LEMMA HeldIsRetired ==
  ASSUME IInv, Safe, NEW t \in Threads, Step(t), NEW p \in Pointers, NEW u \in holders[p]
  PROVE  pstate'[p] = "retired"
<1> USE DEF IInv, TypeOK, library, program
<1>0. pstate[p] = "retired" /\ InUserCode(u) /\ u \in Threads
  BY DEF Safe, HoldersAgree
<1>1. CASE RegisterStep(t)
  BY <1>0, <1>1 DEF RegisterStep, RegisterLock, RegisterSwap, RegisterDrop
<1>2. CASE FreeStep(t)
  <2>1. CASE FreeNow(t)
    <3>1. pc[t] = "fnow" /\ pstate' = [q \in Pointers |-> IF q \in {arg[t]} \cup fw[t] THEN "released" ELSE pstate[q]]
      BY <2>1 DEF FreeNow, Release
    <3>2. p # arg[t] /\ p \notin fw[t]
      BY <3>1, ConstantsAssumption DEF Safe, HoldersAgree
    <3> QED
      BY <1>0, <3>1, <3>2
  <2> QED
    BY <1>0, <1>2, <2>1 DEF FreeStep, FreeRead, FreeReload, FreeSwap, FreeRetain, FreeAppend, FreeAppendWorld
<1>3. CASE CheckinStep(t)
  <2>1. CASE CheckinRelease(t)
    <3>1. pc[t] = "clear" /\ pstate' = [q \in Pointers |-> IF q \in snip[t] THEN "released" ELSE pstate[q]]
      BY <2>1 DEF CheckinRelease, Release
    <3>2. PICK T \in Timestamps : T = cur[t] - 1 /\ Awaited(T) = {}
      BY <3>1, EmptiesNow DEF Empties
    <3>3. snip[t] = list[T]
      BY <3>1, <3>2 DEF Safe, ListsAgree
    <3>4. p \in list[T] => u \in Awaited(T)
      BY <1>0, UserCursor DEF Safe, HoldersAgree, Awaited
    <3> QED
      BY <1>0, <3>1, <3>2, <3>3, <3>4
  <2> QED
    BY <1>0, <1>3, <2>1
    DEF CheckinStep, Checkin, CheckinBit, CheckinCopy, CheckinRange, CheckinDecrement, CheckinSnip, CheckinDone
<1>4. CASE UnregisterStep(t)
  BY <1>0, <1>4
  DEF UnregisterStep, Unregister, UnregisterBegin, UnregisterLock, UnregisterSwap, UnregisterFail, UnregisterUnlock,
      UnregisterLeak,
      UnregisterWipe, UnregisterOpen
<1>5. CASE ProgramStep(t)
  BY <1>0, <1>5 DEF ProgramStep, Free, Publish
<1> QED
  BY <1>1, <1>2, <1>3, <1>4, <1>5 DEF Step

\* A pointer is on its way to a list because the program has freed it.
LEMMA PointerArg ==
  ASSUME IInv, NEW t \in Threads, Step(t), NEW p \in Pointers, arg'[t] = p
  PROVE  arg[t] = p \/ (Free(t, p) /\ pc'[t] = "fread")
<1> USE ConstantsAssumption DEF IInv, TypeOK, WorldPointers, CallFree, Goto, locals
<1>1. CASE RegisterStep(t)
  BY <1>1 DEF RegisterStep, RegisterLock, RegisterSwap, RegisterDrop
<1>2. CASE FreeStep(t)
  BY <1>2
  DEF FreeStep, FreeRead, FreeReload, FreeSwap, FreeRetain, FreeAppend, FreeAppendWorld, FreeNow, ReturnFromFree
<1>3. CASE CheckinStep(t)
  BY <1>3
  DEF CheckinStep, Checkin, CheckinBit, CheckinCopy, CheckinRange, CheckinDecrement, CheckinSnip, CheckinRelease,
      CheckinDone
<1>4. CASE UnregisterStep(t)
  <2>1. CASE UnregisterUnlock(t)
    <3>1. owp[t].w \in Worlds
      BY <2>1 DEF UnregisterUnlock, CallsAreConsistent, CallIsConsistent
    <3> QED
      BY <2>1, <3>1 DEF UnregisterUnlock
  <2> QED
    BY <1>4, <2>1
    DEF UnregisterStep, Unregister, UnregisterBegin, UnregisterLock, UnregisterSwap, UnregisterFail, UnregisterLeak,
        UnregisterWipe,
        UnregisterOpen
<1>5. ASSUME NEW q \in Pointers, Free(t, q) PROVE Free(t, p) /\ pc'[t] = "fread"
  <2>1. arg'[t] = q /\ pc'[t] = "fread"
    BY <1>5 DEF Free, Items
  <2> QED
    BY <1>5, <2>1
<1>6. ASSUME NEW q \in Pointers, Publish(t, q) PROVE arg[t] = p
  BY <1>6 DEF Publish
<1> QED
  BY <1>1, <1>2, <1>3, <1>4, <1>5, <1>6 DEF Step, ProgramStep

\* No step files a pointer under a timestamp for which a thread that may use
\* it has already checked in.
LEMMA HoldersStep ==
  ASSUME IInv, IInv', Safe, Owned, Owned', NEW t \in Threads, Step(t)
  PROVE  HoldersAgree'
<1> USE DEF IInv
<1> SUFFICES ASSUME NEW p \in Pointers, NEW u \in holders'[p]
             PROVE  /\ pstate'[p] = "retired" /\ InUserCode(u)'
                    /\ \A T \in Timestamps : p \in list'[T] => tss'[u] <= T
                    /\ \A v \in Threads : arg'[v] = p =>
                          /\ u # v
                          /\ Filing(v)' => tss'[u] <= FilesUnder(v)'
                          /\ pc'[v] # "fnow"
  BY DEF HoldersAgree
<1>0. u \in Threads
  BY DEF TypeOK
<1>1. CASE /\ Free(t, p) /\ u # t /\ InUserCode(u)'
  <2>1. pstate'[p] = "retired" /\ list' = list /\ pc'[t] = "fread" /\ pstate[p] # "retired"
    BY <1>1 DEF Free, CallFree, Goto, TypeOK, library
  <2>2. \A v \in Threads : v # t => arg'[v] = arg[v]
    BY OtherThreads
  <2>3. (\A T \in Timestamps : p \notin list[T]) /\ (\A v \in Threads : p # arg[v])
    BY <2>1, LinkedIsNowhere
  <2> QED
    BY <1>1, <2>1, <2>2, <2>3 DEF Filing
<1>2. CASE u \in holders[p] /\ (InUserCode(u) => InUserCode(u)' /\ tss'[u] = tss[u])
  <2>1. /\ pstate[p] = "retired" /\ InUserCode(u)' /\ tss'[u] = tss[u] /\ tss[u] \in Nat
        /\ \A T \in Timestamps : p \in list[T] => tss[u] <= T
        /\ \A v \in Threads : arg[v] = p =>
              /\ u # v
              /\ Filing(v) => tss[u] <= FilesUnder(v)
              /\ pc[v] # "fnow"
    BY <1>0, <1>2, ConstantsAssumption DEF Safe, HoldersAgree, TypeOK
  <2>2. /\ u \in Registered /\ tss[u] <= Now + wp.bit
        /\ wp.bit \in 0 .. 1 /\ Now \in Nat
    BY <1>0, <1>2, UserCursor, CurrentWorld, ConstantsAssumption DEF Safe, HoldersAgree, CursorsAgree, Reach, Now
  <2>3. pstate'[p] = "retired"
    BY <1>2, HeldIsRetired
  <2>4. ASSUME NEW T \in Timestamps, p \in list'[T] PROVE tss'[u] <= T
    <3>1. p \notin fw[t]
      BY ConstantsAssumption DEF TypeOK
    <3>2. p \in list[T] \/ (Filing(t) /\ FilesUnder(t) = T /\ p = arg[t])
      BY <2>4, <3>1, ListStep DEF Filing
    <3> QED
      BY <2>1, <3>2
  <2>5. ASSUME NEW v \in Threads, arg'[v] = p PROVE arg[v] = p
    <3>1. ~ Free(t, p)
      BY <2>1 DEF Free
    <3> QED
      BY <2>5, <3>1, OtherThreads, PointerArg
  <2>6. ASSUME NEW v \in Threads, arg'[v] = p, Filing(v)' PROVE tss'[u] <= FilesUnder(v)'
    <3>1. arg[v] = p
      BY <2>5, <2>6
    <3>2. CASE Filing(v) /\ FilesUnder(v)' = FilesUnder(v)
      BY <2>1, <3>1, <3>2
    <3>3. CASE cwp'[v] = wp' /\ Now' = Now + 1
      BY <2>1, <2>2, <3>3 DEF FilesUnder, Now
    <3>4. CASE cwp'[v] = wp' /\ Now' = Now /\ wp.bit = 0
      BY <2>1, <2>2, <3>4 DEF FilesUnder, Now
    <3> QED
      BY <2>6, <3>2, <3>3, <3>4, FilingStep
  <2>7. ASSUME NEW v \in Threads, arg'[v] = p PROVE pc'[v] # "fnow"
    <3>1. arg[v] = p /\ u # v /\ pc[v] # "fnow"
      BY <2>1, <2>5, <2>7
    <3>2. CASE v # t
      BY <3>1, <3>2, OtherThreads
    <3>3. CASE v = t
      <4> SUFFICES ASSUME pc'[t] = "fnow" PROVE FALSE
        BY <3>3
      <4>1. pc[t] \in FreePcs /\ Counted <= 1
        BY FreesNow DEF FreePcs
      <4>2. t \in Registered
        BY <4>1 DEF Registered, CallsAreConsistent, CallIsConsistent
      <4> QED
        BY <2>2, <3>1, <3>3, <4>1, <4>2, SingleIsAlone
    <3> QED
      BY <3>2, <3>3
  <2> QED
    BY <2>1, <2>3, <2>4, <2>5, <2>6, <2>7
<1> QED
  BY <1>1, <1>2, HoldersOrigin

-----------------------------------------------------------------------------
(* The invariant.                                                          *)

\* In the beginning there is nothing to disagree about.
LEMMA InitSafe == Init => Safe
<1> SUFFICES ASSUME Init PROVE Safe
  OBVIOUS
<1>0. PICK w \in Worlds : wp = Ptr(w, 0) /\ free = Worlds \ {w}
  BY DEF Init
<1>1. Registered = {} /\ store[wp.w] = Blank /\ Now = 0 /\ wp.lock = 0 /\ \A T : Awaited(T) = {}
  BY <1>0 DEF Init, Registered, Awaited, Ptr, Now, Blank
<1>2. \A t \in Threads : /\ pc[t] = "idle" /\ ret[t] = "idle" /\ owp[t] = NoPtr /\ cwp[t] = NoPtr /\ arg[t] = Nil
                         /\ fw[t] = {} /\ new[t] = 0 /\ tss[t] = 0
  BY DEF Init
<1>3. LocalsAllAgree
  BY <1>2 DEF LocalsAllAgree, LocalsAgree, FreePcs, LoopPcs, HoldsLock, InCheckin, CheckinPcs
<1>4. LockAgrees /\ LastIsAlone
  BY <1>1, <1>2 DEF LockAgrees, LastIsAlone, HoldsLock
<1>5. CursorsAgree
  BY <1>1 DEF CursorsAgree
<1>6. CountsAgree
  BY <1>1, <1>2, FS_EmptySet DEF CountsAgree, Blank, Init
<1>7. ListsAgree
  BY <1>2 DEF ListsAgree, Empties, Init
<1>8. RefsAgree
  BY <1>0, <1>1, <1>2, ConstantsAssumption DEF RefsAgree, Refs, NoPtr, Init
<1>9. HoldersAgree
  BY DEF HoldersAgree, Init
<1> QED
  BY <1>3, <1>4, <1>5, <1>6, <1>7, <1>8, <1>9 DEF Safe

\* Once all threads have unregistered nothing waits and nobody holds anything.
LEMMA ResetSafe == IInv /\ IInv' /\ Safe /\ Owned /\ Reset => Safe'
<1> SUFFICES ASSUME IInv, IInv', Safe, Owned, Reset PROVE Safe'
  OBVIOUS
<1> USE DEF IInv
<1>0. PICK w \in free \cup leaks \cup {wp.w} : wp' = Ptr(w, 0) /\ free' = (free \cup leaks \cup {wp.w}) \ {w}
  BY DEF Reset
<1>1. \A t \in Threads : /\ pc[t] = "idle" /\ ret[t] = "idle" /\ owp[t] = NoPtr /\ cwp[t] = NoPtr /\ arg[t] = Nil
                         /\ new[t] = 0 /\ tss[t] = 0 /\ fw[t] = {}
  BY DEF Reset, Safe, LocalsAllAgree, LocalsAgree, CallsAreConsistent, CallIsConsistent, FreePcs
<1>2. Registered = {} /\ \A T : Awaited(T) = {}
  BY <1>1 DEF Registered, Awaited
<1>3. \A v \in free \cup leaks \cup {wp.w} : v \in Worlds /\ store'[v] = Blank
  BY CurrentWorld DEF Reset, TypeOK, Safe, RefsAgree
<1>4. store'[wp'.w] = Blank /\ Now' = 0 /\ wp'.lock = 0
  BY <1>0, <1>3 DEF Ptr, Now, Blank
<1>5. rc' = rc /\ list' = list /\ program' = program /\ locals' = locals
  BY DEF Reset
<1>6. \A t \in Threads : /\ pc'[t] = "idle" /\ ret'[t] = "idle" /\ owp'[t] = NoPtr /\ cwp'[t] = NoPtr /\ arg'[t] = Nil
                         /\ new'[t] = 0 /\ tss'[t] = 0 /\ fw'[t] = {}
  BY <1>1, <1>5 DEF locals
<1>7. Registered' = {} /\ \A T : Awaited(T)' = {}
  BY <1>6 DEF Registered, Awaited
<1>8. \A T \in Timestamps : rc'[T] = -1 /\ list'[T] = {}
  <2>1. \A u \in Threads, T \in Timestamps : ~ Raiser(u, T) /\ ~ (Empties(u) /\ cur[u] - 1 = T)
    BY <1>1 DEF Raiser, Empties
  <2> QED
    BY <1>2, <1>5, <2>1, NothingLeft
<1>9. LocalsAllAgree'
  BY <1>6 DEF LocalsAllAgree, LocalsAgree, FreePcs, LoopPcs, HoldsLock, InCheckin, CheckinPcs
<1>10. LockAgrees' /\ LastIsAlone'
  BY <1>4, <1>6 DEF LockAgrees, LastIsAlone, HoldsLock
<1>11. CursorsAgree'
  BY <1>7 DEF CursorsAgree
<1>12. CountsAgree'
  BY <1>4, <1>6, <1>7, <1>8, FS_EmptySet DEF CountsAgree, Blank
<1>13. ListsAgree'
  BY <1>6, <1>8 DEF ListsAgree, Empties
<1>14. RefsAgree'
  BY <1>0, <1>3, <1>6, <1>7, ConstantsAssumption DEF RefsAgree, Refs, NoPtr
<1>15. HoldersAgree'
  <2>1. \A p \in Pointers : holders[p] = {}
    BY <1>1 DEF Safe, HoldersAgree, InUserCode, TypeOK
  <2> QED
    BY <1>5, <2>1 DEF HoldersAgree, program
<1> QED
  BY <1>9, <1>10, <1>11, <1>12, <1>13, <1>14, <1>15 DEF Safe

\* A step that changes nothing disturbs nothing.
LEMMA QuietSafe == Safe /\ UNCHANGED vars => Safe'
<1> SUFFICES ASSUME Safe, UNCHANGED vars PROVE Safe'
  OBVIOUS
<1> USE DEF Safe, vars, library, program, locals
<1>1. LocalsAllAgree' /\ LockAgrees' /\ LastIsAlone'
  BY DEF LocalsAllAgree, LocalsAgree, LockAgrees, LastIsAlone, HoldsLock, InCheckin, Now
<1>2. CursorsAgree'
  BY DEF CursorsAgree, Registered, Cursor, Reach, Now, BitIsSet, InCheckin, Filing, FilesUnder
<1>3. CountsAgree'
  BY DEF CountsAgree, Registered, Now, Raiser, Awaited, Cursor, FilesUnder
<1>4. ListsAgree'
  BY DEF ListsAgree, Empties, Awaited, Registered, Cursor
<1>5. RefsAgree'
  BY DEF RefsAgree, Refs, Registered, Limit, InCheckin, Reach, Now, Filing, FilesUnder
<1>6. HoldersAgree'
  BY DEF HoldersAgree, InUserCode, Filing, FilesUnder
<1> QED
  BY <1>1, <1>2, <1>3, <1>4, <1>5, <1>6

\* The invariant is inductive.
LEMMA NextInv == Inv /\ [Next]_vars => Inv'
<1> SUFFICES ASSUME Inv, [Next]_vars PROVE Inv'
  OBVIOUS
<1> USE DEF Inv
<1>1. IInv' /\ Owned'
  BY NextIInv, NextOwned
<1>2. ASSUME NEW t \in Threads, Step(t) PROVE Safe'
  BY <1>1, <1>2, LocalsStep, LocksStep, CursorsStep, CountsStep, ListsStep, RefsStep, HoldersStep DEF Safe
<1>3. ASSUME Reset PROVE Safe'
  BY <1>1, <1>3, ResetSafe
<1>4. ASSUME UNCHANGED vars PROVE Safe'
  BY <1>4, QuietSafe
<1>5. Safe'
  BY <1>2, <1>3, <1>4 DEF Next, Step
<1> QED
  BY <1>1, <1>5

\* The inductive invariant.
LEMMA AlwaysInv == Spec => []Inv
<1>1. Init => Inv
  BY InitIInv, InitSafe, InitOwned DEF Inv
<1> QED
  BY <1>1, NextInv, PTL DEF Spec

\* Safe: no interleaving of calls takes the threads to a state in which one of
\* them relies on something that is not so.
THEOREM ThreadsAgree == Spec => []Safe
BY AlwaysInv, PTL DEF Inv

-----------------------------------------------------------------------------
(* Worlds.                                                                 *)

\* NoWorldFreedInUse: no thread in a checkin, a free, a registration or an
\* unregistration refers to a world that has been freed, although it reads
\* the world without a lock and others replace and free worlds meanwhile.
THEOREM WorldsInUseAreKept == Spec => []NoWorldFreedInUse
<1>1. Inv => NoWorldFreedInUse
  BY DEF Inv, Safe, RefsAgree, NoWorldFreedInUse
<1> QED
  BY <1>1, AlwaysInv, PTL

\* WorldHasOneOwner: a world is current, free, leaked, on one list, in one
\* call or with one thread that has locked it, and never in two of these
\* places: nothing is freed twice and nothing is lost.
THEOREM WorldsHaveOneOwner == Spec => []WorldHasOneOwner
<1>1. ASSUME Inv, NEW w \in Worlds PROVE Cardinality(Owners(w)) = 1
  <2>0. PICK k, h : OwnedBy(k, h)
    BY <1>1 DEF Inv, Owned
  <2>00. w \in Items
    BY DEF Items
  <2>1. {<<"free", Nil>> : x \in {w} \cap free} = IF k[w] = "free" THEN {<<"free", Nil>>} ELSE {}
    BY <2>0 DEF OwnedBy, WorldsOwned
  <2>2. {<<"current", Nil>> : x \in {w} \cap {wp.w}} = IF k[w] = "current" THEN {<<"current", Nil>>} ELSE {}
    BY <2>0 DEF OwnedBy, WorldsOwned
  <2>3. {<<"leaks", Nil>> : x \in {w} \cap leaks} = IF k[w] = "leaks" THEN {<<"leaks", Nil>>} ELSE {}
    BY <2>0 DEF OwnedBy, WorldsOwned
  <2>4. {<<"list", T>> : T \in {U \in Timestamps : w \in list[U]}} = IF k[w] = "list" THEN {<<"list", h[w]>>} ELSE {}
    <3>1. \A U \in Timestamps : w \in list[U] <=> k[w] = "list" /\ h[w] = U
      BY <2>0, <2>00 DEF OwnedBy, ListsOwn
    <3>2. k[w] = "list" => h[w] \in Timestamps
      BY <2>0, <2>00 DEF OwnedBy, OwnersExist
    <3> QED
      BY <3>1, <3>2
  <2>5. k[w] \in {"arg", "chain", "replaced", "locked"} => h[w] \in Threads
    BY <2>0, <2>00 DEF OwnedBy, OwnersExist
  <2>6. {<<"arg", t>> : t \in {u \in Threads : arg[u] = w}} = IF k[w] = "arg" THEN {<<"arg", h[w]>>} ELSE {}
    <3>1. \A u \in Threads : arg[u] = w <=> k[w] = "arg" /\ h[w] = u
      BY <2>0, <2>00 DEF OwnedBy, ArgsOwn
    <3> QED
      BY <2>5, <3>1
  <2>7. {<<"chain", t>> : t \in {u \in Threads : w \in chain[u]}} = IF k[w] = "chain" THEN {<<"chain", h[w]>>} ELSE {}
    <3>1. \A u \in Threads : w \in chain[u] <=> k[w] = "chain" /\ h[w] = u
      BY <2>0 DEF OwnedBy, ThreadsOwn
    <3> QED
      BY <2>5, <3>1
  <2>8. {<<"replaced", t>> : t \in {u \in Threads : w \in fw[u]}} = IF k[w] = "replaced" THEN {<<"replaced", h[w]>>} ELSE {}
    <3>1. \A u \in Threads : w \in fw[u] <=> k[w] = "replaced" /\ h[w] = u
      BY <2>0 DEF OwnedBy, ThreadsOwn
    <3> QED
      BY <2>5, <3>1
  <2>9. {<<"locked", t>> : t \in {u \in Threads : pc[u] \in LockPcs /\ w = owp[u].w /\ w # wp.w}}
          = IF k[w] = "locked" THEN {<<"locked", h[w]>>} ELSE {}
    <3>1. \A u \in Threads : pc[u] \in LockPcs /\ w = owp[u].w /\ w # wp.w <=> k[w] = "locked" /\ h[w] = u
      BY <2>0 DEF OwnedBy, ThreadsOwn, LockedBy
    <3> QED
      BY <2>5, <3>1
  <2>10. k[w] \in {"free", "current", "leaks", "list", "arg", "chain", "replaced", "locked"}
    BY <2>0 DEF OwnedBy, WorldsOwned
  <2>11. \E o : Owners(w) = {o}
    BY ZenonT(30), <2>1, <2>2, <2>3, <2>4, <2>6, <2>7, <2>8, <2>9, <2>10 DEF Owners
  <2> QED
    BY <2>11, FS_Singleton
<1>2. Inv => WorldHasOneOwner
  BY <1>1 DEF WorldHasOneOwner
<1> QED
  BY <1>2, AlwaysInv, PTL

\* LockHasOneOwner: the lock of the world pointer belongs to one thread, which
\* will take it off, though several threads may have locked a world that was
\* replaced under them.
THEOREM LocksHaveOneOwner == Spec => []LockHasOneOwner
<1>1. ASSUME Inv, wp.lock = 1
      PROVE  Cardinality({t \in Threads : \/ pc[t] \in {"join", "leave", "unlock"} /\ owp[t] = wp
                                          \/ pc[t] \in {"wipe", "open"} /\ cwp[t] = wp}) = 1
  <2>0. LockAgrees /\ LastIsAlone
    BY <1>1 DEF Inv, Safe
  <2>1. PICK l \in Threads : (HoldsLock(l) /\ owp[l] = wp) \/ pc[l] \in {"wipe", "open"}
    BY <1>1, <2>0 DEF LockAgrees
  <2>2. {t \in Threads : \/ pc[t] \in {"join", "leave", "unlock"} /\ owp[t] = wp
                         \/ pc[t] \in {"wipe", "open"} /\ cwp[t] = wp} = {l}
    BY <2>0, <2>1 DEF LockAgrees, LastIsAlone, HoldsLock
  <2> QED
    BY <2>2, FS_Singleton
<1>2. Inv => LockHasOneOwner
  BY <1>1 DEF LockHasOneOwner
<1> QED
  BY <1>2, AlwaysInv, PTL

-----------------------------------------------------------------------------
(* Timestamps, retain counts and lists.                                    *)

\* WorldCountsThreads: the current world counts the registered threads.
THEOREM ThreadsAreCounted == Spec => []WorldCountsThreads
<1>1. Inv => WorldCountsThreads
  BY DEF Inv, Safe, CountsAgree, WorldCountsThreads
<1> QED
  BY <1>1, AlwaysInv, PTL

\* BitClearUntilCheckin: as long as the bit is clear no thread has checked in
\* for the timestamp of the world.
THEOREM BitTellsOfCheckins == Spec => []BitClearUntilCheckin
<1>1. Inv => BitClearUntilCheckin
  BY DEF Inv, Safe, CursorsAgree, Reach, Now, BitClearUntilCheckin
<1> QED
  BY <1>1, AlwaysInv, PTL

\* RetainCountsCheckins: the retain count of a timestamp, with what is still
\* to be added, is one less than the number of threads that have not checked
\* in for it, in any order of frees, checkins and unregistrations.
THEOREM RetainCountsAreExact == Spec => []RetainCountsCheckins
<1>1. ASSUME Inv, NEW T \in 1 .. store[wp.w].ts
      PROVE  rc[T] + Pending(T) = Cardinality({t \in Registered : Cursor(t) <= T}) - 1
  <2>0. CountsAgree /\ T \in 1 .. Now
    BY <1>1 DEF Inv, Safe, Now
  <2>1. PICK raisers : raisers = {t \in Threads : pc[t] = "fretain" /\ store[cwp[t].w].ts = T}
    OBVIOUS
  <2>2. Pending(T) = IF raisers = {} THEN 0 ELSE store[cwp[CHOOSE t \in raisers : TRUE].w].nt
    BY <2>1 DEF Pending
  <2>3. CASE raisers = {}
    <3>1. \A t \in Threads : ~ Raiser(t, T)
      BY <2>1, <2>3 DEF Raiser, FilesUnder
    <3>2. rc[T] = Cardinality(Awaited(T)) - 1
      BY <2>0, <3>1 DEF CountsAgree
    <3>3. Cardinality(Awaited(T)) \in Nat
      BY Finite
    <3> QED
      BY <2>2, <2>3, <3>2, <3>3 DEF Awaited
  <2>4. CASE raisers # {}
    <3>1. PICK u \in raisers : u = CHOOSE t \in raisers : TRUE
      BY <2>4
    <3>2. u \in Threads /\ pc[u] = "fretain" /\ FilesUnder(u) = T
      BY <2>1 DEF FilesUnder
    <3>3. rc[T] + store[cwp[u].w].nt = Cardinality(Awaited(T)) - 1
      BY <2>0, <3>2 DEF CountsAgree
    <3> QED
      BY <2>2, <2>4, <3>1, <3>3 DEF Awaited
  <2> QED
    BY <2>3, <2>4
<1>2. Inv => RetainCountsCheckins
  BY <1>1 DEF RetainCountsCheckins
<1> QED
  BY <1>2, AlwaysInv, PTL

\* ListIsAwaited: what waits on a list waits for a thread that is yet to check
\* in for its timestamp or is about to empty the list.
THEOREM ListsAreAwaited == Spec => []ListIsAwaited
<1>1. Inv => ListIsAwaited
  BY DEF Inv, Safe, ListsAgree, Awaited, Empties, Registered, ListIsAwaited
<1> QED
  BY <1>1, AlwaysInv, PTL

\* SnipIsWholeList: nothing is appended between the reading and the clearing
\* of a list.
THEOREM SnipsAreWholeLists == Spec => []SnipIsWholeList
<1>1. Inv => SnipIsWholeList
  BY DEF Inv, Safe, ListsAgree, SnipIsWholeList
<1> QED
  BY <1>1, AlwaysInv, PTL

\* WipeLosesNothing: the storages that the last thread frees are as they were
\* in the beginning.
THEOREM WipesLoseNothing == Spec => []WipeLosesNothing
<1>1. ASSUME Inv, NEW t \in Threads, pc[t] = "wipe", NEW T \in Timestamps
      PROVE  list[T] = {} /\ rc[T] = -1
  <2>0. IInv /\ Safe
    BY <1>1 DEF Inv
  <2>1. \A u \in Threads : tss[u] = 0
    BY <1>1, <2>0 DEF Safe, LastIsAlone
  <2>2. Awaited(T) = {}
    BY <2>1 DEF Awaited, Registered
  <2>3. \A u \in Threads : ~ Raiser(u, T) /\ ~ (Empties(u) /\ cur[u] - 1 = T)
    BY <2>0, <2>1 DEF Raiser, Empties, IInv, CallsAreConsistent, CallIsConsistent, FreePcs, CheckinPcs, LoopPcs
  <2> QED
    BY <2>0, <2>2, <2>3, NothingLeft
<1>2. Inv => WipeLosesNothing
  BY <1>1 DEF WipeLosesNothing
<1> QED
  BY <1>2, AlwaysInv, PTL

\* TimestampAdvances: a step raises the timestamp by one, leaves it, or sets
\* it back to 0 when no thread is registered any more.
THEOREM TimestampsAdvance == Spec => TimestampAdvances
<1>1. Inv /\ Inv' /\ [Next]_vars =>
         [ \/ store'[wp'.w].ts \in {store[wp.w].ts, store[wp.w].ts + 1}
           \/ store'[wp'.w].ts = 0 /\ {t \in Threads : tss'[t] # 0} = {} ]_vars
  <2> SUFFICES ASSUME Inv, Inv', Next
               PROVE  Now' \in {Now, Now + 1} \/ (Now' = 0 /\ Registered' = {})
    BY DEF Now, Registered
  <2>1. ASSUME NEW t \in Threads, Step(t) PROVE Now' \in {Now, Now + 1} \/ (Now' = 0 /\ Registered' = {})
    BY <2>1, TimeStep DEF Inv
  <2>2. CASE Reset
    <3>1. store'[wp'.w] = Blank
      BY <2>2, CurrentWorld DEF Reset, Ptr, Inv, IInv, TypeOK, Safe, RefsAgree
    <3>2. Registered' = {}
      BY <2>2 DEF Reset, locals, Registered
    <3> QED
      BY <3>1, <3>2 DEF Now, Blank
  <2> QED
    BY <2>1, <2>2 DEF Next, Step
<1> QED
  BY <1>1, AlwaysInv, PTL DEF Spec, TimestampAdvances

-----------------------------------------------------------------------------
(* Pointers of the program.                                                *)

\* PointerWaitsOnce: a pointer that was freed waits in one place until it is
\* released, and is nowhere in the library before and after.
THEOREM PointersWaitOnce == Spec => []PointerWaitsOnce
<1>1. ASSUME Inv, NEW p \in Pointers
      PROVE  Cardinality(Waiting(p)) = IF pstate[p] = "retired" THEN 1 ELSE 0
  <2>0. PICK k, h : OwnedBy(k, h)
    BY <1>1 DEF Inv, Owned
  <2>00. p \in Items
    BY DEF Items
  <2>1. {<<"list", T>> : T \in {U \in Timestamps : p \in list[U]}} = IF k[p] = "list" THEN {<<"list", h[p]>>} ELSE {}
    <3>1. \A U \in Timestamps : p \in list[U] <=> k[p] = "list" /\ h[p] = U
      BY <2>0, <2>00 DEF OwnedBy, ListsOwn
    <3>2. k[p] = "list" => h[p] \in Timestamps
      BY <2>0, <2>00 DEF OwnedBy, OwnersExist
    <3> QED
      BY <3>1, <3>2
  <2>2. {<<"arg", t>> : t \in {u \in Threads : arg[u] = p}} = IF k[p] = "arg" THEN {<<"arg", h[p]>>} ELSE {}
    <3>1. \A u \in Threads : arg[u] = p <=> k[p] = "arg" /\ h[p] = u
      BY <2>0, <2>00 DEF OwnedBy, ArgsOwn
    <3>2. k[p] = "arg" => h[p] \in Threads
      BY <2>0, <2>00 DEF OwnedBy, OwnersExist
    <3> QED
      BY <3>1, <3>2
  <2>3. k[p] \in {"none", "list", "arg"} /\ (k[p] = "none" <=> pstate[p] # "retired")
    BY <2>0 DEF OwnedBy, PointersOwned
  <2>4. IF pstate[p] = "retired" THEN \E o : Waiting(p) = {o} ELSE Waiting(p) = {}
    BY <2>1, <2>2, <2>3 DEF Waiting
  <2> QED
    BY <2>4, FS_Singleton, FS_EmptySet
<1>2. Inv => PointerWaitsOnce
  BY <1>1 DEF PointerWaitsOnce
<1> QED
  BY <1>2, AlwaysInv, PTL

\* NoEarlyRelease: when the free callback of a pointer has run, no thread that
\* could have read the pointer before it was freed is still using it.
THEOREM NothingIsReleasedEarly == Spec => []NoEarlyRelease
<1>1. Inv => NoEarlyRelease
  BY DEF Inv, Safe, HoldersAgree, NoEarlyRelease
<1> QED
  BY <1>1, AlwaysInv, PTL

-----------------------------------------------------------------------------
(* Aba implements GracePeriod.                                             *)

\* The threads that run code of the program.
Active == {t \in Threads : InUserCode(t)}

gvars == <<Active, pstate, holders>>

\* Only the thread that takes a step enters or leaves the code of the program.
LEMMA ActiveStep ==
  ASSUME IInv, NEW t \in Threads, Step(t)
  PROVE  Active' = IF InUserCode(t)' THEN Active \cup {t} ELSE Active \ {t}
<1>1. \A u \in Threads : u # t => InUserCode(u)' = InUserCode(u)
  BY OtherThreads DEF IInv, InUserCode
<1> QED
  BY <1>1 DEF Active

\* A free callback runs for pointers that nobody uses.
LEMMA ReleasesUnused ==
  ASSUME Inv, NEW S, NEW t \in Threads,
         (pc[t] = "fnow" /\ S = {arg[t]} \cup fw[t]) \/ (pc[t] = "clear" /\ S = snip[t])
  PROVE  \A p \in S \cap Pointers : pstate[p] = "retired" /\ holders[p] = {}
<1> USE DEF Inv, IInv
<1>0. PICK k, h : OwnedBy(k, h)
  BY DEF Owned
<1> TAKE p \in S \cap Pointers
<1>1. CASE pc[t] = "fnow" /\ S = {arg[t]} \cup fw[t]
  <2>1. p = arg[t]
    BY <1>1, ConstantsAssumption DEF TypeOK
  <2>2. pstate[p] = "retired"
    BY <1>0, <2>1 DEF OwnedBy, PointersOwned, ArgsOwn, Items
  <2>3. holders[p] = {}
    BY <1>1, <2>1 DEF Safe, HoldersAgree
  <2> QED
    BY <2>2, <2>3
<1>2. CASE pc[t] = "clear" /\ S = snip[t]
  <2>1. PICK T \in Timestamps : T = cur[t] - 1 /\ Awaited(T) = {}
    BY <1>2, EmptiesNow DEF Empties
  <2>2. p \in list[T]
    BY <1>2, <2>1 DEF Safe, ListsAgree
  <2>3. pstate[p] = "retired"
    BY <1>0, <2>2 DEF OwnedBy, PointersOwned, ListsOwn, Items
  <2>4. \A u \in holders[p] : u \in Awaited(T)
    BY <2>2, UserCursor DEF Safe, HoldersAgree, Awaited, TypeOK
  <2> QED
    BY <2>1, <2>3, <2>4
<1> QED
  BY <1>1, <1>2

\* The steps that are none of the program's business.
LEMMA InsideStep ==
  ASSUME IInv, NEW t \in Threads, Step(t), pstate' = pstate, holders' = holders,
         InUserCode(t) => InUserCode(t)'
  PROVE  Grace!Enter(t) \/ gvars' = gvars
BY ActiveStep DEF Grace!Enter, gvars, Active

\* The initial states of Aba are initial states of GracePeriod.
LEMMA GraceInit == Init => Grace!Init
BY DEF Init, Grace!Init, InUserCode

\* A step of a thread is a step of GracePeriod, or none.
LEMMA GraceStep ==
  ASSUME Inv, NEW t \in Threads, Step(t)
  PROVE  Grace!Next \/ gvars' = gvars
<1> USE DEF Inv, IInv
<1>0. CallIsConsistent(t) /\ Active \subseteq Threads
  BY DEF CallsAreConsistent, Active
<1>1. ASSUME pstate' = pstate, holders' = holders, InUserCode(t) => InUserCode(t)'
      PROVE  Grace!Next \/ gvars' = gvars
  BY <1>1, InsideStep DEF Grace!Next
<1>2. ASSUME NEW S, (pc[t] = "fnow" /\ S = {arg[t]} \cup fw[t]) \/ (pc[t] = "clear" /\ S = snip[t]),
             Release(S), holders' = holders, InUserCode(t)' <=> InUserCode(t)
      PROVE  Grace!Next
  <2>1. \A p \in S \cap Pointers : pstate[p] = "retired" /\ holders[p] = {}
    BY <1>2, ReleasesUnused
  <2>2. pstate' = [p \in Pointers |-> IF p \in S \cap Pointers THEN "released" ELSE pstate[p]]
    BY <1>2 DEF Release
  <2>3. Active' = Active
    BY <1>2, ActiveStep DEF Active
  <2>4. Grace!Release(S \cap Pointers)
    BY <1>2, <2>1, <2>2, <2>3 DEF Grace!Release, Active
  <2> QED
    BY <2>4 DEF Grace!Next
<1>3. ASSUME pc[t] = "idle", tss[t] # 0, Promise(t), pstate' = pstate
      PROVE  Grace!Next
  <2>1. t \in Active
    BY <1>0, <1>3
    DEF Active, InUserCode, CallIsConsistent, RegisterPcs, CheckinPcs, LeavePcs, LoopPcs, FreePcs, TypeOK
  <2>2. Active' \in {Active, Active \ {t}}
    BY <2>1, ActiveStep
  <2>3. Grace!LetGo(t)
    BY <1>3, <2>1, <2>2 DEF Grace!LetGo, Promise, Active
  <2> QED
    BY <2>3 DEF Grace!Next
<1>4. CASE RegisterStep(t)
  <2>1. pstate' = pstate /\ holders' = holders
    BY <1>4 DEF RegisterStep, RegisterLock, RegisterSwap, RegisterDrop, program
  <2>2. ~ InUserCode(t)
    BY <1>0, <1>4
    DEF RegisterStep, RegisterLock, RegisterSwap, RegisterDrop, InUserCode, CallIsConsistent, FreePcs
  <2> QED
    BY <1>1, <2>1, <2>2
<1>5. CASE FreeStep(t)
  <2>1. InUserCode(t)' <=> InUserCode(t)
    <3>1. pc[t] \in FreePcs /\ tss' = tss /\ (op' = op \/ op'[t] = IF ret[t] = "idle" THEN "none" ELSE op[t])
      BY <1>5
      DEF FreeStep, FreeRead, FreeReload, FreeSwap, FreeRetain, FreeAppend, FreeAppendWorld, FreeNow,
          ReturnFromFree, FreePcs, TypeOK
    <3> QED
      BY <1>0, <3>1 DEF InUserCode, CallIsConsistent
  <2>2. CASE FreeNow(t)
    BY <1>2, <2>1, <2>2 DEF FreeNow
  <2>3. CASE ~ FreeNow(t)
    <3>1. pstate' = pstate /\ holders' = holders
      BY <1>5, <2>3 DEF FreeStep, FreeRead, FreeReload, FreeSwap, FreeRetain, FreeAppend, FreeAppendWorld, program
    <3> QED
      BY <1>1, <2>1, <3>1
  <2> QED
    BY <2>2, <2>3
<1>6. CASE CheckinStep(t)
  <2>1. CASE Checkin(t)
    BY <1>3, <2>1 DEF Checkin
  <2>2. CASE CheckinRelease(t)
    <3>1. InUserCode(t)' <=> InUserCode(t)
      BY <2>2 DEF CheckinRelease, InUserCode
    <3> QED
      BY <1>2, <2>2, <3>1 DEF CheckinRelease
  <2>3. CASE ~ Checkin(t) /\ ~ CheckinRelease(t)
    <3>1. pstate' = pstate /\ holders' = holders /\ pc[t] \in CheckinPcs
      BY <1>6, <2>3
      DEF CheckinStep, CheckinBit, CheckinCopy, CheckinRange, CheckinDecrement, CheckinSnip, CheckinDone, program,
          CheckinPcs, LoopPcs
    <3>2. ~ InUserCode(t)
      BY <1>0, <3>1 DEF InUserCode, CallIsConsistent, CheckinPcs, LoopPcs, FreePcs
    <3> QED
      BY <1>1, <3>1, <3>2
  <2> QED
    BY <2>1, <2>2, <2>3
<1>7. CASE UnregisterStep(t)
  <2>1. CASE Unregister(t)
    BY <1>3, <2>1 DEF Unregister
  <2>2. CASE ~ Unregister(t)
    <3>1. pstate' = pstate /\ holders' = holders /\ pc[t] \in LeavePcs
      BY <1>7, <2>2
      DEF UnregisterStep, UnregisterBegin, UnregisterLock, UnregisterSwap, UnregisterFail, UnregisterUnlock,
          UnregisterLeak, UnregisterWipe,
          UnregisterOpen, LeavePcs, program
    <3>2. ~ InUserCode(t)
      BY <1>0, <3>1 DEF InUserCode, CallIsConsistent, LeavePcs, FreePcs
    <3> QED
      BY <1>1, <3>1, <3>2
  <2> QED
    BY <2>1, <2>2
<1>8. ASSUME NEW p \in Pointers, Free(t, p) PROVE Grace!Next
  <2>1. InUserCode(t) /\ InUserCode(t)'
    BY <1>0, <1>8 DEF Free, InUserCode, CallIsConsistent, RegisterPcs, CheckinPcs, LeavePcs, LoopPcs, FreePcs, TypeOK
  <2>2. Active' = Active /\ t \in Active
    BY <2>1, ActiveStep DEF Active
  <2>3. holders' = [holders EXCEPT ![p] = Active \ {t}]
    <3>1. {u \in Threads \ {t} : InUserCode(u)} = Active \ {t}
      BY DEF Active
    <3> QED
      BY <1>8, <3>1 DEF Free
  <2>4. Grace!Retire(t, p)
    BY <1>8, <2>2, <2>3 DEF Grace!Retire, Free, Active
  <2> QED
    BY <2>4 DEF Grace!Next
<1>9. ASSUME NEW p \in Pointers, Publish(t, p) PROVE Grace!Next
  <2>1. Active' = Active
    BY <1>9 DEF Publish, locals, Active, InUserCode
  <2>2. Grace!Publish(p)
    BY <1>9, <2>1 DEF Grace!Publish, Publish, Active
  <2> QED
    BY <2>2 DEF Grace!Next
<1> QED
  BY <1>4, <1>5, <1>6, <1>7, <1>8, <1>9 DEF Step, ProgramStep

\* ImplementsGracePeriod: behind the world pointer, the timestamps and the
\* retain counts the library does nothing but what GracePeriod allows: it
\* delays free callbacks until every thread that was running has checked in
\* or unregistered.
THEOREM GracePeriodIsKept == Spec => ImplementsGracePeriod
<1>1. Inv /\ [Next]_vars => [Grace!Next]_gvars
  <2>1. ASSUME Inv, NEW t \in Threads, Step(t) PROVE [Grace!Next]_gvars
    BY <2>1, GraceStep
  <2>2. ASSUME Reset PROVE gvars' = gvars
    BY <2>2 DEF Reset, gvars, Active, InUserCode, program, locals
  <2>3. ASSUME UNCHANGED vars PROVE gvars' = gvars
    BY <2>3 DEF vars, gvars, Active, InUserCode, program, locals
  <2> QED
    BY <2>1, <2>2, <2>3 DEF Next, Step
<1>2. [Grace!Next]_gvars => [Grace!Next]_(Grace!gvars)
  BY DEF gvars, Active, Grace!gvars
<1> QED
  BY <1>1, <1>2, GraceInit, AlwaysInv, PTL DEF Spec, ImplementsGracePeriod, Grace!Spec

-----------------------------------------------------------------------------
(* The states of the world pointer.                                        *)

\* A free that is about to raise the timestamp has seen another thread and
\* the bit.
LEMMA RaisersSee ==
  ASSUME Inv, Inv', StatesAgree, NEW t \in Threads, Step(t), NEW u \in Threads, pc'[u] = "fcas"
  PROVE  cwp'[u].bit = 1 /\ store'[cwp'[u].w].nt > 1
<1> USE DEF Inv, IInv
<1>0. cwp'[u].w \in Worlds
  BY DEF CallsAreConsistent, CallIsConsistent, FreePcs, WorldPointers
<1>1. CASE pc[u] = "fcas" /\ cwp'[u] = cwp[u]
  <2>1. store'[cwp'[u].w] = store[cwp[u].w]
    BY <1>0, <1>1, RefsKept
  <2> QED
    BY <1>1, <2>1 DEF StatesAgree
<1>2. CASE u = t /\ wp' = wp /\ store' = store /\ cwp'[t] = wp /\ wp.bit # 0 /\ ~ SingleThreaded(store[wp.w])
  <2>1. store[wp.w].nt \in Int /\ wp.bit \in 0 .. 1
    BY CurrentWorld
  <2> QED
    BY <1>2, <2>1 DEF SingleThreaded
<1>3. CASE u = t
  <2> USE DEF Goto, TypeOK
  <2>1. CASE RegisterStep(t)
    BY <1>3, <2>1 DEF RegisterStep, RegisterLock, RegisterSwap, RegisterDrop, CallFree
  <2>2. CASE FreeStep(t)
    <3>1. CASE FreeRead(t) \/ FreeReload(t)
      BY <1>2, <1>3, <3>1 DEF FreeRead, FreeReload, library
    <3>2. CASE FreeSwap(t)
      BY <1>2, <1>3, <3>2 DEF FreeSwap
    <3>3. CASE FreeRetain(t) \/ FreeAppend(t) \/ FreeAppendWorld(t) \/ FreeNow(t)
      BY SMTT(30), <1>3, <3>3 DEF FreeRetain, FreeAppend, FreeAppendWorld, FreeNow, ReturnFromFree
    <3> QED
      BY <2>2, <3>1, <3>2, <3>3 DEF FreeStep
  <2>3. CASE CheckinStep(t)
    BY <1>3, <2>3
    DEF CheckinStep, Checkin, BeginCheckin, BitStep, CheckinBit, CheckinCopy, CheckinRange, CheckinDecrement,
        CheckinSnip, CheckinRelease,
        CheckinDone, CallFree
  <2>4. CASE UnregisterStep(t)
    BY <1>3, <2>4
    DEF UnregisterStep, Unregister, UnregisterBegin, BeginCheckin, BitStep, UnregisterLock, UnregisterSwap,
        UnregisterFail, UnregisterUnlock,
        UnregisterLeak, UnregisterWipe, UnregisterOpen, Unregistered, Restart, CallFree
  <2>5. CASE ProgramStep(t)
    <3>1. ASSUME NEW p \in Pointers, Free(t, p) PROVE pc'[t] = "fread"
      BY <3>1 DEF Free, CallFree
    <3>2. ASSUME NEW p \in Pointers, Publish(t, p) PROVE pc'[t] = "idle"
      BY <3>2 DEF Publish, locals
    <3> QED
      BY <1>3, <2>5, <3>1, <3>2 DEF ProgramStep
  <2> QED
    BY <2>1, <2>2, <2>3, <2>4, <2>5 DEF Step
<1> QED
  BY <1>1, <1>3, OtherThreads

\* Which steps replace the world, and what they have found.
LEMMA SwapConditions ==
  ASSUME IInv, NEW t \in Threads, Step(t)
  PROVE  /\ pc[t] = "fcas" => FreeSwap(t)
         /\ pc[t] = "leave" => UnregisterSwap(t) \/ UnregisterFail(t)
         /\ wp.bit = 0 /\ wp'.bit = 1 => tss[t] # 0 \/ tss'[t] # 0
<1> USE DEF IInv, TypeOK, WorldPointers, Locked, Unlocked, library
<1>0. CallIsConsistent(t)
  BY DEF CallsAreConsistent
<1>1. CASE RegisterStep(t)
  <2>1. CASE RegisterSwap(t)
    <3>1. wp = owp[t] => tss'[t] # 0
      BY <2>1, CurrentWorld, ConstantsAssumption DEF RegisterSwap, FirstTimestamp
    <3> QED
      BY <2>1, <3>1 DEF RegisterSwap
  <2>2. CASE RegisterLock(t) \/ RegisterDrop(t)
    BY <2>2 DEF RegisterLock, RegisterDrop
  <2> QED
    BY <1>1, <2>1, <2>2 DEF RegisterStep
<1>2. CASE FreeStep(t)
  <2>1. pc[t] \in FreePcs
    BY <1>2 DEF FreeStep, FreeRead, FreeReload, FreeSwap, FreeRetain, FreeAppend, FreeAppendWorld, FreeNow, FreePcs
  <2>2. pc[t] = "fcas" => FreeSwap(t)
    BY <1>2 DEF FreeStep, FreeRead, FreeReload, FreeRetain, FreeAppend, FreeAppendWorld, FreeNow
  <2> QED
    BY <1>0, <2>1, <2>2 DEF CallIsConsistent, FreePcs
<1>3. CASE CheckinStep(t)
  <2>1. pc[t] = "idle" \/ pc[t] \in CheckinPcs
    BY <1>3
    DEF CheckinStep, Checkin, CheckinBit, CheckinCopy, CheckinRange, CheckinDecrement, CheckinSnip, CheckinRelease,
        CheckinDone, CheckinPcs,
        LoopPcs
  <2>2. pc[t] = "idle" => wp' = wp
    BY <1>3
    DEF CheckinStep, Checkin, CheckinBit, CheckinCopy, CheckinRange, CheckinDecrement, CheckinSnip, CheckinRelease,
        CheckinDone
  <2> QED
    BY <1>0, <2>1, <2>2 DEF CallIsConsistent, CheckinPcs, LoopPcs
<1>4. CASE UnregisterStep(t)
  <2>1. CASE UnregisterSwap(t)
    BY <1>0, <2>1 DEF UnregisterSwap, CallIsConsistent
  <2>2. CASE UnregisterFail(t)
    BY <2>2 DEF UnregisterFail
  <2>3. CASE UnregisterLock(t) \/ UnregisterUnlock(t) \/ UnregisterOpen(t)
    BY <2>3 DEF UnregisterLock, UnregisterUnlock, UnregisterOpen
  <2> QED
    BY <1>4, <2>1, <2>2, <2>3 DEF UnregisterStep, Unregister, UnregisterBegin, UnregisterLeak, UnregisterWipe
<1>5. CASE ProgramStep(t)
  BY <1>5 DEF ProgramStep, Free, Publish
<1> QED
  BY <1>1, <1>2, <1>3, <1>4, <1>5 DEF Step

\* The number of registered threads and the state of the world pointer.
LEMMA StatesKnown ==
  ASSUME Inv, StatesAgree
  PROVE  /\ Now \in Nat /\ Counted \in Nat /\ wp.bit \in 0 .. 1 /\ wp.lock \in 0 .. 1
         /\ wp.bit = 1 \/ Now # 0 => Counted >= 1
         /\ wp.bit = 0 /\ Now # 0 => Counted > 1
         /\ wp.bit = 0 /\ Now = 0 => Counted = 0
         /\ \A t \in Threads : tss[t] # 0 => Counted >= 1
<1>1. Now \in Nat /\ wp.bit \in 0 .. 1 /\ wp.lock \in 0 .. 1
  BY CurrentWorld, ConstantsAssumption DEF Inv, IInv, Now
<1>2. Counted \in Nat /\ (Counted = 0 <=> Registered = {})
  BY Finite, FS_EmptySet DEF Inv, Safe, CountsAgree, Counted
<1>3. wp.bit = 0 /\ Now = 0 => Registered = {}
  <2> SUFFICES ASSUME wp.bit = 0, Now = 0, NEW t \in Registered PROVE FALSE
    OBVIOUS
  <2>1. Cursor(t) <= 0 /\ CallIsConsistent(t) /\ t \in Threads /\ tss[t] # 0 /\ tss[t] \in Nat /\ cur[t] \in Nat
    BY ConstantsAssumption DEF Inv, IInv, Safe, CursorsAgree, Reach, Registered, CallsAreConsistent, TypeOK
  <2>2. cur[t] # 0 \/ pc[t] \notin LoopPcs
    BY <2>1, ConstantsAssumption DEF CallIsConsistent, LoopPcs, Inv, IInv, TypeOK
  <2> QED
    BY <2>1, <2>2 DEF Cursor
<1>4. \A t \in Threads : tss[t] # 0 => Registered # {}
  BY DEF Registered
<1> QED
  BY <1>1, <1>2, <1>3, <1>4 DEF StatesAgree, Counted

\* A set bit and a timestamp tell of a registered thread, after every step.
LEMMA StatesStep ==
  ASSUME Inv, Inv', StatesAgree, NEW t \in Threads, Step(t)
  PROVE  StatesAgree'
<1> USE DEF Inv, IInv
<1>0. /\ Now \in Nat /\ Now' \in Nat /\ Counted \in Nat
      /\ wp.bit \in 0 .. 1 /\ wp'.bit \in 0 .. 1
      /\ wp.bit = 1 \/ Now # 0 => Counted >= 1
      /\ wp.bit = 0 /\ Now # 0 => Counted > 1
      /\ tss[t] # 0 => Counted >= 1
  BY StatesKnown, ConstantsAssumption DEF TypeOK, WorldPointers, Contents, Now
<1>1. Counted' \in Nat /\ (Counted' = 0 <=> Registered' = {})
  <2>1. IsFiniteSet(Registered')
    BY ConstantsAssumption, FS_Subset DEF Registered
  <2> QED
    BY <2>1, CountedStep, FS_EmptySet, FS_CardinalityType
<1>2. pc[t] = "fcas" /\ pc'[t] = "fretain" => Counted > 1
  <2> SUFFICES ASSUME pc[t] = "fcas", pc'[t] = "fretain" PROVE Counted > 1
    OBVIOUS
  <2>1. wp = cwp[t]
    BY SwapConditions DEF FreeSwap, Goto, TypeOK
  <2> QED
    BY <2>1 DEF StatesAgree, Counted
<1>3. pc[t] = "leave" /\ pc'[t] = "leak" => Counted # 1
  BY SMTT(30), SwapConditions DEF UnregisterSwap, UnregisterFail, LastThread, Counted, Goto, TypeOK
<1>4. pc[t] = "leave" /\ pc'[t] = "wipe" => wp'.bit = 0
  <2> SUFFICES ASSUME pc[t] = "leave", pc'[t] = "wipe" PROVE wp'.bit = 0
    OBVIOUS
  <2>1. ~ UnregisterFail(t)
    BY DEF UnregisterFail, Goto, TypeOK
  <2>2. UnregisterSwap(t)
    BY <2>1, SwapConditions
  <2>3. PICK w \in free : IF LastThread(store[wp.w]) THEN wp' = Locked(Ptr(w, 0)) ELSE Goto(t, "leak")
    BY <2>2 DEF UnregisterSwap
  <2>4. LastThread(store[wp.w])
    BY <2>3 DEF Goto, TypeOK
  <2> QED
    BY <2>3, <2>4 DEF Locked, Ptr
<1>5. (wp'.bit = 1 \/ Now' # 0 => Counted' >= 1) /\ (wp'.bit = 0 /\ Now' # 0 => Counted' > 1)
  <2>1. wp.bit = 0 /\ wp'.bit = 1 => tss[t] # 0 \/ tss'[t] # 0
    BY SwapConditions
  <2>2. CASE Now' = Now /\ Counted' = Counted /\ (wp.bit = 1 => wp'.bit = 1) /\ (tss'[t] = 0 <=> tss[t] = 0)
    BY <1>0, <2>1, <2>2
  <2>3. CASE Counted' = Counted /\ pc[t] = "fcas" /\ pc'[t] = "fretain"
    BY <1>0, <1>2, <2>3
  <2>4. CASE Counted' = Counted + 1 /\ wp'.bit = 1
    BY <1>0, <2>4
  <2>5. CASE Counted' = Counted - 1 /\ wp'.bit = 1 /\ pc[t] = "leave" /\ pc'[t] = "leak" /\ tss[t] = Now + 1
    BY <1>0, <1>3, <2>5
  <2>6. CASE Now' = 0 /\ pc[t] = "leave" /\ pc'[t] = "wipe"
    BY <1>4, <2>6
  <2> QED
    BY <2>2, <2>3, <2>4, <2>5, <2>6, TimeStep
<1> QED
  BY <1>1, <1>5, RaisersSee DEF StatesAgree, Counted

\* The states of the world pointer, on every step.
LEMMA AlwaysStates == Spec => [](Inv /\ StatesAgree)
<1>1. Init => StatesAgree
  <2> SUFFICES ASSUME Init PROVE StatesAgree
    OBVIOUS
  <2>1. PICK w \in Worlds : wp = Ptr(w, 0)
    BY DEF Init
  <2> QED
    BY <2>1 DEF Init, StatesAgree, Ptr, Blank, Now
<1>2. ASSUME Inv, Inv', StatesAgree, [Next]_vars PROVE StatesAgree'
  <2>1. CASE Reset
    <3>1. \A t \in Threads : pc'[t] = "idle"
      BY <2>1 DEF Reset, locals
    <3>2. PICK w \in free \cup leaks \cup {wp.w} : wp' = Ptr(w, 0)
      BY <2>1 DEF Reset
    <3>3. w \in Worlds /\ store'[w] = Blank
      BY <1>2, <2>1, CurrentWorld DEF Inv, IInv, TypeOK, Safe, RefsAgree, Reset
    <3> QED
      BY <3>1, <3>2, <3>3 DEF StatesAgree, Ptr, Blank, Now
  <2>2. CASE UNCHANGED vars
    BY <1>2, <2>2 DEF StatesAgree, Registered, Now, vars, library, locals
  <2> QED
    BY <1>2, <2>1, <2>2, StatesStep DEF Next, Step
<1> QED
  BY <1>1, <1>2, AlwaysInv, PTL DEF Spec

\* What a step does to the world pointer, if it replaces it.
LEMMA SwapEffects ==
  ASSUME Inv, Inv', StatesAgree, NEW t \in Threads, Step(t), wp' # wp
  PROVE  \/ /\ Intent(t) = "lock" /\ wp.lock = 0 /\ wp'.lock = 1
            /\ wp'.bit = wp.bit /\ Now' = Now /\ Counted' = Counted
         \/ /\ Intent(t) = "unlock" /\ wp.lock = 1 /\ wp'.lock = 0
            /\ wp'.bit = wp.bit /\ Now' = Now /\ Counted' = Counted
         \/ /\ Intent(t) = "register" /\ wp.lock = 1 /\ wp'.lock = 0
            /\ wp'.bit = 1 /\ Now' = Now /\ Counted' = Counted + 1
         \/ /\ Intent(t) = "free" /\ wp.bit = 1 /\ Counted > 1 /\ wp'.lock = 0
            /\ wp'.bit = 0 /\ Now' = Now + 1 /\ Counted' = Counted
         \/ /\ Intent(t) = "checkin" /\ Now # 0 /\ wp'.lock = 0
            /\ wp'.bit = 1 /\ Now' = Now /\ Counted' = Counted
         \/ /\ Intent(t) = "unregister" /\ wp.lock = 1 /\ Counted = 1 /\ wp'.lock = 1
            /\ wp'.bit = 0 /\ Now' = 0 /\ Counted' = 0
         \/ /\ Intent(t) = "unregister" /\ wp.lock = 1 /\ Counted > 1 /\ wp'.lock = 0
            /\ wp'.bit = 1 /\ Now' = Now /\ Counted' = Counted - 1
<1> USE DEF Inv, IInv, Intent
<1>0. /\ wp \in WorldPointers /\ wp.w \in Worlds
      /\ store[wp.w] \in Contents /\ LocalsAgree(t) /\ CallIsConsistent(t)
  BY CurrentWorld DEF TypeOK, Safe, LocalsAllAgree, CallsAreConsistent
<1>1. CASE RegisterLock(t)
  BY <1>0, <1>1 DEF RegisterLock, Locked, WorldPointers, Now, Counted
<1>2. CASE RegisterSwap(t)
  <2>1. PICK w \in free : Allocate(w, AddThread(store[wp.w])) /\ wp' = Ptr(w, 1)
    BY <1>2 DEF RegisterSwap
  <2>2. store'[wp'.w] = AddThread(store[wp.w])
    BY <2>1, SwappedIn DEF Ptr
  <2>3. pc[t] = "join" /\ wp = owp[t]
    BY <1>2 DEF RegisterSwap
  <2>4. wp.lock = 1
    BY <1>0, <2>3 DEF LocalsAgree, HoldsLock
  <2> QED
    BY <1>0, <2>1, <2>2, <2>3, <2>4 DEF Ptr, AddThread, Contents, Now, Counted
<1>3. CASE FreeSwap(t)
  <2>1. PICK w \in free : Allocate(w, [store[wp.w] EXCEPT !.ts = @ + 1]) /\ wp' = Raised(w)
    BY <1>3 DEF FreeSwap
  <2>2. store'[wp'.w] = [store[wp.w] EXCEPT !.ts = @ + 1]
    BY <2>1, SwappedIn DEF Raised, Ptr
  <2>3. pc[t] = "fcas" /\ wp = cwp[t]
    BY <1>3 DEF FreeSwap
  <2>4. wp.bit = 1 /\ store[wp.w].nt > 1
    BY <2>3 DEF StatesAgree
  <2> QED
    BY <1>0, <2>1, <2>2, <2>3, <2>4 DEF Raised, Ptr, Contents, Now, Counted
<1>4. CASE CheckinBit(t) \/ CheckinCopy(t)
  <2>1. pc[t] \in {"bit", "copy"} /\ wp = cwp[t] /\ Intent(t) = "checkin"
    BY <1>4 DEF CheckinBit, CheckinCopy
  <2>2. Now # 0
    <3>1. t \in Registered /\ tss[t] \in Nat /\ tss[t] # 0 /\ tss[t] <= new[t] /\ new[t] \in Nat
      BY <1>0, <2>1, ConstantsAssumption
      DEF LocalsAgree, InCheckin, CheckinPcs, LoopPcs, CallIsConsistent, Registered, TypeOK
    <3>2. new[t] <= Now /\ Now \in Nat
      BY <3>1, <1>0, ConstantsAssumption DEF Safe, CursorsAgree, Now, Contents
    <3> QED
      BY <3>1, <3>2
  <2>3. CASE CheckinBit(t)
    <3>1. wp.lock = 0 /\ wp' = [wp EXCEPT !.bit = 1] /\ store' = store
      BY <1>0, <2>1, <2>3 DEF CheckinBit, LocalsAgree
    <3> QED
      BY <1>0, <2>1, <2>2, <3>1 DEF WorldPointers, Now, Counted
  <2>4. CASE CheckinCopy(t)
    <3>1. PICK w \in free : Allocate(w, store[wp.w]) /\ wp' = Ptr(w, 1)
      BY <2>1, <2>4 DEF CheckinCopy
    <3>2. store'[wp'.w] = store[wp.w]
      BY <3>1, SwappedIn DEF Ptr
    <3> QED
      BY <2>1, <2>2, <3>1, <3>2 DEF Ptr, Now, Counted
  <2> QED
    BY <1>4, <2>3, <2>4
<1>5. CASE UnregisterLock(t)
  BY <1>0, <1>5 DEF UnregisterLock, Locked, WorldPointers, Now, Counted
<1>6. CASE UnregisterUnlock(t) \/ UnregisterOpen(t)
  <2>1. pc[t] \in {"unlock", "open"} /\ wp.lock = 1 /\ wp' = Unlocked(wp) /\ store' = store
    BY <1>6 DEF UnregisterUnlock, UnregisterOpen
  <2> QED
    BY <1>0, <2>1 DEF Unlocked, WorldPointers, Now, Counted
<1>7. CASE UnregisterSwap(t)
  <2>1. pc[t] = "leave" /\ wp = cwp[t] /\ wp.lock = 1 /\ Intent(t) = "unregister"
    BY <1>7 DEF UnregisterSwap, MayLeave
  <2>2. PICK w \in free :
          IF LastThread(store[wp.w])
          THEN Allocate(w, Blank) /\ wp' = Locked(Ptr(w, 0))
          ELSE Allocate(w, RemoveThread(store[wp.w])) /\ wp' = Ptr(w, 1)
    BY <1>7 DEF UnregisterSwap
  <2>3. CASE LastThread(store[wp.w])
    <3>1. wp' = Locked(Ptr(w, 0)) /\ wp'.w = w
      BY <2>2, <2>3 DEF Locked, Ptr
    <3>2. store'[wp'.w] = Blank
      BY <2>2, <2>3, <3>1, SwappedIn
    <3> QED
      BY <2>1, <2>3, <3>1, <3>2 DEF Locked, Ptr, Blank, LastThread, Now, Counted
  <2>4. CASE ~ LastThread(store[wp.w])
    <3>1. store'[wp'.w] = RemoveThread(store[wp.w]) /\ wp' = Ptr(w, 1)
      BY <2>2, <2>4, SwappedIn DEF Ptr
    <3>2. tss[t] # 0
      BY <1>0, <2>1 DEF CallIsConsistent
    <3>3. Counted > 1
      BY <2>4, <3>2, StatesKnown DEF LastThread, Counted
    <3> QED
      BY <1>0, <2>1, <3>1, <3>3 DEF Ptr, RemoveThread, Contents, Now, Counted
  <2> QED
    BY <2>3, <2>4
<1>8. CASE RegisterDrop(t) \/ ProgramStep(t)
  BY <1>8 DEF RegisterDrop, ProgramStep, Free, Publish, library
<1>9. CASE FreeRead(t) \/ FreeReload(t) \/ FreeRetain(t) \/ FreeAppend(t) \/ FreeAppendWorld(t) \/ FreeNow(t)
  BY <1>9 DEF FreeRead, FreeReload, FreeRetain, FreeAppend, FreeAppendWorld, FreeNow, library
<1>10. CASE Checkin(t) \/ CheckinRange(t) \/ CheckinDecrement(t) \/ CheckinSnip(t) \/ CheckinRelease(t) \/ CheckinDone(t)
  BY <1>10 DEF Checkin, CheckinRange, CheckinDecrement, CheckinSnip, CheckinRelease, CheckinDone, library
<1>11. CASE Unregister(t) \/ UnregisterBegin(t) \/ UnregisterFail(t) \/ UnregisterLeak(t) \/ UnregisterWipe(t)
  BY <1>11 DEF Unregister, UnregisterBegin, UnregisterFail, UnregisterLeak, UnregisterWipe, library
<1> QED
  BY <1>1, <1>2, <1>3, <1>4, <1>5, <1>6, <1>7, <1>8, <1>9, <1>10, <1>11
  DEF Step, RegisterStep, FreeStep, CheckinStep, UnregisterStep

\* SwapsAreValid: every compare-and-swap that succeeds takes the world pointer
\* along an edge of the authors' state graph (assert_valid_transition).
THEOREM SwapsFollowTheGraph == Spec => SwapsAreValid
<1>1. ASSUME Inv, Inv', StatesAgree, NEW t \in Threads, Step(t), wp' # wp
      PROVE  <<WorldPointerState(wp, store), WorldPointerState(wp', store'), Intent(t)>> \in ValidTransitions
  <2>0. PICK b, l, n, c, bb, ll, nn, cc :
          /\ b = wp.bit /\ l = wp.lock /\ n = Now /\ c = Counted
          /\ bb = wp'.bit /\ ll = wp'.lock /\ nn = Now' /\ cc = Counted'
    OBVIOUS
  <2>1. /\ b \in 0 .. 1 /\ l \in 0 .. 1 /\ n \in Nat /\ c \in Nat
        /\ b = 1 \/ n # 0 => c >= 1
        /\ b = 0 /\ n # 0 => c > 1
        /\ b = 0 /\ n = 0 => c = 0
    BY <1>1, <2>0, StatesKnown
  <2>2. PICK s, r :
          /\ s = WorldPointerState(wp, store) /\ r = WorldPointerState(wp', store')
          /\ s = b + 2 * l + (IF n # 0 THEN 4 ELSE 0) + (IF c > 1 THEN 8 ELSE 0)
          /\ r = bb + 2 * ll + (IF nn # 0 THEN 4 ELSE 0) + (IF cc > 1 THEN 8 ELSE 0)
    BY <2>0 DEF WorldPointerState, Now, Counted
  <2>3. l = 0 => s \in {0, 1, 5, 9, 12, 13}
    BY <2>1, <2>2
  <2>4. l = 1 => s \in {2, 3, 7, 11, 14, 15}
    BY <2>1, <2>2
  <2>5. ASSUME Intent(t) = "lock", l = 0, ll = 1, bb = b, nn = n, cc = c
       PROVE  <<s, r, Intent(t)>> \in ValidTransitions
    <3>1. r = s + 2
      BY <2>1, <2>2, <2>5
    <3> QED
      BY <2>3, <2>5, <3>1 DEF ValidTransitions
  <2>6. ASSUME Intent(t) = "unlock", l = 1, ll = 0, bb = b, nn = n, cc = c
       PROVE  <<s, r, Intent(t)>> \in ValidTransitions
    <3>1. r = s - 2
      BY <2>1, <2>2, <2>6
    <3> QED
      BY <2>4, <2>6, <3>1 DEF ValidTransitions
  <2>7. ASSUME Intent(t) = "register", l = 1, ll = 0, bb = 1, nn = n, cc = c + 1
       PROVE  <<s, r, Intent(t)>> \in ValidTransitions
    <3>1. \/ s = 2 /\ r = 1
          \/ s \in {3, 11} /\ r = 9
          \/ s \in {7, 14, 15} /\ r = 13
      BY <2>1, <2>2, <2>7
    <3> QED
      BY <2>7, <3>1 DEF ValidTransitions
  <2>8. ASSUME Intent(t) = "free", b = 1, c > 1, ll = 0, bb = 0, nn = n + 1, cc = c
       PROVE  <<s, r, Intent(t)>> \in ValidTransitions
    <3>1. s \in {9, 11, 13, 15} /\ r = 12
      BY <2>1, <2>2, <2>8
    <3> QED
      BY <2>8, <3>1 DEF ValidTransitions
  <2>9. ASSUME Intent(t) = "checkin", n # 0, ll = 0, bb = 1, nn = n, cc = c
       PROVE  <<s, r, Intent(t)>> \in ValidTransitions
    <3>1. \/ s \in {5, 7} /\ r = 5
          \/ s \in {12, 13, 14, 15} /\ r = 13
      BY <2>1, <2>2, <2>9
    <3> QED
      BY <2>9, <3>1 DEF ValidTransitions
  <2>10. ASSUME Intent(t) = "unregister", l = 1, c = 1, ll = 1, bb = 0, nn = 0, cc = 0
       PROVE  <<s, r, Intent(t)>> \in ValidTransitions
    <3>1. s \in {3, 7} /\ r = 2
      BY <2>1, <2>2, <2>10
    <3> QED
      BY <2>10, <3>1 DEF ValidTransitions
  <2>11. ASSUME Intent(t) = "unregister", l = 1, c > 1, ll = 0, bb = 1, nn = n, cc = c - 1
       PROVE  <<s, r, Intent(t)>> \in ValidTransitions
    <3>1. \/ s = 11 /\ r \in {1, 9}
          \/ s \in {14, 15} /\ r \in {5, 13}
      BY <2>1, <2>2, <2>11
    <3> QED
      BY <2>11, <3>1 DEF ValidTransitions
  <2> QED
    BY <1>1, <2>0, <2>2, <2>5, <2>6, <2>7, <2>8, <2>9, <2>10, <2>11, SwapEffects
<1>2. ASSUME Inv, Inv', StatesAgree, [Next]_vars, NEW u \in Threads, wp' # wp, pc'[u] # pc[u]
      PROVE  <<WorldPointerState(wp, store), WorldPointerState(wp', store'), Intent(u)>> \in ValidTransitions
  <2>1. ASSUME NEW t \in Threads, Step(t) PROVE u = t
    BY <1>2, <2>1, OtherThreads DEF Inv, IInv
  <2>2. ~ Reset /\ ~ UNCHANGED vars
    BY <1>2 DEF Reset, locals, vars
  <2> QED
    BY <1>1, <1>2, <2>1, <2>2 DEF Next, Step
<1>3. Inv /\ StatesAgree /\ (Inv /\ StatesAgree)' /\ [Next]_vars =>
        [\A t \in Threads :
            wp' # wp /\ pc'[t] # pc[t] =>
                <<WorldPointerState(wp, store), WorldPointerState(wp', store'), Intent(t)>>
                    \in ValidTransitions ]_vars
  BY <1>2
<1> HIDE DEF Inv, StatesAgree, Next
<1> QED
  BY <1>3, AlwaysStates, PTL DEF Spec, SwapsAreValid

=============================================================================
