----------------------------- MODULE AbaCounting -----------------------------
(***************************************************************************)
(* Proofs about module Aba, the second part: how the timestamp, the number *)
(* of threads and the retain counts go together.  The retain count of a    *)
(* timestamp is that of the threads which have not checked in for it, also *)
(* when some of them check in before the free that raised the timestamp has*)
(* added them.                                                             *)
(***************************************************************************)
EXTENDS AbaOwnership

-----------------------------------------------------------------------------
(* What a step does to the worlds.                                         *)

\* A step frees worlds or allocates one, and leaves all others as they are.
LEMMA WorldsStep ==
  ASSUME IInv, NEW t \in Threads, Step(t)
  PROVE  \/ free' = free /\ store' = store /\ wp'.w = wp.w
         \/ \E w \in free : free' = free \ {w} /\ wp'.w = w /\ \E c \in Contents : store' = [store EXCEPT ![w] = c]
         \/ wp' = wp /\ FreeNow(t) /\ FreeWorlds({arg[t]} \cup fw[t])
         \/ wp' = wp /\ CheckinRelease(t) /\ FreeWorlds(snip[t])
         \/ wp' = wp /\ UnregisterWipe(t) /\ FreeWorlds(leaks \cup {owp[t].w})
<1> USE DEF IInv, library, program, locals
<1>1. CASE RegisterStep(t)
  <2>1. AddThread(store[wp.w]) \in Contents
    BY CurrentWorld DEF AddThread, Contents
  <2> QED
    BY <1>1, <2>1
    DEF RegisterStep, RegisterLock, RegisterSwap, RegisterDrop, Locked, TypeOK, WorldPointers, Allocate, Ptr
<1>2. CASE FreeStep(t)
  <2>1. CASE FreeNow(t)
    <3>1. wp' = wp /\ FreeWorlds({arg[t]} \cup fw[t])
      BY <2>1 DEF FreeNow, Release
    <3> QED
      BY <2>1, <3>1
  <2>2. CASE FreeSwap(t)
    <3>1. store[wp.w].ts < MaxTimestamp => [store[wp.w] EXCEPT !.ts = @ + 1] \in Contents
      BY CurrentWorld, ConstantsAssumption DEF Contents
    <3> QED
      BY <2>2, <3>1 DEF FreeSwap, Allocate, Ptr, Raised
  <2> QED
    BY <1>2, <2>1, <2>2 DEF FreeStep, FreeRead, FreeReload, FreeRetain, FreeAppend, FreeAppendWorld
<1>3. CASE CheckinStep(t)
  <2>1. CASE CheckinRelease(t)
    <3>1. wp' = wp /\ FreeWorlds(snip[t])
      BY <2>1 DEF CheckinRelease, Release
    <3> QED
      BY <2>1, <3>1
  <2>2. CASE CheckinCopy(t)
    <3>1. CASE wp = cwp[t]
      <4>1. PICK w \in free : Allocate(w, store[wp.w]) /\ wp' = Ptr(w, 1)
        BY <2>2, <3>1 DEF CheckinCopy
      <4> QED
        BY <4>1, CurrentWorld DEF Allocate, Ptr
    <3>2. CASE wp # cwp[t]
      BY <2>2, <3>2 DEF CheckinCopy
    <3> QED
      BY <3>1, <3>2
  <2>3. CASE CheckinBit(t)
    BY <2>3 DEF CheckinBit, TypeOK, WorldPointers
  <2> QED
    BY <1>3, <2>1, <2>2, <2>3 DEF CheckinStep, Checkin, CheckinRange, CheckinDecrement, CheckinSnip, CheckinDone
<1>4. CASE UnregisterStep(t)
  <2>1. CASE UnregisterSwap(t)
    <3>1. RemoveThread(store[wp.w]) \in Contents /\ Blank \in Contents
      BY CurrentWorld, ConstantsAssumption DEF RemoveThread, Contents, Blank
    <3> QED
      BY <2>1, <3>1 DEF UnregisterSwap, Allocate, Ptr, Locked
  <2>2. CASE UnregisterWipe(t)
    BY <2>2 DEF UnregisterWipe
  <2>3. CASE UnregisterLock(t) \/ UnregisterUnlock(t) \/ UnregisterOpen(t)
    BY <2>3 DEF UnregisterLock, UnregisterUnlock, UnregisterOpen, Locked, Unlocked, TypeOK, WorldPointers
  <2> QED
    BY <1>4, <2>1, <2>2, <2>3 DEF UnregisterStep, Unregister, UnregisterBegin, UnregisterFail, UnregisterLeak
<1>5. CASE ProgramStep(t)
  BY <1>5 DEF ProgramStep, Free, Publish
<1> QED
  BY <1>1, <1>2, <1>3, <1>4, <1>5 DEF Step

\* A world in use is freed or keeps its contents.
LEMMA WorldsKept ==
  ASSUME IInv, NEW t \in Threads, Step(t), NEW w \in Worlds, w \notin free
  PROVE  w \in free' \/ store'[w] = store[w]
BY WorldsStep DEF IInv, TypeOK, FreeWorlds

\* Free worlds are blank.
LEMMA FreeIsBlank ==
  ASSUME IInv, Safe, NEW t \in Threads, Step(t)
  PROVE  \A w \in free' : store'[w] = Blank
<1>1. \A w \in free : store[w] = Blank
  BY DEF Safe, RefsAgree
<1> QED
  BY <1>1, WorldsStep DEF IInv, TypeOK, FreeWorlds

\* A thread that is registered gets no further than its limit, however it
\* counts.
LEMMA LimitBoundsCursor ==
  ASSUME IInv, Safe, NEW t \in Threads
  PROVE  Cursor(t) <= Limit(t)
<1>1. LocalsAgree(t) /\ tss[t] \in Int /\ cur[t] \in Int /\ new[t] \in Int
  BY ConstantsAssumption DEF IInv, TypeOK, Safe, LocalsAllAgree
<1> QED
  BY <1>1 DEF LocalsAgree, Cursor, Limit, InCheckin, LoopPcs, CheckinPcs

\* The worlds a step frees are referred to by no thread.
LEMMA FreedIsUnused ==
  ASSUME IInv, Safe, Owned, NEW t \in Threads, Step(t), NEW w \in free', w \notin free
  PROVE  \A u \in Threads : w = owp[u].w \/ w = cwp[u].w => u = t /\ UnregisterWipe(t) /\ w = owp[t].w
<1> USE DEF IInv
<1>0. PICK k, h : OwnedBy(k, h)
  BY DEF Owned
<1>1. w \in Worlds
  BY WorldsStep DEF FreeWorlds, TypeOK
<1>2. CASE FreeNow(t)
  <2>1. w = arg[t] /\ pc[t] = "fnow"
    BY <1>2, <1>1 DEF FreeNow, Release, FreeWorlds, Safe, LocalsAllAgree, LocalsAgree
  <2>2. k[w] = "arg"
    BY <1>0, <1>1, <2>1 DEF OwnedBy, ArgsOwn, Items
  <2>3. w # wp.w /\ \A u \in Threads : w \notin LockedBy[u]
    BY <1>0, <1>1, <2>2 DEF OwnedBy, WorldsOwned, ThreadsOwn
  <2>4. \A u \in Threads \ Registered : w \notin Refs(u)
    BY <2>3 DEF Safe, RefsAgree, LockedBy
  <2>5. \A u \in Registered : w \notin Refs(u)
    BY <2>1 DEF Safe, RefsAgree
  <2> QED
    BY <1>1, <2>4, <2>5, ConstantsAssumption DEF Refs
<1>3. CASE CheckinRelease(t)
  <2> DEFINE T == cur[t] - 1
  <2>1. w \in list[T] /\ T \in Timestamps /\ Awaited(T) = {}
    BY <1>3, <1>1, ConstantsAssumption
    DEF CheckinRelease, Release, FreeWorlds, Safe, ListsAgree, Empties, CallsAreConsistent, CallIsConsistent,
        Timestamps, TypeOK
  <2>2. k[w] = "list"
    BY <1>0, <1>1, <2>1 DEF OwnedBy, ListsOwn, Items
  <2>3. w # wp.w /\ \A u \in Threads : w \notin LockedBy[u]
    BY <1>0, <1>1, <2>2 DEF OwnedBy, WorldsOwned, ThreadsOwn
  <2>4. \A u \in Threads \ Registered : w \notin Refs(u)
    BY <2>3 DEF Safe, RefsAgree, LockedBy
  <2>5. \A u \in Registered : w \notin Refs(u)
    <3> SUFFICES ASSUME NEW u \in Registered, w \in Refs(u) PROVE FALSE
      OBVIOUS
    <3>1. Limit(u) <= T
      BY <2>1 DEF Safe, RefsAgree
    <3>2. u \in Threads /\ Cursor(u) <= Limit(u)
      BY LimitBoundsCursor DEF Registered
    <3>3. Cursor(u) \in Int /\ Limit(u) \in Int /\ T \in Int
      BY <2>1, <3>2, ConstantsAssumption DEF Cursor, Limit, TypeOK, Timestamps
    <3>4. Cursor(u) <= T
      BY <3>1, <3>2, <3>3
    <3> QED
      BY <2>1, <3>4 DEF Awaited
  <2> QED
    BY <1>1, <2>4, <2>5, ConstantsAssumption DEF Refs
<1>4. CASE UnregisterWipe(t)
  <2>1. pc[t] = "wipe" /\ (w \in leaks \/ w = owp[t].w)
    BY <1>4, <1>1 DEF UnregisterWipe, FreeWorlds
  <2>2. \A u \in Threads : tss[u] = 0
    BY <2>1 DEF Safe, LastIsAlone
  <2>3. w # wp.w
    BY <1>1, <2>1, CurrentInUse DEF Safe, LastIsAlone
  <2>4. \A u \in Threads : w \in Refs(u) => w \in LockedBy[u] /\ w = owp[u].w
    BY <2>2, <2>3 DEF Safe, RefsAgree, LockedBy, Registered
  <2>5. \A u \in Threads : w \in LockedBy[u] => u = t /\ w = owp[t].w
    <3>1. w \in leaks => \A u \in Threads : w \notin LockedBy[u]
      BY <1>0, <1>1 DEF OwnedBy, WorldsOwned, ThreadsOwn
    <3>2. w = owp[t].w => w \in LockedBy[t]
      BY <2>1, <2>3 DEF LockedBy, LockPcs
    <3> QED
      BY <1>0, <1>1, <2>1, <3>1, <3>2 DEF OwnedBy, ThreadsOwn
  <2> QED
    BY <1>4, <1>1, <2>4, <2>5, ConstantsAssumption DEF Refs
<1> QED
  BY <1>2, <1>3, <1>4, WorldsStep

\* What a thread refers to it has read off the world pointer.
LEMMA RefsOrigin ==
  ASSUME IInv, NEW t \in Threads, Step(t)
  PROVE  /\ owp'[t].w \in {owp[t].w, cwp[t].w, wp.w, wp'.w, Nil}
         /\ cwp'[t].w \in {owp[t].w, cwp[t].w, wp.w, wp'.w, Nil}
         /\ UnregisterWipe(t) => owp'[t].w = Nil /\ cwp'[t] = cwp[t]
<1> USE DEF IInv, TypeOK, WorldPointers, NoPtr, library, program, locals
<1>1. CASE RegisterStep(t)
  <2>1. pc[t] # "wipe"
    BY <1>1 DEF RegisterStep, RegisterLock, RegisterSwap, RegisterDrop
  <2> QED
    BY <1>1, <2>1 DEF RegisterStep, RegisterLock, RegisterSwap, RegisterDrop, Locked, UnregisterWipe
<1>2. CASE FreeStep(t)
  <2>1. pc[t] # "wipe"
    BY <1>2 DEF FreeStep, FreeRead, FreeReload, FreeSwap, FreeRetain, FreeAppend, FreeAppendWorld, FreeNow
  <2> QED
    BY SMTT(30), <1>2, <2>1
    DEF FreeStep, FreeRead, FreeReload, FreeSwap, FreeRetain, FreeAppend, FreeAppendWorld, FreeNow, ReturnFromFree,
        UnregisterWipe
<1>3. CASE CheckinStep(t)
  <2>1. pc[t] # "wipe"
    BY <1>3
    DEF CheckinStep, Checkin, CheckinBit, CheckinCopy, CheckinRange, CheckinDecrement, CheckinSnip, CheckinRelease,
        CheckinDone
  <2>2. CASE CheckinBit(t)
    BY <2>1, <2>2 DEF CheckinBit, RetryWith, BitStep, UnregisterWipe
  <2> QED
    BY <1>3, <2>1, <2>2
    DEF CheckinStep, Checkin, BeginCheckin, CheckinCopy, CheckinRange, CheckinDecrement, CheckinSnip, CheckinRelease,
                       CheckinDone, UnregisterWipe, Ptr
<1>4. CASE UnregisterStep(t)
  <2>1. CASE UnregisterWipe(t)
    BY <2>1 DEF UnregisterWipe
  <2>2. CASE UnregisterSwap(t)
    BY <2>2 DEF UnregisterSwap, UnregisterWipe
  <2>3. CASE UnregisterLock(t)
    BY <2>3 DEF UnregisterLock, Restart, Locked, UnregisterWipe
  <2>4. CASE UnregisterUnlock(t)
    BY <2>4 DEF UnregisterUnlock, Restart, CallFree, UnregisterWipe
  <2> QED
    BY <1>4, <2>1, <2>2, <2>3, <2>4
    DEF UnregisterStep, Unregister, UnregisterBegin, BeginCheckin, UnregisterFail, UnregisterLeak, UnregisterOpen,
        Unregistered, Restart,
        UnregisterWipe
<1>5. CASE ProgramStep(t)
  BY <1>5 DEF ProgramStep, Free, Publish, UnregisterWipe
<1> QED
  BY <1>1, <1>2, <1>3, <1>4, <1>5 DEF Step

\* No world that a thread refers to is freed.
LEMMA RefsInUse ==
  ASSUME IInv, IInv', Safe, Owned, Owned', NEW t \in Threads, Step(t)
  PROVE  \A u \in Threads : owp'[u].w \notin free' /\ cwp'[u].w \notin free'
<1>1. wp.w \notin free' /\ wp'.w \notin free'
  <2>1. wp'.w \notin free'
    BY CurrentInUse DEF Owned, OwnedBy, WorldsOwned, IInv, TypeOK, WorldPointers
  <2>2. wp.w \notin free
    BY CurrentInUse DEF IInv
  <2> QED
    BY <2>1, <2>2, WorldsStep
<1>2. Nil \notin free'
  BY ConstantsAssumption DEF IInv, TypeOK
<1>3. \A u \in Threads : owp[u].w \notin free /\ cwp[u].w \notin free
  BY DEF Safe, RefsAgree
<1>4. \A u \in Threads : u # t => owp'[u] = owp[u] /\ cwp'[u] = cwp[u]
  BY OtherThreads DEF IInv
<1>5. ASSUME NEW u \in Threads, NEW w \in {owp[u].w, cwp[u].w}, w \in free'
      PROVE  u = t /\ UnregisterWipe(t) /\ w = owp[t].w
  BY <1>3, <1>5, FreedIsUnused
<1>6. CASE UnregisterWipe(t)
  <2>1. wp' = wp /\ pc[t] = "wipe" /\ owp'[t].w = Nil /\ cwp'[t] = cwp[t]
    BY <1>6, RefsOrigin DEF UnregisterWipe
  <2>2. cwp[t] = wp
    BY <2>1 DEF Safe, LastIsAlone
  <2> QED
    BY <1>1, <1>2, <1>4, <1>5, <2>1, <2>2
<1>7. CASE ~ UnregisterWipe(t)
  <2>1. owp[t].w \notin free' /\ cwp[t].w \notin free'
    BY <1>5, <1>7
  <2>2. owp'[t].w \notin free' /\ cwp'[t].w \notin free'
    BY <1>1, <1>2, <2>1, RefsOrigin
  <2> QED
    BY <1>4, <1>5, <1>7, <2>2
<1> QED
  BY <1>6, <1>7

-----------------------------------------------------------------------------
(* What a step does to the timestamp and to the registered threads.        *)

\* The number of threads that the current world knows of.
Counted == store[wp.w].nt

\* A copy of the world with other contents is swapped in.
LEMMA SwappedIn ==
  ASSUME TypeOK, NEW w, NEW contents, Allocate(w, contents), wp'.w = w
  PROVE  store'[wp'.w] = contents
BY DEF Allocate, TypeOK

\* The current world is replaced by that of one thread more or less, by that
\* of the next timestamp, or by none of these.
LEMMA TimeStep ==
  ASSUME IInv, IInv', Safe, Owned, Owned', NEW t \in Threads, Step(t)
  PROVE  \/ /\ Now' = Now /\ Counted' = Counted /\ (wp.bit = 1 => wp'.bit = 1)
            /\ tss'[t] = 0 <=> tss[t] = 0
         \/ /\ Now' = Now + 1 /\ Counted' = Counted /\ wp'.bit = 0
            /\ tss[t] # 0 /\ tss' = tss /\ pc[t] = "fcas" /\ pc'[t] = "fretain" /\ cwp'[t] = wp'
         \/ /\ Now' = Now /\ Counted' = Counted + 1 /\ wp'.bit = 1
            /\ tss[t] = 0 /\ tss'[t] = Now + 1 /\ pc[t] = "join" /\ pc'[t] = "drop"
         \/ /\ Now' = Now /\ Counted' = Counted - 1 /\ wp'.bit = 1
            /\ tss[t] = Now + 1 /\ tss'[t] = 0 /\ pc[t] = "leave" /\ pc'[t] = "leak"
         \/ /\ Now' = 0 /\ Counted' = 0 /\ Counted = 1 /\ Registered' = {}
            /\ tss[t] = Now + 1 /\ tss'[t] = 0 /\ pc[t] = "leave" /\ pc'[t] = "wipe"
<1> USE DEF IInv, Now, Counted
<1>0. /\ LocalsAgree(t) /\ CallIsConsistent(t)
      /\ store[wp.w] \in Contents /\ Now \in Int /\ Counted \in Int
      /\ tss[t] \in Int /\ new[t] \in Int
  BY CurrentWorld, ConstantsAssumption DEF Safe, LocalsAllAgree, CallsAreConsistent, TypeOK
<1>1. ASSUME wp'.w = wp.w, wp.bit = 1 => wp'.bit = 1, tss'[t] = 0 <=> tss[t] = 0
      PROVE  Now' = Now /\ Counted' = Counted
  <2>1. wp.w \notin free' /\ wp.w \notin free /\ wp.w \in Worlds
    BY <1>1, CurrentInUse, CurrentWorld DEF Owned, OwnedBy, WorldsOwned
  <2> QED
    BY <1>1, <2>1, WorldsKept
<1>2. CASE RegisterStep(t)
  <2>1. CASE RegisterSwap(t) /\ wp = owp[t]
    <3>1. PICK w \in free : Allocate(w, AddThread(store[wp.w])) /\ wp' = Ptr(w, 1)
      BY <2>1 DEF RegisterSwap
    <3>2. /\ pc[t] = "join" /\ pc'[t] = "drop" /\ tss[t] = 0 /\ tss'[t] = Now + 1
          /\ wp'.w = w /\ wp'.bit = 1
      BY <1>0, <2>1, <3>1 DEF RegisterSwap, TypeOK, Goto, Ptr, FirstTimestamp, CallIsConsistent
    <3>3. store'[wp'.w] = AddThread(store[wp.w])
      BY <3>1, <3>2, SwappedIn
    <3>4. Now' = Now /\ Counted' = Counted + 1
      BY <1>0, <3>3 DEF AddThread, Contents
    <3> QED
      BY <3>2, <3>4
  <2>2. CASE ~ (RegisterSwap(t) /\ wp = owp[t])
    BY <1>1, <1>2, <2>2
    DEF RegisterStep, RegisterLock, RegisterSwap, RegisterDrop, Locked, library, TypeOK, WorldPointers
  <2> QED
    BY <2>1, <2>2
<1>3. CASE FreeStep(t)
  <2>1. CASE FreeSwap(t) /\ wp = cwp[t]
    <3>1. PICK w \in free : Allocate(w, [store[wp.w] EXCEPT !.ts = @ + 1]) /\ wp' = Raised(w) /\ cwp' = [cwp EXCEPT ![t] = Raised(w)]
      BY <2>1 DEF FreeSwap
    <3>2. /\ pc[t] = "fcas" /\ pc'[t] = "fretain" /\ tss[t] # 0 /\ tss' = tss
          /\ wp'.w = w /\ wp'.bit = 0 /\ cwp'[t] = wp'
      BY <1>0, <2>1, <3>1 DEF FreeSwap, TypeOK, Goto, Ptr, Raised, CallIsConsistent, FreePcs
    <3>3. store'[wp'.w] = [store[wp.w] EXCEPT !.ts = @ + 1]
      BY <3>1, <3>2, SwappedIn
    <3>4. Now' = Now + 1 /\ Counted' = Counted
      BY <1>0, <3>3 DEF Contents
    <3> QED
      BY <3>2, <3>4
  <2>2. CASE ~ (FreeSwap(t) /\ wp = cwp[t])
    BY <1>1, <1>3, <2>2
    DEF FreeStep, FreeRead, FreeReload, FreeSwap, FreeRetain, FreeAppend, FreeAppendWorld, FreeNow, library
  <2> QED
    BY <2>1, <2>2
<1>4. CASE CheckinStep(t)
  <2>1. CASE CheckinCopy(t) /\ wp = cwp[t]
    <3>1. PICK w \in free : Allocate(w, store[wp.w]) /\ wp' = Ptr(w, 1)
      BY <2>1 DEF CheckinCopy
    <3>2. wp'.w = w /\ wp'.bit = 1 /\ tss' = tss
      BY <2>1, <3>1 DEF Ptr, CheckinCopy
    <3>3. store'[wp'.w] = store[wp.w]
      BY <3>1, <3>2, SwappedIn
    <3> QED
      BY <3>2, <3>3
  <2>2. CASE CheckinBit(t)
    BY <1>1, <2>2 DEF CheckinBit, TypeOK, WorldPointers
  <2>3. CASE CheckinDone(t)
    <3>1. wp' = wp /\ tss[t] # 0 /\ tss'[t] = new[t] + 1 /\ new[t] \in Nat
      BY <1>0, <2>3, ConstantsAssumption DEF CheckinDone, library, CallIsConsistent, CheckinPcs, LoopPcs, TypeOK
    <3>2. tss'[t] # 0
      BY <3>1
    <3> QED
      BY <1>1, <3>1, <3>2
  <2>4. CASE ~ (CheckinCopy(t) /\ wp = cwp[t]) /\ ~ CheckinBit(t) /\ ~ CheckinDone(t)
    BY <1>1, <1>4, <2>4
    DEF CheckinStep, Checkin, CheckinCopy, CheckinRange, CheckinDecrement, CheckinSnip, CheckinRelease, library
  <2> QED
    BY <2>1, <2>2, <2>3, <2>4
<1>5. CASE UnregisterStep(t)
  <2>1. CASE UnregisterSwap(t)
    <3>1. /\ pc[t] = "leave" /\ tss[t] = Now + 1 /\ tss'[t] = 0 /\ store[wp.w] \in Contents
      BY <1>0, <2>1 DEF UnregisterSwap, MayLeave, LocalsAgree, TypeOK
    <3>2. CASE LastThread(store[wp.w])
      <4>1. PICK w \in free : Allocate(w, Blank) /\ wp' = Locked(Ptr(w, 0)) /\ Goto(t, "wipe")
        BY <2>1, <3>2 DEF UnregisterSwap
      <4>2. pc'[t] = "wipe" /\ wp'.w = w
        BY <4>1 DEF Goto, Locked, Ptr, TypeOK
      <4>3. store'[wp'.w] = Blank
        BY <4>1, <4>2, SwappedIn
      <4>4. Registered' = {}
        BY <4>2, LocksStep DEF LastIsAlone, Registered
      <4> QED
        BY <3>1, <3>2, <4>2, <4>3, <4>4 DEF Blank, LastThread
    <3>3. CASE ~ LastThread(store[wp.w])
      <4>1. PICK w \in free : Allocate(w, RemoveThread(store[wp.w])) /\ wp' = Ptr(w, 1) /\ Goto(t, "leak")
        BY <2>1, <3>3 DEF UnregisterSwap
      <4>2. pc'[t] = "leak" /\ wp'.w = w /\ wp'.bit = 1
        BY <4>1 DEF Goto, Ptr, TypeOK
      <4>3. store'[wp'.w] = RemoveThread(store[wp.w])
        BY <4>1, <4>2, SwappedIn
      <4>4. Now' = Now /\ Counted' = Counted - 1
        BY <1>0, <4>3 DEF RemoveThread, Contents
      <4> QED
        BY <3>1, <4>2, <4>4
    <3> QED
      BY <3>2, <3>3
  <2>2. CASE ~ UnregisterSwap(t)
    BY <1>1, <1>5, <2>2
    DEF UnregisterStep, Unregister, UnregisterBegin, UnregisterLock, UnregisterFail, UnregisterUnlock, UnregisterLeak,
        UnregisterWipe, UnregisterOpen, Locked, Unlocked, library, TypeOK, WorldPointers
  <2> QED
    BY <2>1, <2>2
<1>6. CASE ProgramStep(t)
  BY <1>1, <1>6 DEF ProgramStep, Free, Publish, library, locals
<1> QED
  BY <1>2, <1>3, <1>4, <1>5, <1>6 DEF Step

\* The next step of the thread takes one from a retain count.
Decrements(t) == pc[t] = "dec" /\ cur[t] <= new[t]

\* A thread that stays registered moves on by one timestamp at a time, and
\* takes one from the retain count of each.
LEMMA CursorStep ==
  ASSUME IInv, IInv', Safe, NEW t \in Threads, Step(t), tss[t] # 0, tss'[t] # 0
  PROVE  Cursor(t)' = IF Decrements(t) THEN Cursor(t) + 1 ELSE Cursor(t)
<1> USE DEF IInv, Goto, Cursor, Decrements, LoopPcs
<1>0. /\ LocalsAgree(t) /\ CallIsConsistent(t)
      /\ tss[t] \in Nat /\ new[t] \in Nat /\ cur[t] \in Nat
  BY ConstantsAssumption DEF Safe, LocalsAllAgree, CallsAreConsistent, TypeOK
<1>1. CASE RegisterStep(t)
  BY <1>0, <1>1 DEF RegisterStep, RegisterLock, RegisterSwap, RegisterDrop, CallFree, CallIsConsistent, TypeOK
<1>2. CASE FreeStep(t)
  <2>1. pc[t] \in FreePcs /\ pc'[t] \in FreePcs \cup {"idle", "drop", "range", "ubegin"} /\ tss' = tss
    BY SMTT(30), <1>2
    DEF FreeStep, FreeRead, FreeReload, FreeSwap, FreeRetain, FreeAppend, FreeAppendWorld, FreeNow, ReturnFromFree,
        FreePcs, TypeOK
  <2> QED
    BY <2>1 DEF FreePcs
<1>3. CASE CheckinStep(t)
  <2>1. CASE Checkin(t) \/ CheckinBit(t) \/ CheckinCopy(t)
    BY <2>1 DEF Checkin, BeginCheckin, BitStep, CheckinBit, CheckinCopy, CallFree, TypeOK
  <2>2. CASE CheckinRange(t)
    <3>1. /\ pc[t] = "range" /\ pc'[t] = "dec" /\ tss'[t] = tss[t]
          /\ cur'[t] = IF store[owp'[t].w].ts = 0 THEN new[t] + 1 ELSE tss[t]
          /\ owp'[t] = wp \/ owp'[t] = owp[t]
      BY <2>2 DEF CheckinRange, TypeOK
    <3>2. /\ t \in Registered /\ InCheckin(t)
          /\ new[t] <= store[owp[t].w].ts /\ new[t] <= store[wp.w].ts /\ tss[t] <= new[t]
      BY <1>0, <3>1 DEF Safe, CursorsAgree, InCheckin, CheckinPcs, Registered, Now, LocalsAgree
    <3>3. store[owp'[t].w].ts # 0
      BY <1>0, <3>1, <3>2
    <3> QED
      BY <3>1, <3>3
  <2>3. CASE CheckinDecrement(t)
    BY <1>0, <2>3 DEF CheckinDecrement, TypeOK
  <2>4. CASE CheckinSnip(t) \/ CheckinRelease(t)
    BY <2>4 DEF CheckinSnip, CheckinRelease, TypeOK
  <2>5. CASE CheckinDone(t)
    <3>1. /\ pc[t] = "dec" /\ cur[t] > new[t] /\ pc'[t] \in {"idle", "ulock"} /\ tss'[t] = new[t] + 1
      BY <2>5 DEF CheckinDone, TypeOK
    <3>2. cur[t] <= new[t] + 1
      BY <1>0, <3>1 DEF LocalsAgree
    <3> QED
      BY <1>0, <3>1, <3>2
  <2> QED
    BY <1>3, <2>1, <2>2, <2>3, <2>4, <2>5 DEF CheckinStep
<1>4. CASE UnregisterStep(t)
  <2>1. CASE Unregister(t) \/ UnregisterBegin(t)
    BY <2>1 DEF Unregister, UnregisterBegin, BeginCheckin, BitStep, TypeOK
  <2>2. CASE UnregisterLock(t) \/ UnregisterUnlock(t)
    BY <2>2 DEF UnregisterLock, UnregisterUnlock, Restart, CallFree, TypeOK
  <2>3. CASE UnregisterSwap(t)
    BY <2>3 DEF UnregisterSwap, TypeOK
  <2> QED
    BY <1>0, <1>4, <2>1, <2>2, <2>3
    DEF UnregisterStep, UnregisterFail, UnregisterLeak, UnregisterWipe, UnregisterOpen, Unregistered, Restart,
        CallIsConsistent, TypeOK
<1>5. CASE ProgramStep(t)
  BY <1>5 DEF ProgramStep, Free, CallFree, Publish, locals, TypeOK
<1> QED
  BY <1>1, <1>2, <1>3, <1>4, <1>5 DEF Step

\* The retain count of a timestamp.
LEMMA RetainStep ==
  ASSUME IInv, Safe, NEW t \in Threads, Step(t), NEW T \in Timestamps
  PROVE  /\ Decrements(t) /\ cur[t] = T => rc'[T] = rc[T] - 1
         /\ Raiser(t, T) => rc'[T] = rc[T] + store[cwp[t].w].nt
         /\ pc[t] = "wipe" => rc'[T] = -1
         /\ ~ (Decrements(t) /\ cur[t] = T) /\ ~ Raiser(t, T) /\ pc[t] # "wipe" => rc'[T] = rc[T]
<1> USE DEF IInv, Decrements, Raiser, FilesUnder, TypeOK, library
<1>1. CASE RegisterStep(t)
  BY <1>1 DEF RegisterStep, RegisterLock, RegisterSwap, RegisterDrop
<1>2. CASE FreeStep(t)
  <2>1. CASE FreeRetain(t)
    BY <2>1 DEF FreeRetain, Retained
  <2> QED
    BY <1>2, <2>1 DEF FreeStep, FreeRead, FreeReload, FreeSwap, FreeAppend, FreeAppendWorld, FreeNow
<1>3. CASE CheckinStep(t)
  <2>1. CASE CheckinDecrement(t)
    BY <2>1 DEF CheckinDecrement
  <2> QED
    BY <1>3, <2>1
    DEF CheckinStep, Checkin, CheckinBit, CheckinCopy, CheckinRange, CheckinSnip, CheckinRelease, CheckinDone
<1>4. CASE UnregisterStep(t)
  <2>1. CASE UnregisterWipe(t)
    BY <2>1 DEF UnregisterWipe
  <2> QED
    BY <1>4, <2>1
    DEF UnregisterStep, Unregister, UnregisterBegin, UnregisterLock, UnregisterSwap, UnregisterFail,
        UnregisterUnlock, UnregisterLeak,
        UnregisterOpen
<1>5. CASE ProgramStep(t)
  BY <1>5 DEF ProgramStep, Free, Publish, locals
<1> QED
  BY <1>1, <1>2, <1>3, <1>4, <1>5 DEF Step

\* The list of a timestamp.
LEMMA ListStep ==
  ASSUME IInv, Safe, NEW t \in Threads, Step(t), NEW T \in Timestamps
  PROVE  \/ list'[T] = list[T] /\ ~ (pc[t] = "clear" /\ cur[t] - 1 = T)
         \/ /\ pc[t] \in {"flist", "fworld"} /\ FilesUnder(t) = T
            /\ list'[T] = list[T] \cup (IF pc[t] = "flist" THEN {arg[t]} ELSE fw[t])
         \/ pc[t] = "clear" /\ cur[t] - 1 = T /\ list'[T] = {} /\ snip[t] = list[T]
         \/ pc[t] = "wipe" /\ list'[T] = {}
<1> USE DEF IInv, TypeOK, library
<1>1. CASE RegisterStep(t)
  BY <1>1 DEF RegisterStep, RegisterLock, RegisterSwap, RegisterDrop
<1>2. CASE FreeStep(t)
  <2>1. CASE FreeAppend(t)
    BY <2>1 DEF FreeAppend, FilesUnder
  <2>2. CASE FreeAppendWorld(t)
    BY <2>2 DEF FreeAppendWorld, FilesUnder
  <2> QED
    BY <1>2, <2>1, <2>2 DEF FreeStep, FreeRead, FreeReload, FreeSwap, FreeRetain, FreeNow
<1>3. CASE CheckinStep(t)
  <2>1. CASE CheckinRelease(t)
    BY <2>1 DEF CheckinRelease, Emptied, Safe, ListsAgree
  <2> QED
    BY <1>3, <2>1
    DEF CheckinStep, Checkin, CheckinBit, CheckinCopy, CheckinRange, CheckinDecrement, CheckinSnip, CheckinDone
<1>4. CASE UnregisterStep(t)
  <2>1. CASE UnregisterWipe(t)
    BY <2>1 DEF UnregisterWipe
  <2> QED
    BY <1>4, <2>1
    DEF UnregisterStep, Unregister, UnregisterBegin, UnregisterLock, UnregisterSwap, UnregisterFail,
        UnregisterUnlock, UnregisterLeak,
        UnregisterOpen
<1>5. CASE ProgramStep(t)
  BY <1>5 DEF ProgramStep, Free, Publish, locals
<1> QED
  BY <1>1, <1>2, <1>3, <1>4, <1>5 DEF Step

\* Only a decrement takes a thread out of those that are awaited.
LEMMA AwaitedStep ==
  ASSUME IInv, IInv', Safe, Owned, Owned', NEW t \in Threads, Step(t), NEW T \in 1 .. Now
  PROVE  Awaited(T)' = IF Decrements(t) /\ cur[t] = T THEN Awaited(T) \ {t} ELSE Awaited(T)
<1> USE DEF IInv
<1>0. /\ T \in Int /\ Now \in Int /\ T <= Now
      /\ \A u \in Threads : Cursor(u) \in Int /\ tss[u] \in Int
  BY CurrentWorld, ConstantsAssumption DEF Cursor, TypeOK, Now
<1>1. \A u \in Threads : u # t => tss'[u] = tss[u] /\ Cursor(u)' = Cursor(u)
  BY OtherThreads DEF Cursor
<1>2. (tss'[t] # 0 /\ Cursor(t)' <= T) <=> (tss[t] # 0 /\ Cursor(t) <= T /\ ~ (Decrements(t) /\ cur[t] = T))
  <2>1. CASE tss[t] # 0 /\ tss'[t] # 0
    <3>1. Decrements(t) => Cursor(t) = cur[t]
      BY DEF Decrements, Cursor, LoopPcs
    <3> QED
      BY <1>0, <2>1, <3>1, CursorStep
  <2>2. CASE tss[t] = 0 /\ tss'[t] # 0
    <3>1. tss'[t] = Now + 1 /\ pc'[t] = "drop"
      BY <1>0, <2>2, TimeStep
    <3>2. Cursor(t)' = Now + 1
      BY <3>1 DEF Cursor, LoopPcs
    <3> QED
      BY <1>0, <2>2, <3>2
  <2>3. CASE tss[t] # 0 /\ tss'[t] = 0
    <3>1. tss[t] = Now + 1 /\ pc[t] = "leave"
      BY <1>0, <2>3, TimeStep
    <3>2. Cursor(t) = Now + 1
      BY <3>1 DEF Cursor, LoopPcs
    <3> QED
      BY <1>0, <2>3, <3>2
  <2> QED
    BY <2>1, <2>2, <2>3
<1> QED
  BY <1>1, <1>2 DEF Awaited, Registered

\* What a thread refers to before and after a step keeps its contents.
LEMMA RefsKept ==
  ASSUME IInv, IInv', Safe, Owned, Owned', NEW t \in Threads, Step(t), NEW u \in Threads, NEW w \in Worlds,
         w \in {owp[u].w, cwp[u].w}, w \in {owp'[u].w, cwp'[u].w}
  PROVE  store'[w] = store[w]
<1>1. w \notin free
  BY DEF Safe, RefsAgree
<1>2. w \notin free'
  BY RefsInUse
<1> QED
  BY <1>1, <1>2, WorldsKept

\* A free keeps the world of its timestamp from when it has read it or put
\* it in place.
LEMMA FilingStep ==
  ASSUME IInv, IInv', Safe, Owned, Owned', NEW t \in Threads, Step(t), NEW u \in Threads, Filing(u)'
  PROVE  \/ /\ Filing(u) /\ FilesUnder(u)' = FilesUnder(u) /\ store'[cwp'[u].w] = store[cwp[u].w]
            /\ pc'[u] = "fretain" => u # t /\ pc[u] = "fretain"
         \/ u = t /\ pc'[t] = "fretain" /\ pc[t] = "fcas" /\ cwp'[t] = wp' /\ Now' = Now + 1
         \/ /\ u = t /\ pc'[t] = "flist" /\ pc[t] \in {"fread", "freload"}
            /\ cwp'[t] = wp' /\ wp' = wp /\ Now' = Now /\ wp.bit = 0
<1> USE DEF IInv
<1>0. Filing(u) => cwp[u].w \in Worlds
  BY DEF Filing, CallsAreConsistent, CallIsConsistent, FreePcs, WorldPointers
<1>1. ASSUME Filing(u), cwp'[u] = cwp[u]
      PROVE  FilesUnder(u)' = FilesUnder(u) /\ store'[cwp'[u].w] = store[cwp[u].w]
  <2>1. store'[cwp[u].w] = store[cwp[u].w]
    BY <1>0, <1>1, RefsKept
  <2> QED
    BY <1>1, <2>1 DEF FilesUnder
<1>2. CASE u # t
  BY <1>1, <1>2, OtherThreads DEF Filing
<1>3. CASE u = t
  <2>1. FreeStep(t)
    <3>1. CASE RegisterStep(t)
      BY <1>3, <3>1 DEF RegisterStep, RegisterLock, RegisterSwap, RegisterDrop, CallFree, Goto, TypeOK, Filing
    <3>2. CASE CheckinStep(t)
      BY <1>3, <3>2
      DEF CheckinStep, Checkin, BeginCheckin, BitStep, CheckinBit, CheckinCopy, CheckinRange, CheckinDecrement,
          CheckinSnip, CheckinRelease,
          CheckinDone, CallFree, Goto, TypeOK, Filing
    <3>3. CASE UnregisterStep(t)
      BY <1>3, <3>3
      DEF UnregisterStep, Unregister, UnregisterBegin, BeginCheckin, BitStep, UnregisterLock, UnregisterSwap,
          UnregisterFail, UnregisterUnlock,
          UnregisterLeak, UnregisterWipe, UnregisterOpen, Unregistered, Restart, CallFree, Goto, TypeOK, Filing
    <3>4. CASE ProgramStep(t)
      <4>1. pc'[t] \in {"fread", "idle"}
        BY <3>4 DEF ProgramStep, Free, Publish, CallFree, Goto, locals, TypeOK
      <4> QED
        BY <1>3, <4>1 DEF Filing
    <3> QED
      BY <3>1, <3>2, <3>3, <3>4 DEF Step
  <2>2. CASE FreeRead(t) \/ FreeReload(t)
    <3>1. /\ pc[t] \in {"fread", "freload"} /\ pc'[t] = "flist" /\ cwp'[t] = wp /\ wp' = wp /\ store' = store
          /\ wp.bit = 0 \/ ~ wp.bit = 0
      BY <1>3, <2>2 DEF FreeRead, FreeReload, Goto, TypeOK, Filing, library
    <3>2. wp.bit = 0
      BY <2>2, <3>1 DEF FreeRead, FreeReload, Goto, TypeOK
    <3> QED
      BY <1>3, <3>1, <3>2 DEF Now
  <2>3. CASE FreeSwap(t)
    <3>1. pc[t] = "fcas" /\ pc'[t] = "fretain"
      BY <1>3, <2>3 DEF FreeSwap, Goto, TypeOK, Filing
    <3>2. wp = cwp[t]
      BY <2>3, <3>1 DEF FreeSwap, Goto, TypeOK
    <3>3. PICK w \in free : /\ Allocate(w, [store[wp.w] EXCEPT !.ts = @ + 1])
                           /\ wp' = Raised(w) /\ cwp' = [cwp EXCEPT ![t] = Raised(w)]
      BY <2>3, <3>2 DEF FreeSwap
    <3>4. cwp'[t] = wp' /\ wp'.w = w
      BY <3>3 DEF TypeOK, Raised, Ptr
    <3>5. store'[wp'.w] = [store[wp.w] EXCEPT !.ts = @ + 1]
      BY <3>3, <3>4, SwappedIn
    <3>6. Now' = Now + 1
      BY <3>5, CurrentWorld DEF Now, Contents
    <3> QED
      BY <1>3, <3>1, <3>4, <3>6
  <2>4. CASE FreeRetain(t) \/ FreeAppend(t)
    <3>1. Filing(u) /\ cwp'[t] = cwp[t] /\ pc'[t] # "fretain"
      BY SMTT(30), <1>3, <2>4 DEF FreeRetain, FreeAppend, ReturnFromFree, Goto, TypeOK, Filing
    <3> QED
      BY <1>1, <1>3, <3>1
  <2>5. CASE FreeAppendWorld(t) \/ FreeNow(t)
    BY ZenonT(30), <1>3, <2>5 DEF FreeAppendWorld, FreeNow, ReturnFromFree, Goto, TypeOK, Filing
  <2> QED
    BY <2>1, <2>2, <2>3, <2>4, <2>5 DEF FreeStep
<1> QED
  BY <1>2, <1>3

\* What a checkin relies on it has made true itself or found.
LEMMA CheckinLocals ==
  ASSUME IInv, Safe, NEW t \in Threads, Step(t)
  PROVE  /\ new'[t] \in {new[t], Now, 0}
         /\ InCheckin(t)' => (InCheckin(t) /\ new'[t] = new[t] /\ owp'[t] = owp[t]) \/ owp'[t].w = wp'.w
         /\ BitIsSet(t)'  => (BitIsSet(t) /\ new'[t] = new[t]) \/ wp'.bit = 1
<1> USE DEF IInv, InCheckin, BitIsSet, CheckinPcs, LoopPcs, Now
<1>0. LocalsAgree(t) /\ CallIsConsistent(t)
  BY DEF Safe, LocalsAllAgree, CallsAreConsistent
<1>1. CASE RegisterStep(t)
  BY <1>0, <1>1
  DEF RegisterStep, RegisterLock, RegisterSwap, RegisterDrop, CallFree, Goto, TypeOK, CallIsConsistent, FreePcs
<1>2. CASE FreeStep(t)
  <2> USE DEF Goto, TypeOK, CallIsConsistent, FreePcs
  <2>1. CASE FreeRead(t) \/ FreeReload(t) \/ FreeRetain(t) \/ FreeSwap(t)
    BY <1>0, <2>1 DEF FreeRead, FreeReload, FreeRetain, FreeSwap
  <2>2. CASE FreeAppend(t) \/ FreeAppendWorld(t) \/ FreeNow(t)
    BY <1>0, <2>2 DEF FreeAppend, FreeAppendWorld, FreeNow, ReturnFromFree
  <2> QED
    BY <1>2, <2>1, <2>2 DEF FreeStep
<1>3. CASE CheckinStep(t)
  <2>1. CASE Checkin(t)
    BY <1>0, <2>1 DEF Checkin, BeginCheckin, BitStep, Goto, TypeOK, CallIsConsistent, FreePcs, library, WorldPointers
  <2>2. CASE CheckinBit(t)
    BY <1>0, <2>2 DEF CheckinBit, BitStep, Goto, TypeOK, CallIsConsistent, FreePcs, WorldPointers
  <2>3. CASE CheckinCopy(t)
    BY <1>0, <2>3 DEF CheckinCopy, Ptr, CallFree, Goto, TypeOK, CallIsConsistent, FreePcs
  <2>4. CASE CheckinRange(t)
    BY <1>0, <2>4 DEF CheckinRange, Goto, TypeOK, library
  <2>5. CASE CheckinDecrement(t) \/ CheckinSnip(t) \/ CheckinRelease(t)
    BY <1>0, <2>5 DEF CheckinDecrement, CheckinSnip, CheckinRelease, Goto, TypeOK
  <2>6. CASE CheckinDone(t)
    BY <1>0, <2>6 DEF CheckinDone, Goto, TypeOK, CallIsConsistent, FreePcs
  <2> QED
    BY <1>3, <2>1, <2>2, <2>3, <2>4, <2>5, <2>6 DEF CheckinStep
<1>4. CASE UnregisterStep(t)
  <2> USE <1>0 DEF Goto, TypeOK, CallIsConsistent, FreePcs, Restart, library, WorldPointers
  <2>1. CASE Unregister(t)
    BY <2>1 DEF Unregister
  <2>2. CASE UnregisterBegin(t)
    BY <2>2 DEF UnregisterBegin, BeginCheckin, BitStep
  <2>3. CASE UnregisterLock(t)
    BY <2>3 DEF UnregisterLock
  <2>4. CASE UnregisterSwap(t)
    BY <2>4 DEF UnregisterSwap
  <2>5. CASE UnregisterUnlock(t)
    BY <2>5 DEF UnregisterUnlock, CallFree
  <2>6. CASE UnregisterFail(t) \/ UnregisterLeak(t) \/ UnregisterWipe(t) \/ UnregisterOpen(t)
    BY <2>6 DEF UnregisterFail, UnregisterLeak, UnregisterWipe, UnregisterOpen, Unregistered
  <2> QED
    BY <1>4, <2>1, <2>2, <2>3, <2>4, <2>5, <2>6 DEF UnregisterStep
<1>5. CASE ProgramStep(t)
  BY <1>0, <1>5 DEF ProgramStep, Free, CallFree, Publish, Goto, locals, TypeOK, CallIsConsistent, FreePcs
<1> QED
  BY <1>1, <1>2, <1>3, <1>4, <1>5 DEF Step

-----------------------------------------------------------------------------
(* The counting argument.                                                  *)

\* The timestamp does not go back while a thread is registered.
LEMMA ReachStep ==
  ASSUME IInv, IInv', Safe, Owned, Owned', NEW t \in Threads, Step(t), NEW u \in Threads, tss'[u] # 0
  PROVE  Now' \in {Now, Now + 1} /\ Now' >= Now /\ Reach' >= Reach
<1>1. wp.bit \in 0 .. 1 /\ wp'.bit \in 0 .. 1 /\ Now \in Int
  BY CurrentWorld DEF IInv, TypeOK, WorldPointers, Now
<1>2. Registered' # {}
  BY DEF Registered
<1> QED
  BY <1>1, <1>2, TimeStep DEF Reach

\* No thread gets beyond what the world pointer has reached.
LEMMA CursorsStep ==
  ASSUME IInv, IInv', Safe, Owned, Owned', NEW t \in Threads, Step(t)
  PROVE  CursorsAgree'
<1> USE DEF IInv
<1> SUFFICES ASSUME NEW u \in Registered'
             PROVE  /\ Cursor(u)' <= Reach'
                    /\ new'[u] <= Now'
                    /\ BitIsSet(u)' => new'[u] + 1 <= Reach'
                    /\ InCheckin(u)' => new'[u] <= store'[owp'[u].w].ts
                    /\ Filing(u)' => FilesUnder(u)' \in 1 .. Now' /\ Cursor(u)' <= FilesUnder(u)'
  BY DEF CursorsAgree
<1>0. /\ u \in Threads /\ tss'[u] # 0
      /\ Now \in Nat /\ Now' \in Nat /\ Reach \in Nat /\ Reach' \in Nat
      /\ new[u] \in Nat /\ new'[u] \in Nat /\ Cursor(u) \in Nat /\ Cursor(u)' \in Nat
      /\ wp.bit \in 0 .. 1 /\ wp'.bit \in 0 .. 1
      /\ Reach = Now + wp.bit /\ Reach' = Now' + wp'.bit
  BY CurrentWorld, ConstantsAssumption DEF Registered, TypeOK, WorldPointers, Contents, Now, Reach, Cursor
<1>1. Now' \in {Now, Now + 1} /\ Reach' >= Reach
  BY <1>0, ReachStep
<1>2. ASSUME tss[u] # 0
      PROVE  /\ Cursor(u) <= Reach /\ new[u] <= Now
             /\ BitIsSet(u) => new[u] + 1 <= Reach
             /\ InCheckin(u) => new[u] <= store[owp[u].w].ts
             /\ Filing(u) => FilesUnder(u) \in 1 .. Now /\ Cursor(u) <= FilesUnder(u)
  BY <1>0, <1>2 DEF Safe, CursorsAgree, Registered
<1>3. ASSUME InCheckin(u), owp'[u] = owp[u] PROVE store'[owp'[u].w] = store[owp[u].w]
  <2>1. owp[u].w \in Worlds
    BY <1>0, <1>3 DEF InCheckin, CallsAreConsistent, CallIsConsistent, WorldPointers
  <2> QED
    BY <1>0, <1>3, <2>1, RefsKept
<1>4. CASE u # t
  <2>1. /\ tss'[u] = tss[u] /\ pc'[u] = pc[u] /\ ret'[u] = ret[u] /\ new'[u] = new[u]
        /\ cur'[u] = cur[u] /\ owp'[u] = owp[u] /\ cwp'[u] = cwp[u]
    BY <1>0, <1>4, OtherThreads
  <2>2. /\ Cursor(u)' = Cursor(u)
        /\ BitIsSet(u)' <=> BitIsSet(u)
        /\ InCheckin(u)' <=> InCheckin(u)
    BY <2>1 DEF Cursor, BitIsSet, InCheckin
  <2>3. Filing(u)' => Filing(u) /\ FilesUnder(u)' = FilesUnder(u)
    BY <1>0, <1>4, FilingStep
  <2>4. InCheckin(u)' => new'[u] <= store'[owp'[u].w].ts
    BY <1>0, <1>2, <1>3, <2>1, <2>2
  <2> QED
    BY <1>0, <1>1, <1>2, <2>1, <2>2, <2>3, <2>4
<1>5. CASE u = t
  <2>1. CASE tss[t] # 0
    <3>1. Cursor(t)' <= Reach'
      <4>1. Cursor(t)' = IF Decrements(t) THEN Cursor(t) + 1 ELSE Cursor(t)
        BY <1>0, <1>5, <2>1, CursorStep
      <4>2. Decrements(t) => Cursor(t) <= new[t] /\ BitIsSet(t)
        BY DEF Decrements, Cursor, BitIsSet, LoopPcs
      <4> QED
        BY <1>0, <1>1, <1>2, <1>5, <2>1, <4>1, <4>2
    <3>2. new'[t] <= Now'
      BY <1>0, <1>1, <1>2, <1>5, <2>1, CheckinLocals
    <3>3. BitIsSet(t)' => new'[t] + 1 <= Reach'
      BY <1>0, <1>1, <1>2, <1>5, <2>1, <3>2, CheckinLocals
    <3>4. InCheckin(t)' => new'[t] <= store'[owp'[t].w].ts
      BY <1>0, <1>2, <1>3, <1>5, <2>1, <3>2, CheckinLocals DEF Now
    <3>5. ASSUME Filing(t)' PROVE FilesUnder(t)' \in 1 .. Now' /\ Cursor(t)' <= FilesUnder(t)'
      <4>1. pc[t] \notin LoopPcs /\ pc'[t] \notin LoopPcs /\ Cursor(t)' = Cursor(t) /\ Cursor(t) >= 1
        <5>1. pc[t] \notin LoopPcs /\ pc'[t] \notin LoopPcs
          BY <3>5, FilingStep DEF Filing, LoopPcs
        <5>2. Cursor(t)' = Cursor(t)
          BY <1>0, <1>5, <2>1, <5>1, CursorStep DEF Decrements, LoopPcs
        <5>3. Cursor(t) = tss[t] /\ tss[t] \in Nat
          BY <5>1, ConstantsAssumption DEF Cursor, TypeOK
        <5> QED
          BY <2>1, <5>1, <5>2, <5>3
      <4>2. CASE Filing(t) /\ FilesUnder(t)' = FilesUnder(t)
        BY <1>0, <1>1, <1>2, <1>5, <2>1, <4>1, <4>2
      <4>3. CASE cwp'[t] = wp' /\ (Now' = Now + 1 \/ (Now' = Now /\ wp.bit = 0))
        <5>1. FilesUnder(t)' = Now'
          BY <4>3 DEF FilesUnder, Now
        <5> QED
          BY <1>0, <1>2, <1>5, <2>1, <4>1, <4>3, <5>1
      <4> QED
        BY <3>5, <4>2, <4>3, FilingStep
    <3> QED
      BY <1>5, <3>1, <3>2, <3>3, <3>4, <3>5
  <2>2. CASE tss[t] = 0
    <3>1. Now' = Now /\ wp'.bit = 1 /\ tss'[t] = Now + 1 /\ pc[t] = "join" /\ pc'[t] = "drop"
      BY <1>0, <1>5, <2>2, TimeStep
    <3>2. Cursor(t)' = Now + 1 /\ ~ Filing(t)'
      BY <3>1 DEF Cursor, LoopPcs, Filing
    <3>3. ret'[t] = "idle"
      BY <3>1 DEF CallsAreConsistent, CallIsConsistent, FreePcs
    <3>4. ~ InCheckin(t)' /\ ~ BitIsSet(t)'
      BY <3>1, <3>3 DEF InCheckin, BitIsSet, CheckinPcs, LoopPcs
    <3>5. new[t] = 0
      BY <3>1 DEF Safe, LocalsAllAgree, LocalsAgree
    <3>6. new'[t] <= Now'
      BY <1>0, <3>1, <3>5, CheckinLocals
    <3> QED
      BY <1>0, <1>5, <3>1, <3>2, <3>4, <3>6
  <2> QED
    BY <2>1, <2>2
<1> QED
  BY <1>4, <1>5

\* There are finitely many threads to be counted.
LEMMA Finite ==
  /\ IsFiniteSet(Registered) /\ Cardinality(Registered) \in Nat
  /\ \A T : IsFiniteSet(Awaited(T)) /\ Cardinality(Awaited(T)) \in Nat
<1>1. IsFiniteSet(Registered)
  BY ConstantsAssumption, FS_Subset DEF Registered
<1>2. \A T : IsFiniteSet(Awaited(T))
  BY <1>1, FS_Subset DEF Awaited
<1> QED
  BY <1>1, <1>2, FS_CardinalityType

\* A timestamp that no thread is to check in for any more, or to raise, is as
\* it was in the beginning.
LEMMA NothingLeft ==
  ASSUME IInv, Safe, NEW T \in Timestamps, Awaited(T) = {},
         \A u \in Threads : ~ Raiser(u, T) /\ ~ (Empties(u) /\ cur[u] - 1 = T)
  PROVE  rc[T] = -1 /\ list[T] = {}
<1>1. T \in Nat /\ T >= 1 /\ Now \in Nat
  BY CurrentWorld, ConstantsAssumption DEF IInv, Timestamps, Now
<1>2. list[T] = {}
  BY DEF Safe, ListsAgree
<1>3. CASE T > Now
  BY <1>2, <1>3 DEF Safe, CountsAgree
<1>4. CASE T <= Now
  <2>1. T \in 1 .. Now /\ \A u \in Threads : ~ Raiser(u, T)
    BY <1>1, <1>4
  <2>2. CountsAgree
    BY DEF Safe
  <2>3. rc[T] = Cardinality(Awaited(T)) - 1
    BY <2>1, <2>2 DEF CountsAgree
  <2> QED
    BY <1>2, <2>3, FS_EmptySet
<1> QED
  BY <1>1, <1>3, <1>4

\* Who has raised the timestamp to T and is to add to its retain count.
LEMMA RaiserStep ==
  ASSUME IInv, IInv', Safe, Owned, Owned', NEW t \in Threads, Step(t), NEW u \in Threads, NEW T \in 1 .. Now
  PROVE  /\ Raiser(u, T)' <=> Raiser(u, T) /\ u # t
         /\ Raiser(u, T)' => store'[cwp'[u].w] = store[cwp[u].w]
<1>0. Now \in Int /\ T \in Int /\ T <= Now
  BY CurrentWorld DEF IInv, Now
<1>1. ASSUME Raiser(u, T)'
      PROVE  Raiser(u, T) /\ u # t /\ store'[cwp'[u].w] = store[cwp[u].w]
  <2>1. pc'[u] = "fretain" /\ FilesUnder(u)' = T
    BY <1>1 DEF Raiser
  <2>2. ~ (cwp'[t] = wp' /\ Now' = Now + 1 /\ u = t)
    BY <1>0, <2>1 DEF FilesUnder, Now
  <2> QED
    BY <2>1, <2>2, FilingStep DEF Raiser, Filing
<1>2. ASSUME Raiser(u, T), u # t
      PROVE  Raiser(u, T)'
  <2>1. pc[u] = "fretain" /\ pc'[u] = "fretain" /\ cwp'[u] = cwp[u] /\ cwp[u].w \in Worlds
    BY <1>2, OtherThreads DEF IInv, Raiser, CallsAreConsistent, CallIsConsistent, FreePcs, WorldPointers
  <2>2. store'[cwp[u].w] = store[cwp[u].w]
    BY <2>1, RefsKept
  <2> QED
    BY <1>2, <2>1, <2>2 DEF Raiser, FilesUnder
<1> QED
  BY <1>1, <1>2

\* The world counts the registered threads.
LEMMA CountedStep ==
  ASSUME IInv, IInv', Safe, Owned, Owned', NEW t \in Threads, Step(t)
  PROVE  Counted' = Cardinality(Registered')
<1> USE DEF IInv
<1>0. Counted = Cardinality(Registered)
  BY DEF Safe, CountsAgree, Counted
<1>1. \A u \in Threads : u # t => tss'[u] = tss[u]
  BY OtherThreads
<1>2. CASE tss'[t] = 0 <=> tss[t] = 0
  <2>1. Registered' = Registered
    BY <1>1, <1>2 DEF Registered
  <2>2. Counted' = Counted
    BY <1>2, CurrentWorld, TimeStep DEF Now
  <2> QED
    BY <1>0, <2>1, <2>2
<1>3. CASE tss'[t] # 0 /\ tss[t] = 0
  <2>1. Registered' = Registered \cup {t} /\ t \notin Registered
    BY <1>1, <1>3 DEF Registered
  <2>2. Counted' = Counted + 1
    BY <1>3, TimeStep
  <2> QED
    BY <1>0, <2>1, <2>2, Finite, FS_AddElement
<1>4. CASE tss'[t] = 0 /\ tss[t] # 0
  <2>1. CASE Counted' = 0 /\ Registered' = {}
    BY <2>1, FS_EmptySet
  <2>2. CASE Counted' = Counted - 1
    <3>1. Registered' = Registered \ {t} /\ t \in Registered
      BY <1>1, <1>4 DEF Registered
    <3> QED
      BY <1>0, <2>2, <3>1, Finite, FS_RemoveElement
  <2> QED
    BY <1>4, <2>1, <2>2, TimeStep
<1> QED
  BY <1>2, <1>3, <1>4

\* Every retain count still tells how many threads have to check in, less what
\* a free that raised the timestamp is yet to add.
LEMMA CountsStep ==
  ASSUME IInv, IInv', Safe, Owned, Owned', NEW t \in Threads, Step(t)
  PROVE  CountsAgree'
<1> USE DEF IInv
<1>0. /\ Now \in Nat /\ Now' \in Nat /\ Registered \subseteq Threads
      /\ LocalsAgree(t) /\ CallIsConsistent(t)
      /\ rc \in [Timestamps -> Int] /\ \A w \in Worlds : store[w].nt \in Int
  BY CurrentWorld, ConstantsAssumption
  DEF TypeOK, WorldPointers, Contents, Now, Registered, Safe, LocalsAllAgree, CallsAreConsistent
<1>1. store'[wp'.w].nt = Cardinality(Registered')
  BY CountedStep DEF Counted
<1>2. Decrements(t) => cur[t] \in 1 .. Now
  BY <1>0, ConstantsAssumption
  DEF Decrements, Safe, CursorsAgree, Registered, LocalsAgree, CallIsConsistent, CheckinPcs, LoopPcs, TypeOK
<1>3. Filing(t) => FilesUnder(t) \in 1 .. Now
  BY <1>0 DEF Filing, Safe, CursorsAgree, Registered, CallIsConsistent, FreePcs
<1>4. ASSUME NEW T \in Timestamps, T > Now PROVE rc'[T] = -1 /\ list'[T] = {}
  <2>1. rc[T] = -1 /\ list[T] = {}
    BY <1>4 DEF Safe, CountsAgree
  <2>2. T \in Nat /\ ~ (Decrements(t) /\ cur[t] = T) /\ ~ (Filing(t) /\ FilesUnder(t) = T)
    BY <1>0, <1>2, <1>3, <1>4, ConstantsAssumption DEF Timestamps
  <2>3. rc'[T] = -1
    BY <2>1, <2>2, RetainStep DEF Raiser, Filing
  <2>4. list'[T] = {}
    BY <2>1, <2>2, ListStep DEF Filing
  <2> QED
    BY <2>3, <2>4
<1>5. \A T \in Timestamps : T > Now' => rc'[T] = -1 /\ list'[T] = {}
  <2>1. CASE Registered' = {} /\ tss[t] = Now + 1 /\ tss'[t] = 0 /\ pc[t] = "leave"
    <3>1. \A u \in Registered : u = t
      BY <2>1, OtherThreads DEF Registered
    <3> SUFFICES ASSUME NEW T \in Timestamps, T <= Now PROVE rc'[T] = -1 /\ list'[T] = {}
      BY <1>0, <1>4, ConstantsAssumption DEF Timestamps
    <3>2. Cursor(t) = Now + 1 /\ T \in Nat
      BY <2>1, ConstantsAssumption DEF Cursor, LoopPcs, Timestamps
    <3>3. Awaited(T) = {}
      BY <1>0, <3>1, <3>2 DEF Awaited
    <3>4. \A u \in Threads : ~ Raiser(u, T) /\ ~ (Empties(u) /\ cur[u] - 1 = T)
      BY <2>1, <3>1
      DEF Raiser, Empties, Registered, CallsAreConsistent, CallIsConsistent, FreePcs, CheckinPcs, LoopPcs
    <3>5. rc[T] = -1 /\ list[T] = {}
      BY <3>3, <3>4, NothingLeft
    <3>6. rc'[T] = rc[T]
      BY <2>1, RetainStep DEF Decrements, Raiser
    <3>7. list'[T] = list[T]
      BY <2>1, ListStep
    <3> QED
      BY <3>5, <3>6, <3>7
  <2>2. CASE Now' >= Now
    BY <1>0, <1>4, <2>2, ConstantsAssumption DEF Timestamps
  <2> QED
    BY <1>0, <2>1, <2>2, TimeStep
<1>6. \A u, v \in Threads : pc'[u] = "fretain" /\ pc'[v] = "fretain" /\ FilesUnder(u)' = FilesUnder(v)' => u = v
  <2>1. ASSUME NEW u \in Threads, pc'[u] = "fretain", u # t
        PROVE  pc[u] = "fretain" /\ FilesUnder(u)' = FilesUnder(u) /\ FilesUnder(u) <= Now /\ FilesUnder(u) \in Int
    <3>1. pc[u] = "fretain" /\ FilesUnder(u)' = FilesUnder(u)
      BY <2>1, FilingStep DEF Filing
    <3>2. u \in Registered
      BY <3>1 DEF Registered, CallsAreConsistent, CallIsConsistent, FreePcs
    <3> QED
      BY <1>0, <3>1, <3>2 DEF Safe, CursorsAgree, Filing
  <2>2. ASSUME pc'[t] = "fretain" PROVE FilesUnder(t)' = Now + 1
    <3>1. cwp'[t] = wp' /\ Now' = Now + 1
      BY <2>2, FilingStep DEF Filing
    <3> QED
      BY <3>1 DEF FilesUnder, Now
  <2>3. \A u \in Threads : pc'[u] = "fretain" /\ pc'[t] = "fretain" /\ FilesUnder(u)' = FilesUnder(t)' => u = t
    BY <1>0, <2>1, <2>2
  <2> QED
    BY <2>1, <2>3 DEF Safe, CountsAgree
<1>7. ASSUME NEW T \in 1 .. Now', T <= Now
      PROVE  /\ (\A u \in Threads : ~ Raiser(u, T)') => rc'[T] = Cardinality(Awaited(T)') - 1
             /\ \A u \in Threads : Raiser(u, T)' =>
                   /\ rc'[T] + store'[cwp'[u].w].nt = Cardinality(Awaited(T)') - 1
                   /\ Cardinality(Awaited(T)') <= store'[cwp'[u].w].nt
  <2>1. T \in 1 .. Now /\ T \in Timestamps /\ pc[t] # "wipe" /\ rc[T] \in Int
    <3>1. T \in 1 .. Now /\ T \in Timestamps
      BY <1>0, <1>7, CurrentWorld, ConstantsAssumption DEF Now, Timestamps
    <3> QED
      BY <1>0, <3>1 DEF Safe, LastIsAlone
  <2>2. \A u \in Threads : /\ Raiser(u, T)' <=> Raiser(u, T) /\ u # t
                           /\ Raiser(u, T)' => store'[cwp'[u].w] = store[cwp[u].w]
    BY <2>1, RaiserStep
  <2>3. Cardinality(Awaited(T)) \in Nat /\ IsFiniteSet(Awaited(T))
    BY Finite
  <2>4. /\ (\A u \in Threads : ~ Raiser(u, T)) => rc[T] = Cardinality(Awaited(T)) - 1
        /\ \A u \in Threads : Raiser(u, T) =>
              /\ rc[T] + store[cwp[u].w].nt = Cardinality(Awaited(T)) - 1
              /\ Cardinality(Awaited(T)) <= store[cwp[u].w].nt
              /\ store[cwp[u].w].nt \in Int
    <3>1. \A u \in Threads : Raiser(u, T) => cwp[u].w \in Worlds
      BY DEF Raiser, CallsAreConsistent, CallIsConsistent, FreePcs, WorldPointers
    <3> QED
      BY <1>0, <2>1, <3>1 DEF Safe, CountsAgree, Raiser
  <2>5. CASE Raiser(t, T)
    <3>1. \A u \in Threads : ~ Raiser(u, T)'
      BY <2>2, <2>5 DEF Safe, CountsAgree, Raiser
    <3>2. rc'[T] = rc[T] + store[cwp[t].w].nt
      BY <2>1, <2>5, RetainStep
    <3>3. Awaited(T)' = Awaited(T)
      BY <2>1, <2>5, AwaitedStep DEF Decrements, Raiser
    <3> QED
      BY <2>4, <2>5, <3>1, <3>2, <3>3
  <2>6. CASE ~ Raiser(t, T)
    <3>1. \A u \in Threads : /\ Raiser(u, T)' <=> Raiser(u, T)
                             /\ Raiser(u, T) => store'[cwp'[u].w] = store[cwp[u].w]
      BY <2>2, <2>6
    <3>2. CASE Decrements(t) /\ cur[t] = T
      <4>1. rc'[T] = rc[T] - 1
        BY <2>1, <3>2, RetainStep
      <4>2. Awaited(T)' = Awaited(T) \ {t}
        BY <2>1, <3>2, AwaitedStep
      <4>3. t \in Awaited(T)
        BY <1>0, <2>1, <3>2 DEF Awaited, Registered, Cursor, Decrements, CallIsConsistent, CheckinPcs, LoopPcs
      <4>4. Cardinality(Awaited(T)') = Cardinality(Awaited(T)) - 1
        BY <2>3, <4>2, <4>3, FS_RemoveElement
      <4> QED
        BY <2>1, <2>3, <2>4, <3>1, <4>1, <4>4
    <3>3. CASE ~ (Decrements(t) /\ cur[t] = T)
      <4>1. rc'[T] = rc[T]
        BY <2>1, <2>6, <3>3, RetainStep
      <4>2. Awaited(T)' = Awaited(T)
        BY <2>1, <3>3, AwaitedStep
      <4> QED
        BY <2>4, <3>1, <4>1, <4>2
    <3> QED
      BY <3>2, <3>3
  <2> QED
    BY <2>5, <2>6
<1>8. ASSUME NEW T \in 1 .. Now', T > Now
      PROVE  /\ Raiser(t, T)'
             /\ rc'[T] + store'[cwp'[t].w].nt = Cardinality(Awaited(T)') - 1
             /\ Cardinality(Awaited(T)') <= store'[cwp'[t].w].nt
  <2>1. /\ T = Now' /\ Now' = Now + 1
        /\ wp'.bit = 0 /\ tss' = tss /\ pc'[t] = "fretain" /\ cwp'[t] = wp'
    BY <1>0, <1>8, TimeStep
  <2>2. Raiser(t, T)' /\ store'[cwp'[t].w].nt = Cardinality(Registered')
    BY <1>1, <2>1 DEF Raiser, FilesUnder, Now
  <2>3. T \in Timestamps
    <3>1. Now' \in 0 .. MaxTimestamp
      BY DEF Now, TypeOK, WorldPointers, Contents
    <3> QED
      BY <1>0, <2>1, <3>1, ConstantsAssumption DEF Timestamps
  <2>4. rc'[T] = -1
    BY <1>4, <1>8, <2>3
  <2>5. \A u \in Registered' : Cursor(u)' <= T
    BY <1>0, <2>1, CursorsStep DEF CursorsAgree, Reach
  <2>6. Awaited(T)' = Registered'
    BY <2>5 DEF Awaited
  <2>7. Cardinality(Registered') \in Nat
    <3>1. IsFiniteSet(Registered')
      BY ConstantsAssumption, FS_Subset DEF Registered
    <3> QED
      BY <3>1, FS_CardinalityType
  <2> QED
    BY <2>2, <2>4, <2>6, <2>7
<1>9. ASSUME NEW T \in 1 .. Now'
      PROVE  /\ (\A u \in Threads : ~ Raiser(u, T)') => rc'[T] = Cardinality(Awaited(T)') - 1
             /\ \A u \in Threads : Raiser(u, T)' =>
                   /\ rc'[T] + store'[cwp'[u].w].nt = Cardinality(Awaited(T)') - 1
                   /\ Cardinality(Awaited(T)') <= store'[cwp'[u].w].nt
  <2>1. CASE T <= Now
    BY <1>7, <1>9, <2>1
  <2>2. CASE T > Now
    <3>1. \A u \in Threads : Raiser(u, T)' => u = t
      BY <1>6, <1>8, <1>9, <2>2 DEF Raiser
    <3> QED
      BY <1>8, <1>9, <2>2, <3>1
  <2> QED
    BY <1>0, <1>9, <2>1, <2>2
<1>10. ASSUME NEW u \in Threads, pc'[u] = "fretain"
       PROVE  /\ rc'[FilesUnder(u)'] + store'[cwp'[u].w].nt = Cardinality(Awaited(FilesUnder(u))') - 1
              /\ Cardinality(Awaited(FilesUnder(u))') <= store'[cwp'[u].w].nt
  <2>1. PICK T : T = FilesUnder(u)'
    OBVIOUS
  <2>2. u \in Registered' /\ Filing(u)'
    BY <1>10 DEF Filing, Registered, CallsAreConsistent, CallIsConsistent, FreePcs
  <2>3. T \in 1 .. Now'
    BY <2>1, <2>2, CursorsStep DEF CursorsAgree
  <2>4. Raiser(u, T)'
    BY <1>10, <2>1 DEF Raiser
  <2>5. Awaited(FilesUnder(u))' = Awaited(T)'
    BY <2>1 DEF Awaited
  <2> QED
    BY <1>9, <2>1, <2>3, <2>4, <2>5
<1> QED
  BY <1>1, <1>5, <1>6, <1>9, <1>10 DEF CountsAgree

=============================================================================
