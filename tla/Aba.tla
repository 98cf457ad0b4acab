-------------------------------- MODULE Aba --------------------------------
(***************************************************************************)
(* The lock-free pointer reclamation of mulle-aba: registering, checking   *)
(* in and unregistering threads, and the delayed free of pointers, as the  *)
(* interleaving of the atomic steps of src/mulle-aba.c and                 *)
(* src/mulle-aba-storage.c.                                                *)
(*                                                                         *)
(* A single atomic word, the world pointer, holds the address of the       *)
(* current world, a "bit" (some thread has checked in since the timestamp  *)
(* was raised) and a "lock" (a thread registers or unregisters).  A world  *)
(* never changes once it is published; every change allocates a copy and   *)
(* swaps it in with a compare-and-swap of the whole word.  World addresses *)
(* are reused here as soon as they are freed.                              *)
(*                                                                         *)
(* The geometry of a world (its offset and its timestamp storages) is      *)
(* left to module WorldStorage: here a timestamp denotes its own entry.    *)
(***************************************************************************)
EXTENDS Integers, FiniteSets

CONSTANTS
    Threads,        \* the threads of the process
    Pointers,       \* the pointers the program hands to mulle_aba_free
    Worlds,         \* the addresses the allocator can return for a world
    Nil,            \* neither a pointer nor a world: NULL
    MaxTimestamp    \* bound: no timestamp is raised beyond this

ASSUME ConstantsAssumption ==
    /\ Worlds # {}
    /\ Pointers \cap Worlds = {}
    /\ Nil \notin Pointers \cup Worlds
    /\ MaxTimestamp \in Nat \ {0}
    /\ IsFiniteSet(Threads)

VARIABLES
    \* ---- shared memory -------------------------------------------------
    wp,         \* _mulle_aba_storage._world: the world pointer
    store,      \* the contents of every world: _timestamp and _n_threads
    free,       \* the worlds that are not allocated
    rc,         \* _retain_count_1 of the entry of every timestamp
    list,       \* _pointer_list of the entry of every timestamp
    leaks,      \* _mulle_aba_storage._leaks
    \* ---- the program that uses the library -----------------------------
    pstate,     \* "linked" in its data, "retired" by a free, or "released"
    holders,    \* threads that may still use a pointer that was retired
    \* ---- local to each thread ------------------------------------------
    tss,        \* the thread's timestamp: last checkin + 1, 0: unregistered
    pc,         \* the next atomic step
    op,         \* the API call in progress
    ret,        \* where _mulle_aba_free_owned_pointer returns to
    new,        \* `new' of checkin and unregister
    cur,        \* `timestamp' of the loop in check_timerange
    owp,        \* the caller's world pointer: old_world_p, locked_world_p
    cwp,        \* the world pointer the next compare-and-swap expects
    arg,        \* the pointer being freed
    chain,      \* `dealloced': locked worlds collected by a registration
    fw,         \* `free_worlds': worlds replaced while freeing
    snip        \* `free_list': what was read off a timestamp's list

library == <<wp, store, free, rc, list, leaks>>
program == <<pstate, holders>>
locals  == <<tss, pc, op, ret, new, cur, owp, cwp, arg, chain, fw, snip>>
vars    == <<library, program, locals>>

Timestamps == 1 .. MaxTimestamp
Items      == Pointers \cup Worlds

WorldPointers == [w : Worlds, bit : 0 .. 1, lock : 0 .. 1]
NoPtr         == [w |-> Nil, bit |-> 0, lock |-> 0]
Ptr(w, bit)   == [w |-> w, bit |-> bit, lock |-> 0]
Locked(p)     == [p EXCEPT !.lock = 1]
UnlockedNot(p) == p                    \* (Mutant: the lock is not taken off.)
Unlocked(p)   == [p EXCEPT !.lock = 0]

Contents == [ts : 0 .. MaxTimestamp, nt : Int]
Blank    == [ts |-> 0, nt |-> 0]        \* calloc, or memset by free_world

-----------------------------------------------------------------------------
(* Program counters.                                                       *)

FreePcs     == {"fread", "freload", "fcas", "fretain", "flist", "fworld", "fnow"}
LoopPcs     == {"dec", "snip", "clear"}
RegisterPcs == {"lock", "join", "drop"}
CheckinPcs  == {"bit", "copy", "range"} \cup LoopPcs
LeavePcs    == {"ubegin", "ulock", "leave", "unlock", "leak", "wipe", "open"}
Pcs         == {"idle"} \cup FreePcs \cup RegisterPcs \cup CheckinPcs \cup LeavePcs

Init ==
    /\ \E w \in Worlds : /\ wp = Ptr(w, 0)
                         /\ free = Worlds \ {w}
    /\ store   = [w \in Worlds |-> Blank]
    /\ rc      = [T \in Timestamps |-> -1]
    /\ list    = [T \in Timestamps |-> {}]
    /\ leaks   = {}
    /\ pstate  = [p \in Pointers |-> "linked"]
    /\ holders = [p \in Pointers |-> {}]
    /\ tss     = [t \in Threads |-> 0]
    /\ pc      = [t \in Threads |-> "idle"]
    /\ op      = [t \in Threads |-> "none"]
    /\ ret     = [t \in Threads |-> "idle"]
    /\ new     = [t \in Threads |-> 0]
    /\ cur     = [t \in Threads |-> 0]
    /\ owp     = [t \in Threads |-> NoPtr]
    /\ cwp     = [t \in Threads |-> NoPtr]
    /\ arg     = [t \in Threads |-> Nil]
    /\ chain   = [t \in Threads |-> {}]
    /\ fw      = [t \in Threads |-> {}]
    /\ snip    = [t \in Threads |-> {}]

-----------------------------------------------------------------------------
(* Shared building blocks.                                                 *)

Goto(t, label) == pc' = [pc EXCEPT ![t] = label]

\* A copy of a world with new contents, at an address the allocator chose.
Allocate(w, contents) ==
    /\ w \in free
    /\ free'  = free \ {w}
    /\ store' = [store EXCEPT ![w] = contents]

\* The worlds of S are cleared and can be allocated again.
FreeWorlds(S) ==
    /\ free'  = free \cup (S \cap Worlds)
    /\ store' = [w \in Worlds |-> IF w \in S THEN Blank ELSE store[w]]

\* The free callbacks of the items of S run.
Release(S) ==
    /\ FreeWorlds(S)
    /\ pstate' = [p \in Pointers |-> IF p \in S THEN "released" ELSE pstate[p]]

\* From here on the thread does not use pointers it read earlier.
Promise(t) == holders' = [p \in Pointers |-> holders[p] \ {t}]

\* _mulle_aba_free_owned_pointer is called for item x and returns to `label'.
CallFree(t, x, label) ==
    /\ arg' = [arg EXCEPT ![t] = x]
    /\ ret' = [ret EXCEPT ![t] = label]
    /\ Goto(t, "fread")

ReturnFromFree(t) ==
    /\ Goto(t, ret[t])
    /\ op'  = [op  EXCEPT ![t] = IF ret[t] = "idle" THEN "none" ELSE @]
    /\ ret' = [ret EXCEPT ![t] = "idle"]
    /\ arg' = [arg EXCEPT ![t] = Nil]
    /\ cwp' = [cwp EXCEPT ![t] = NoPtr]
    /\ fw'  = [fw  EXCEPT ![t] = {}]

-----------------------------------------------------------------------------
(* mulle_aba_register.                                                     *)

\* _mulle_aba_storage_lock_worldpointer spins until it sets the lock on
\* whatever world is current; nothing of the world is read before that.
RegisterLock(t) ==
    /\ \/ pc[t] = "idle" /\ tss[t] = 0
       \/ pc[t] = "lock"
    /\ wp.lock = 0
    /\ wp'  = Locked(wp)
    /\ owp' = [owp EXCEPT ![t] = Locked(wp)]
    /\ op'  = [op  EXCEPT ![t] = "register"]
    /\ Goto(t, "join")
    /\ UNCHANGED <<store, free, rc, list, leaks, program,
                   tss, ret, new, cur, cwp, arg, chain, fw, snip>>

\* add_thread, and the timestamp it gives to the thread that registers.
\* (Mutants: a thread that is not counted; a timestamp that is off by one.)
AddThreadUncounted(world)     == world
FirstTimestampLate(world)     == world.ts + 2
FirstTimestampEarly(world)    == world.ts

AddThread(world)      == [world EXCEPT !.nt = @ + 1]
FirstTimestamp(world) == world.ts + 1

\* The copy with one more thread and the bit set replaces the locked world,
\* unless a checkin or a free replaced that one.  Either way the world this
\* thread had locked is now its own to free.
RegisterSwap(t) ==
    /\ pc[t] = "join"
    /\ chain' = [chain EXCEPT ![t] = @ \cup {owp[t].w}]
    /\ owp'   = [owp EXCEPT ![t] = NoPtr]
    /\ \/ /\ wp = owp[t]
          /\ \E w \in free :
                /\ Allocate(w, AddThread(store[wp.w]))
                /\ wp' = Ptr(w, 1)
          /\ tss' = [tss EXCEPT ![t] = FirstTimestamp(store[wp.w])]
          /\ Goto(t, "drop")
       \/ /\ wp # owp[t]
          /\ Goto(t, "lock")
          /\ UNCHANGED <<wp, store, free, tss>>
    /\ UNCHANGED <<rc, list, leaks, program,
                   op, ret, new, cur, cwp, arg, fw, snip>>

\* free_world_chain: the collected worlds are freed like pointers.
RegisterDrop(t) ==
    /\ pc[t] = "drop"
    /\ \/ \E w \in chain[t] :
             /\ chain' = [chain EXCEPT ![t] = @ \ {w}]
             /\ CallFree(t, w, "drop")
             /\ UNCHANGED op
       \/ /\ chain[t] = {}
          /\ Goto(t, "idle")
          /\ op' = [op EXCEPT ![t] = "none"]
          /\ UNCHANGED <<chain, arg, ret>>
    /\ UNCHANGED <<library, program, tss, new, cur, owp, cwp, fw, snip>>

-----------------------------------------------------------------------------
(* mulle_aba_free.                                                         *)

\* A thread that is registered and runs code of the program.
InUserCode(t) == tss[t] # 0 /\ op[t] \in {"none", "free"}

\* The program unlinks a pointer and frees it.  Every other registered
\* thread that has not begun to check in may have read it before.
Free(t, p) ==
    /\ pc[t] = "idle" /\ tss[t] # 0
    /\ pstate[p] = "linked"
    /\ pstate'  = [pstate EXCEPT ![p] = "retired"]
    /\ holders' = [holders EXCEPT ![p] = {u \in Threads \ {t} : InUserCode(u)}]
    /\ op'      = [op EXCEPT ![t] = "free"]
    /\ CallFree(t, p, "idle")
    /\ UNCHANGED <<library, tss, new, cur, owp, cwp, chain, fw, snip>>

\* With no more than one registered thread nothing needs to be delayed.
\* (Mutant: off by one.)
SingleThreadedOrTwo(world) == world.nt <= 2

SingleThreaded(world) == world.nt <= 1

FreeRead(t) ==
    /\ pc[t] = "fread"
    /\ cwp' = [cwp EXCEPT ![t] = wp]
    /\ Goto(t, IF SingleThreaded(store[wp.w]) THEN "fnow"
               ELSE IF wp.bit = 0 THEN "flist" ELSE "fcas")
    /\ UNCHANGED <<library, program,
                   tss, op, ret, new, cur, owp, arg, chain, fw, snip>>

\* EBUSY: read again, this time without asking for the number of threads
\* before the bit is looked at.
FreeReload(t) ==
    /\ pc[t] = "freload"
    /\ cwp' = [cwp EXCEPT ![t] = wp]
    /\ Goto(t, IF wp.bit = 0 THEN "flist"
               ELSE IF SingleThreaded(store[wp.w]) THEN "fnow" ELSE "fcas")
    /\ UNCHANGED <<library, program,
                   tss, op, ret, new, cur, owp, arg, chain, fw, snip>>

\* The world pointer with the next timestamp: nobody has checked in for it.
\* (Mutant: the bit is not cleared.)
RaisedBitKept(w) == Ptr(w, 1)

Raised(w) == Ptr(w, 0)

\* The world that was replaced has to be freed, unless it was locked: then
\* it is left to the thread that locked it.
\* (Mutant: the lock is not asked for.)
ToFreeAlways(p) == {p.w}

ToFree(p) == IF p.lock = 0 THEN {p.w} ELSE {}

\* The copy with the next timestamp replaces the world.  A lock is ignored,
\* and lost.
FreeSwap(t) ==
    /\ pc[t] = "fcas"
    /\ \/ /\ wp = cwp[t]
          /\ store[wp.w].ts < MaxTimestamp
          /\ \E w \in free :
                /\ Allocate(w, [store[wp.w] EXCEPT !.ts = @ + 1])
                /\ wp'  = Raised(w)
                /\ cwp' = [cwp EXCEPT ![t] = Raised(w)]
          /\ fw' = [fw EXCEPT ![t] = @ \cup ToFree(wp)]
          /\ Goto(t, "fretain")
       \/ /\ wp # cwp[t]
          /\ cwp' = [cwp EXCEPT ![t] = wp]
          /\ Goto(t, IF SingleThreaded(store[wp.w]) THEN "fnow"
                     ELSE IF wp.bit = 0 THEN "freload" ELSE "fcas")
          /\ UNCHANGED <<wp, store, free, fw>>
    /\ UNCHANGED <<rc, list, leaks, program,
                   tss, op, ret, new, cur, owp, arg, chain, snip>>

\* The threads that have to check in for the timestamp of a new world.
\* (Mutant: the thread that frees does not count itself.)
RetainedOthers(world) == world.nt - 1

Retained(world) == world.nt

\* They are added to the retain count of the timestamp, which checkins may
\* have decremented already.
FreeRetain(t) ==
    /\ pc[t] = "fretain"
    /\ LET world == store[cwp[t].w]
       IN  rc' = [rc EXCEPT ![world.ts] = @ + Retained(world)]
    /\ Goto(t, "flist")
    /\ UNCHANGED <<wp, store, free, list, leaks, program,
                   tss, op, ret, new, cur, owp, cwp, arg, chain, fw, snip>>

FreeAppend(t) ==
    /\ pc[t] = "flist"
    /\ list' = [list EXCEPT ![store[cwp[t].w].ts] = @ \cup {arg[t]}]
    /\ \/ /\ fw[t] # {}
          /\ Goto(t, "fworld")
          /\ arg' = [arg EXCEPT ![t] = Nil]
          /\ UNCHANGED <<op, ret, cwp, fw>>
       \/ /\ fw[t] = {}
          /\ ReturnFromFree(t)
    /\ UNCHANGED <<wp, store, free, rc, leaks, program,
                   tss, new, cur, owp, chain, snip>>

\* The world that was replaced goes onto the same list.
FreeAppendWorld(t) ==
    /\ pc[t] = "fworld"
    /\ list' = [list EXCEPT ![store[cwp[t].w].ts] = @ \cup fw[t]]
    /\ ReturnFromFree(t)
    /\ UNCHANGED <<wp, store, free, rc, leaks, program,
                   tss, new, cur, owp, chain, snip>>

\* EAGAIN, or a single thread from the start: no other thread to wait for.
FreeNow(t) ==
    /\ pc[t] = "fnow"
    /\ Release({arg[t]} \cup fw[t])
    /\ ReturnFromFree(t)
    /\ UNCHANGED <<wp, rc, list, leaks, holders,
                   tss, new, cur, owp, chain, snip>>


-----------------------------------------------------------------------------
(* mulle_aba_checkin, and the checkin that begins mulle_aba_unregister.    *)

\* What change_worldpointer does with world pointer p: a locked one has to
\* be copied, one whose bit is set is fine as it is, otherwise set the bit.
\* (Mutants: set the bit of a locked world pointer; let a locked one be.)
BitStepKeepLock(p) == IF p.bit = 1 THEN "range" ELSE "bit"
BitStepSkipLock(p) == IF p.lock = 1 \/ p.bit = 1 THEN "range" ELSE "bit"

BitStep(p) == IF p.lock = 1 THEN "copy" ELSE IF p.bit = 1 THEN "range" ELSE "bit"

BeginCheckin(t) ==
    /\ owp' = [owp EXCEPT ![t] = wp]
    /\ cwp' = [cwp EXCEPT ![t] = wp]
    /\ new' = [new EXCEPT ![t] = store[wp.w].ts]
    /\ Goto(t, BitStep(wp))

\* Nothing to do but the promise if the thread is up to date.
\* (Mutant: off by one.)
UpToDateEarly(t) == tss[t] >= store[wp.w].ts

UpToDate(t) == tss[t] > store[wp.w].ts

Checkin(t) ==
    /\ pc[t] = "idle" /\ tss[t] # 0
    /\ Promise(t)
    /\ \/ /\ UpToDate(t)
          /\ UNCHANGED <<pc, op, owp, cwp, new>>
       \/ /\ ~ UpToDate(t)
          /\ op' = [op EXCEPT ![t] = "checkin"]
          /\ BeginCheckin(t)
    /\ UNCHANGED <<library, pstate, tss, ret, cur, arg, chain, fw, snip>>

\* The world pointer to go on with after a compare-and-swap that failed: the
\* one found, or, for a copy, again that of the caller.
\* (Mutant: the one that was expected is not updated.)
RetryWithOld(t) == cwp[t]

RetryWith(t) == CASE BitStep(wp) = "bit"   -> wp
                  [] BitStep(wp) = "copy"  -> owp[t]
                  [] BitStep(wp) = "range" -> NoPtr

\* change_worldpointer: a bit set by somebody else is as good; a lock found
\* on the way means a copy.
CheckinBit(t) ==
    /\ pc[t] = "bit"
    /\ \/ /\ wp = cwp[t]
          /\ wp'  = [wp EXCEPT !.bit = 1]
          /\ owp' = [owp EXCEPT ![t] = wp']
          /\ cwp' = [cwp EXCEPT ![t] = NoPtr]
          /\ Goto(t, "range")
       \/ /\ wp # cwp[t]
          /\ Goto(t, BitStep(wp))
          /\ owp' = [owp EXCEPT ![t] = IF BitStep(wp) = "range" THEN wp ELSE @]
          /\ cwp' = [cwp EXCEPT ![t] = RetryWith(t)]
          /\ UNCHANGED wp
    /\ UNCHANGED <<store, free, rc, list, leaks, program,
                   tss, op, ret, new, cur, arg, chain, fw, snip>>

\* copy_change_worldpointer with set_bit: an unlocked copy with the bit set
\* replaces the world.  free_world_if_needed: the old one is freed like a
\* pointer unless it is locked.
CheckinCopy(t) ==
    /\ pc[t] = "copy"
    /\ \/ /\ wp = cwp[t]
          /\ \E w \in free : /\ Allocate(w, store[wp.w])
                             /\ wp'  = Ptr(w, 1)
                             /\ owp' = [owp EXCEPT ![t] = Ptr(w, 1)]
          /\ cwp' = [cwp EXCEPT ![t] = NoPtr]
          /\ IF ToFree(wp) # {}
             THEN CallFree(t, wp.w, "range")
             ELSE /\ Goto(t, "range")
                  /\ UNCHANGED <<arg, ret>>
       \/ /\ wp # cwp[t]
          /\ cwp' = [cwp EXCEPT ![t] = wp]
          /\ UNCHANGED <<wp, store, free, owp, arg, ret, pc>>
    /\ UNCHANGED <<rc, list, leaks, program,
                   tss, op, new, cur, chain, fw, snip>>

\* check_timestamp_range: checkin looks the entries up in the world that is
\* current now, unregister in the one its swap returned.
CheckinRange(t) ==
    /\ pc[t] = "range"
    /\ owp' = [owp EXCEPT ![t] = IF op[t] = "checkin" THEN wp ELSE @]
    /\ cwp' = [cwp EXCEPT ![t] = NoPtr]
    /\ cur' = [cur EXCEPT ![t] = IF store[owp'[t].w].ts = 0 THEN new[t] + 1 ELSE tss[t]]
    /\ Goto(t, "dec")
    /\ UNCHANGED <<library, program, tss, op, ret, new, arg, chain, fw, snip>>

\* The retain count is stored less one: the checkin that finds 0 is the last.
\* (Mutant: taken as if the count were stored as it is.)
LastCheckinEarly(T) == rc[T] = 1

LastCheckin(T) == rc[T] = 0

\* One timestamp: the last thread to check in releases what waits there.
CheckinDecrement(t) ==
    /\ pc[t] = "dec" /\ cur[t] <= new[t]
    /\ rc'  = [rc  EXCEPT ![cur[t]] = @ - 1]
    /\ cur' = [cur EXCEPT ![t] = @ + 1]
    /\ Goto(t, IF LastCheckin(cur[t]) THEN "snip" ELSE "dec")
    /\ UNCHANGED <<wp, store, free, list, leaks, program,
                   tss, op, ret, new, owp, cwp, arg, chain, fw, snip>>

\* The list is read and then cleared, not exchanged atomically.
CheckinSnip(t) ==
    /\ pc[t] = "snip"
    /\ snip' = [snip EXCEPT ![t] = list[cur[t] - 1]]
    /\ Goto(t, "clear")
    /\ UNCHANGED <<library, program,
                   tss, op, ret, new, cur, owp, cwp, arg, chain, fw>>

\* (Mutant: the head of the list is not reset.)
EmptiedNot(T) == list
Emptied(T)    == [list EXCEPT ![T] = {}]

CheckinRelease(t) ==
    /\ pc[t] = "clear"
    /\ list' = Emptied(cur[t] - 1)
    /\ Release(snip[t])
    /\ snip' = [snip EXCEPT ![t] = {}]
    /\ Goto(t, "dec")
    /\ UNCHANGED <<wp, rc, leaks, holders,
                   tss, op, ret, new, cur, owp, cwp, arg, chain, fw>>

CheckinDone(t) ==
    /\ pc[t] = "dec" /\ cur[t] > new[t]
    /\ tss' = [tss EXCEPT ![t] = new[t] + 1]
    /\ cur' = [cur EXCEPT ![t] = 0]
    /\ IF op[t] = "checkin"
       THEN /\ Goto(t, "idle")
            /\ op'  = [op  EXCEPT ![t] = "none"]
            /\ new' = [new EXCEPT ![t] = 0]
            /\ owp' = [owp EXCEPT ![t] = NoPtr]
       ELSE /\ Goto(t, "ulock")
            /\ UNCHANGED <<op, new, owp>>
    /\ UNCHANGED <<library, program, ret, cwp, arg, chain, fw, snip>>

-----------------------------------------------------------------------------
(* mulle_aba_unregister.                                                   *)

Unregister(t) ==
    /\ pc[t] = "idle" /\ tss[t] # 0
    /\ Promise(t)
    /\ op' = [op EXCEPT ![t] = "unregister"]
    /\ Goto(t, "ubegin")
    /\ UNCHANGED <<library, pstate,
                   tss, ret, new, cur, owp, cwp, arg, chain, fw, snip>>

\* The top of the loop: check in first if that is needed.
UnregisterBegin(t) ==
    /\ pc[t] = "ubegin"
    /\ IF ~ UpToDate(t)
       THEN BeginCheckin(t)
       ELSE /\ owp' = [owp EXCEPT ![t] = wp]
            /\ new' = [new EXCEPT ![t] = store[wp.w].ts]
            /\ Goto(t, "ulock")
            /\ UNCHANGED cwp
    /\ UNCHANGED <<library, program, tss, op, ret, cur, arg, chain, fw, snip>>

\* Start the loop over.
Restart(t, label) ==
    /\ Goto(t, label)
    /\ owp' = [owp EXCEPT ![t] = NoPtr]
    /\ cwp' = [cwp EXCEPT ![t] = NoPtr]
    /\ new' = [new EXCEPT ![t] = 0]

\* try_lock_worldpointer: lock the world this thread has seen, whatever its
\* bit has become, if it is still current and not locked.
UnregisterLock(t) ==
    /\ pc[t] = "ulock"
    /\ IF owp[t].lock = 0 /\ wp.lock = 0 /\ wp.w = owp[t].w
       THEN /\ wp'  = Locked(wp)
            /\ owp' = [owp EXCEPT ![t] = Locked(wp)]
            /\ cwp' = [cwp EXCEPT ![t] = Locked(wp)]
            /\ Goto(t, "leave")
            /\ UNCHANGED new
       ELSE /\ Restart(t, "ubegin")
            /\ UNCHANGED wp
    /\ UNCHANGED <<store, free, rc, list, leaks, program,
                   tss, op, ret, cur, arg, chain, fw, snip>>

\* (Mutant: without the test of the timestamp.)
MayLeaveStale(t, p) == p.lock = 1 /\ p.w = owp[t].w

\* remove_thread may go ahead with world pointer p.
MayLeave(t, p) == p.lock = 1 /\ p.w = owp[t].w /\ store[p.w].ts = new[t]

\* (Mutant: off by one.)
LastThreadOrTwo(world) == world.nt <= 2

LastThread(world)   == world.nt = 1
RemoveThread(world) == [world EXCEPT !.nt = @ - 1]

\* remove_thread's copy replaces the locked world.  The last thread installs
\* a world in its initial state, still locked, and cleans up after that.
UnregisterSwap(t) ==
    /\ pc[t] = "leave" /\ MayLeave(t, cwp[t])
    /\ wp = cwp[t]
    /\ \E w \in free :
          IF LastThread(store[wp.w])
          THEN /\ Allocate(w, Blank)
               /\ wp'  = Locked(Ptr(w, 0))
               /\ cwp' = [cwp EXCEPT ![t] = wp']
               /\ Goto(t, "wipe")
          ELSE /\ Allocate(w, RemoveThread(store[wp.w]))
               /\ wp'  = Ptr(w, 1)
               /\ cwp' = [cwp EXCEPT ![t] = NoPtr]
               /\ Goto(t, "leak")
    /\ tss' = [tss EXCEPT ![t] = 0]
    /\ UNCHANGED <<rc, list, leaks, program,
                   op, ret, new, cur, owp, arg, chain, fw, snip>>

\* Something changed in between: EAGAIN.  A world pointer without the lock, or
\* of another world, never gets it back for this thread, so the copy is not
\* tried again: the first alternative is in the code, but not reached.
UnregisterFail(t) ==
    /\ pc[t] = "leave"
    /\ \/ ~ MayLeave(t, cwp[t])
       \/ wp # cwp[t]
    /\ IF MayLeave(t, cwp[t]) /\ MayLeave(t, wp)
       THEN /\ cwp' = [cwp EXCEPT ![t] = wp]
            /\ UNCHANGED pc
       ELSE /\ cwp' = [cwp EXCEPT ![t] = NoPtr]
            /\ Goto(t, "unlock")
    /\ UNCHANGED <<library, program,
                   tss, op, ret, new, cur, owp, arg, chain, fw, snip>>

\* Take the lock off, or if the locked world was replaced free it: nobody
\* else does.
UnregisterUnlock(t) ==
    /\ pc[t] = "unlock"
    /\ IF wp.w = owp[t].w /\ wp.lock = 1
       THEN /\ wp' = Unlocked(wp)
            /\ Restart(t, "ubegin")
            /\ UNCHANGED <<arg, ret>>
       ELSE /\ CallFree(t, owp[t].w, "ubegin")
            /\ owp' = [owp EXCEPT ![t] = NoPtr]
            /\ new' = [new EXCEPT ![t] = 0]
            /\ UNCHANGED <<wp, cwp>>
    /\ UNCHANGED <<store, free, rc, list, leaks, program,
                   tss, op, cur, chain, fw, snip>>

Unregistered(t) ==
    /\ Restart(t, "idle")
    /\ op' = [op EXCEPT ![t] = "none"]

\* Other threads remain and may be reading the locked world: it is left for
\* the last one to free.
UnregisterLeak(t) ==
    /\ pc[t] = "leak"
    /\ leaks' = leaks \cup {owp[t].w}
    /\ Unregistered(t)
    /\ UNCHANGED <<wp, store, free, rc, list, program,
                   tss, ret, cur, arg, chain, fw, snip>>

\* The last thread frees the storages, whatever their lists hold, the leaked
\* worlds and the world it locked.
UnregisterWipe(t) ==
    /\ pc[t] = "wipe"
    /\ rc'    = [T \in Timestamps |-> -1]
    /\ list'  = [T \in Timestamps |-> {}]
    /\ leaks' = {}
    /\ FreeWorlds(leaks \cup {owp[t].w})
    /\ owp'   = [owp EXCEPT ![t] = NoPtr]
    /\ Goto(t, "open")
    /\ UNCHANGED <<wp, program,
                   tss, op, ret, new, cur, cwp, arg, chain, fw, snip>>

UnregisterOpen(t) ==
    /\ pc[t] = "open"
    /\ wp' = IF wp.w = cwp[t].w /\ wp.lock = 1 THEN Unlocked(wp) ELSE wp
    /\ Unregistered(t)
    /\ UNCHANGED <<store, free, rc, list, leaks, program,
                   tss, ret, cur, arg, chain, fw, snip>>

-----------------------------------------------------------------------------
(* mulle_aba_reset, and the program.                                       *)

\* mulle_aba_done and mulle_aba_init, once every thread has unregistered:
\* the leaks and the current world go, and a new world comes.
Reset ==
    /\ \A t \in Threads : pc[t] = "idle" /\ tss[t] = 0
    /\ leaks' = {}
    /\ LET freed == free \cup leaks \cup {wp.w}
       IN  \E w \in freed : /\ wp'   = Ptr(w, 0)
                            /\ free' = freed \ {w}
    /\ store' = [w \in Worlds |-> IF w \in leaks \cup {wp.w} THEN Blank ELSE store[w]]
    /\ UNCHANGED <<rc, list, program, locals>>

\* The program allocates a released pointer again and links it.
Publish(t, p) ==
    /\ pc[t] = "idle" /\ tss[t] # 0
    /\ pstate[p] = "released"
    /\ pstate' = [pstate EXCEPT ![p] = "linked"]
    /\ UNCHANGED <<library, holders, locals>>

-----------------------------------------------------------------------------

RegisterStep(t) == RegisterLock(t) \/ RegisterSwap(t) \/ RegisterDrop(t)

FreeStep(t) ==
    \/ FreeRead(t) \/ FreeReload(t) \/ FreeSwap(t) \/ FreeRetain(t)
    \/ FreeAppend(t) \/ FreeAppendWorld(t) \/ FreeNow(t)

CheckinStep(t) ==
    \/ Checkin(t) \/ CheckinBit(t) \/ CheckinCopy(t) \/ CheckinRange(t)
    \/ CheckinDecrement(t) \/ CheckinSnip(t) \/ CheckinRelease(t) \/ CheckinDone(t)

UnregisterStep(t) ==
    \/ Unregister(t) \/ UnregisterBegin(t) \/ UnregisterLock(t)
    \/ UnregisterSwap(t) \/ UnregisterFail(t) \/ UnregisterUnlock(t)
    \/ UnregisterLeak(t) \/ UnregisterWipe(t) \/ UnregisterOpen(t)

ProgramStep(t) == \E p \in Pointers : Free(t, p) \/ Publish(t, p)

Next ==
    \/ \E t \in Threads : \/ RegisterStep(t) \/ FreeStep(t) \/ CheckinStep(t)
                          \/ UnregisterStep(t) \/ ProgramStep(t)
    \/ Reset

Spec == Init /\ [][Next]_vars

\* A thread inside a call of the library takes its next step.
CallStep(t) ==
    /\ pc[t] # "idle"
    /\ RegisterStep(t) \/ FreeStep(t) \/ CheckinStep(t) \/ UnregisterStep(t)

\* Threads are scheduled, and a registered thread checks in again and again
\* (dox/API.md: "must be periodically called by all cooperating threads").
Fairness == \A t \in Threads : WF_vars(CallStep(t)) /\ SF_vars(Checkin(t))

-----------------------------------------------------------------------------

\* Every variable has its type.
TypeOK ==
    /\ wp \in WorldPointers
    /\ store \in [Worlds -> Contents]
    /\ free \subseteq Worlds
    /\ rc \in [Timestamps -> Int]
    /\ list \in [Timestamps -> SUBSET Items]
    /\ leaks \subseteq Worlds
    /\ pstate \in [Pointers -> {"linked", "retired", "released"}]
    /\ holders \in [Pointers -> SUBSET Threads]
    /\ tss \in [Threads -> 0 .. MaxTimestamp + 1]
    /\ pc \in [Threads -> Pcs]
    /\ op \in [Threads -> {"none", "register", "free", "checkin", "unregister"}]
    /\ ret \in [Threads -> {"idle", "drop", "range", "ubegin"}]
    /\ new \in [Threads -> 0 .. MaxTimestamp]
    /\ cur \in [Threads -> 0 .. MaxTimestamp + 1]
    /\ owp \in [Threads -> WorldPointers \cup {NoPtr}]
    /\ cwp \in [Threads -> WorldPointers \cup {NoPtr}]
    /\ arg \in [Threads -> Items \cup {Nil}]
    /\ chain \in [Threads -> SUBSET Worlds]
    /\ fw \in [Threads -> SUBSET Worlds]
    /\ snip \in [Threads -> SUBSET Items]

=============================================================================
