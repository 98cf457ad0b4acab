---------------------------- MODULE WorldStorage ----------------------------
(***************************************************************************)
(* The geometry of worlds: the storages that hold the entries of the       *)
(* timestamps, how a free that raises the timestamp finds room for it,     *)
(* by adding a storage, by reusing storages whose timestamps are done, or  *)
(* by growing the world, and how checkins give entries back.               *)
(*                                                                         *)
(* A storage has N entries.  The entry of timestamp T is number T % N of   *)
(* storage (T - offset) / N of the world.  Worlds share their storages;    *)
(* a bit per entry says that the entry is in use.                          *)
(*                                                                         *)
(* The world pointer is kept together with the contents of the world it    *)
(* points to.  An address of a world that is in use is not reused          *)
(* (NoWorldFreedInUse of module Aba), so a thread whose pointer is stale   *)
(* can be told by a flag.  What becomes of the replaced worlds and of the  *)
(* pointers on the lists is module Aba's.                                  *)
(***************************************************************************)
EXTENDS Integers, Sequences, FiniteSets

CONSTANTS
    Threads,        \* the threads of the process
    Storages,       \* the addresses the allocator can return for a storage
    None,           \* no storage: NULL
    N,              \* _mulle_aba_timestampstorage_n_entries
    InitialSize,    \* the size of the first world
    MaxTimestamp    \* bound: no timestamp is raised beyond this

ASSUME StorageAssumption ==
    /\ None \notin Storages
    /\ N \in Nat \ {0, 1}
    /\ InitialSize \in Nat \ {0} /\ MaxTimestamp \in Nat \ {0}

\* A process has finitely many threads.
ASSUME ThreadsAssumption == IsFiniteSet(Threads)

VARIABLES
    \* ---- shared memory -------------------------------------------------
    wp,         \* the world pointer and the world it points to
    bits,       \* _usage_bits of every storage: the set of those that are 1
    rc,         \* _retain_count_1 of every entry of every storage
    list,       \* _pointer_list of every entry: of what was freed, the timestamps
    pool,       \* the storages that are not allocated
    \* ---- local to each thread ------------------------------------------
    tss,        \* the thread's timestamp: last checkin + 1, 0: unregistered
    pc,         \* the next atomic step
    op,         \* the API call in progress
    new,        \* `new' of checkin and unregister
    cur,        \* `timestamp' of the loop in check_timerange
    chain,      \* the length of `dealloced': worlds a registration has to free
    owp,        \* the caller's world pointer: old_world_p, locked_world_p
    ofresh,     \* the threads for which it still is the address in wp
    cwp,        \* the world pointer a free works with: world_p, old_world_p
    cfresh,     \* the threads for which it still is the address in wp
    kind,       \* how a free tries to raise the timestamp
    mine,       \* `new_world': the copy of the world it prepares
    own,        \* `context->ts_storage': the storage it has allocated
    i           \* `i' of the loop in reuse_storages

shared  == <<wp, bits, rc, list, pool>>
calls   == <<tss, op, new, cur, chain, owp>>
freeing == <<cwp, kind, mine, own, i>>
vars    == <<shared, tss, pc, op, new, cur, chain, owp, ofresh,
             cwp, cfresh, kind, mine, own, i>>

Indices    == 0 .. N - 1

NoWorld == [bit |-> 0, lock |-> 0, ts |-> 0, nt |-> 0, off |-> 0, size |-> 0, st |-> <<>>]

Init ==
    /\ wp    = [NoWorld EXCEPT !.size = InitialSize]
    /\ bits  = [s \in Storages |-> {}]
    /\ rc    = [s \in Storages |-> [x \in Indices |-> -1]]
    /\ list  = [s \in Storages |-> [x \in Indices |-> {}]]
    /\ pool  = Storages
    /\ tss   = [t \in Threads |-> 0]
    /\ pc    = [t \in Threads |-> "idle"]
    /\ op    = [t \in Threads |-> "none"]
    /\ new   = [t \in Threads |-> 0]
    /\ cur   = [t \in Threads |-> 0]
    /\ chain = [t \in Threads |-> 0]
    /\ owp   = [t \in Threads |-> NoWorld]
    /\ cwp   = [t \in Threads |-> NoWorld]
    /\ ofresh = {} /\ cfresh = {}
    /\ kind  = [t \in Threads |-> "none"]
    /\ mine  = [t \in Threads |-> NoWorld]
    /\ own   = [t \in Threads |-> None]
    /\ i     = [t \in Threads |-> 0]

-----------------------------------------------------------------------------
(* Looking up entries.                                                     *)

\* _mulle_aba_world_get_timestampstorage_index, counted from 0.
StorageIndex(world, T) == (T - world.off) \div N

HasEntry(world, T) ==
    /\ T # 0 /\ T >= world.off
    /\ StorageIndex(world, T) < Len(world.st)

StorageOf(world, T) == world.st[StorageIndex(world, T) + 1]

Index(T) == T % N

-----------------------------------------------------------------------------
(* Shared building blocks.                                                 *)

Goto(t, label) == pc' = [pc EXCEPT ![t] = label]

\* The world pointer is replaced: only the threads given hold the new one.
Install(world, owners, freers) ==
    /\ wp'     = world
    /\ ofresh' = owners
    /\ cfresh' = freers

\* A free reads the world pointer.
ReadCwp(t) ==
    /\ cwp'    = [cwp EXCEPT ![t] = wp]
    /\ cfresh' = cfresh \cup {t}

\* The entry of timestamp T in a world changes.
UpdateEntry(entries, world, T, value) ==
    [entries EXCEPT ![StorageOf(world, T)][Index(T)] = value]

EntryOf(entries, world, T) == entries[StorageOf(world, T)][Index(T)]

-----------------------------------------------------------------------------
(* _mulle_aba_free_owned_pointer, called by the program and for worlds that *)
(* a registration, a checkin or an unregistration replaced.                 *)

SingleThreaded(world) == world.nt <= 1

\* What the loop does with a world pointer: file the pointer under its
\* timestamp, or raise the timestamp, in a storage that is there, in a new
\* one, or, if the world is full, in one that is found to be unused.
Choice(world) ==
    IF HasEntry(world, world.ts + world.bit)
    THEN IF world.bit = 0 THEN "file" ELSE "increment"
    ELSE IF Len(world.st) < world.size THEN "add" ELSE "count"

Proceed(t, world) ==
    LET choice == Choice(world)
    IN  /\ kind' = [kind EXCEPT ![t] = choice]
        /\ Goto(t, CASE choice = "file"  -> "file"
                     [] choice = "count" -> "scan"
                     [] OTHER            -> "try")

\* Where a free returns to, when `left' worlds remain to be freed.
Caller(t, left) ==
    CASE left > 0             -> "drop"
      [] op[t] = "checkin"    -> "range"
      [] op[t] = "unregister" -> IF new[t] # 0 THEN "range" ELSE "ubegin"
      [] OTHER                -> "idle"

ReturnFromFree(t, left) ==
    /\ Goto(t, Caller(t, left))
    /\ op'   = [op   EXCEPT ![t] = IF Caller(t, left) = "idle" THEN "none" ELSE @]
    /\ cwp'  = [cwp  EXCEPT ![t] = NoWorld]
    /\ cfresh' = cfresh \ {t}
    /\ kind' = [kind EXCEPT ![t] = "none"]
    /\ mine' = [mine EXCEPT ![t] = NoWorld]
    /\ i'    = [i    EXCEPT ![t] = 0]

\* With a single thread nothing is delayed.
FreeNow(t) ==
    /\ pc[t] = "drop" /\ SingleThreaded(wp)
    /\ chain' = [chain EXCEPT ![t] = @ - 1]
    /\ ReturnFromFree(t, chain[t] - 1)
    /\ UNCHANGED <<shared, tss, new, cur, owp, ofresh, own>>

FreeBegin(t) ==
    /\ ~ SingleThreaded(wp)
    /\ \/ /\ pc[t] = "idle" /\ tss[t] # 0
          /\ op' = [op EXCEPT ![t] = "free"]
          /\ UNCHANGED chain
       \/ /\ pc[t] = "drop"
          /\ chain' = [chain EXCEPT ![t] = @ - 1]
          /\ UNCHANGED op
    /\ ReadCwp(t)
    /\ Proceed(t, wp)
    /\ UNCHANGED <<shared, tss, new, cur, owp, ofresh, mine, own, i>>

\* EBUSY: the world has changed, read it again.
FreeReload(t) ==
    /\ pc[t] = "reload"
    /\ ReadCwp(t)
    /\ Proceed(t, wp)
    /\ UNCHANGED <<shared, calls, ofresh, mine, own, i>>

-----------------------------------------------------------------------------
(* copy_change_worldpointer and grow_worldpointer with their callbacks.     *)

\* _mulle_aba_world_discard: the storage allocated for the copy is freed.
\* (Mutants: it is forgotten; without one, NULL is freed.)
DiscardedNot(t)  == pool
DiscardedNull(t) == pool \cup {own[t]}

Discarded(t) == pool \cup ({own[t]} \ {None})

Discard(t) == /\ pool' = Discarded(t)
              /\ own'  = [own EXCEPT ![t] = None]

Busy(t) ==
    /\ Goto(t, "reload")
    /\ Discard(t)
    /\ kind' = [kind EXCEPT ![t] = "none"]
    /\ mine' = [mine EXCEPT ![t] = NoWorld]
    /\ i'    = [i    EXCEPT ![t] = 0]

\* The copy that a callback gets.
Copy(t) == [cwp[t] EXCEPT !.size = IF kind[t] = "grow" THEN mine[t].size ELSE @]

\* size_check_world_for_timestamp_increment.
\* (Mutant: off by one.)
FitsEarly(world) == world.ts - world.off + 2 < Len(world.st) * N

Fits(world) == world.ts - world.off + 1 < Len(world.st) * N

\* pre_check_world_for_timestamp_increment lets the copy pass.
MayRaise(world) == ~ SingleThreaded(world) /\ world.bit = 1

\* _increment_timestamp: the copy gets the next timestamp, its bit is
\* cleared, and no copy is locked.  The usage bit of the timestamp is set in
\* the storage, which other worlds may share, before the copy is swapped in.
Raised(world) == [world EXCEPT !.ts = @ + 1, !.bit = 0, !.lock = 0]

\* (Mutant: the usage bit is not set.)
UsedNot(usage, world) == usage

Used(usage, world) == [usage EXCEPT ![StorageOf(world, world.ts)] = @ \cup {Index(world.ts)}]

\* The copy is complete, but for the next timestamp, if there is room for it.
RaiseTimestamp(t, world, usage) ==
    /\ world.ts < MaxTimestamp
    /\ mine' = [mine EXCEPT ![t] = Raised(world)]
    /\ bits' = Used(usage, Raised(world))
    /\ Goto(t, "cas")

\* EAGAIN, if only one thread is left: free at once; EBUSY, if the bit is
\* not set or there is no room.
TryFail(t) ==
    /\ pc[t] = "try"
    /\ \/ /\ SingleThreaded(Copy(t))
          /\ Discard(t)
          /\ ReturnFromFree(t, chain[t])
       \/ /\ ~ SingleThreaded(Copy(t))
          /\ \/ Copy(t).bit = 0
             \/ kind[t] = "increment" /\ ~ Fits(Copy(t))
             \/ kind[t] = "add" /\ Len(Copy(t).st) >= Copy(t).size
          /\ Busy(t)
          /\ UNCHANGED <<op, cwp, cfresh>>
    /\ UNCHANGED <<wp, bits, rc, list, tss, new, cur, chain, owp, ofresh>>

TryIncrement(t) ==
    /\ pc[t] = "try" /\ kind[t] = "increment"
    /\ MayRaise(Copy(t)) /\ Fits(Copy(t))
    /\ RaiseTimestamp(t, Copy(t), bits)
    /\ UNCHANGED <<wp, rc, list, pool, calls, ofresh, cwp, cfresh, kind, own, i>>

\* (Mutant: pushed to the front.)
PushedInFront(world, s) == [world EXCEPT !.st = <<s>> \o @]

Pushed(world, s) == [world EXCEPT !.st = Append(@, s)]

\* add_storage_and_increment_timestamp: a new storage, or the one that was
\* allocated for an earlier attempt, becomes the last one.
TryAdd(t) ==
    /\ pc[t] = "try" /\ kind[t] \in {"add", "grow"}
    /\ MayRaise(Copy(t)) /\ Len(Copy(t).st) < Copy(t).size
    /\ Fits(Pushed(Copy(t), None))          \* always: NewStorageSuffices
    /\ \/ /\ own[t] # None
          /\ RaiseTimestamp(t, Pushed(Copy(t), own[t]), bits)
          /\ UNCHANGED <<rc, list, pool, own>>
       \/ /\ own[t] = None
          /\ \E s \in pool :
                /\ RaiseTimestamp(t, Pushed(Copy(t), s), [bits EXCEPT ![s] = {}])
                /\ rc'   = [rc   EXCEPT ![s] = [x \in Indices |-> -1]]
                /\ list' = [list EXCEPT ![s] = [x \in Indices |-> {}]]
                /\ pool' = pool \ {s}
                /\ own'  = [own EXCEPT ![t] = s]
    /\ UNCHANGED <<wp, calls, ofresh, cwp, cfresh, kind, i>>

\* reorganize_storage_and_increment_timestamp scans the copy.
TryReorganize(t) ==
    /\ pc[t] = "try" /\ kind[t] = "reorganize"
    /\ MayRaise(Copy(t))
    /\ mine' = [mine EXCEPT ![t] = Copy(t)]
    /\ Goto(t, "scan")
    /\ UNCHANGED <<shared, calls, ofresh, cwp, cfresh, kind, own, i>>

\* (Mutants: every storage before that of the timestamp is taken to be
\* unused; only the offset moves up; a storage is added that was not taken
\* away.)
UnusedAlways(s)         == TRUE
RotatedOffset(world)    == [world EXCEPT !.off = @ + N]
RotatedTwice(world)     == [world EXCEPT !.st = Append(@, Head(@)), !.off = @ + N]

Unused(s)      == bits[s] = {}
ScanEnds(t)    == i[t] = StorageIndex(cwp[t], cwp[t].ts) \/ i[t] >= Len(cwp[t].st)
Rotated(world) == [world EXCEPT !.st = Append(Tail(@), Head(@)), !.off = @ + N]

\* __mulle_aba_world_reuse_storages, counting: one unused storage before
\* that of the timestamp is enough to try, without one the world must grow.
ScanCount(t) ==
    /\ pc[t] = "scan" /\ kind[t] = "count"
    /\ IF ScanEnds(t)
       THEN /\ kind' = [kind EXCEPT ![t] = "grow"]
            /\ mine' = [mine EXCEPT ![t].size = cwp[t].size + 1]
            /\ i'    = [i EXCEPT ![t] = 0]
            /\ Goto(t, "grow")
       ELSE IF Unused(cwp[t].st[i[t] + 1])
            THEN /\ kind' = [kind EXCEPT ![t] = "reorganize"]
                 /\ i'    = [i EXCEPT ![t] = 0]
                 /\ Goto(t, "try")
                 /\ UNCHANGED mine
            ELSE /\ i' = [i EXCEPT ![t] = @ + 1]
                 /\ UNCHANGED <<pc, kind, mine>>
    /\ UNCHANGED <<shared, calls, ofresh, cwp, cfresh, own>>

\* The same, not counting: for every unused storage found, the first one of
\* the copy becomes its last.
ScanReorganize(t) ==
    /\ pc[t] = "scan" /\ kind[t] = "reorganize" /\ ~ ScanEnds(t)
    /\ i'    = [i EXCEPT ![t] = @ + 1]
    /\ mine' = [mine EXCEPT ![t] = IF Unused(@.st[i[t] + 1]) THEN Rotated(@) ELSE @]
    /\ UNCHANGED <<shared, pc, calls, ofresh, cwp, cfresh, kind, own>>

Reorganize(t) ==
    /\ pc[t] = "scan" /\ kind[t] = "reorganize" /\ ScanEnds(t)
    /\ IF mine[t].off = cwp[t].off \/ ~ Fits(mine[t])
       THEN /\ Busy(t)
            /\ UNCHANGED bits
       ELSE /\ RaiseTimestamp(t, mine[t], bits)
            /\ i' = [i EXCEPT ![t] = 0]
            /\ UNCHANGED <<pool, kind, own>>
    /\ UNCHANGED <<wp, rc, list, calls, ofresh, cwp, cfresh>>

\* grow_worldpointer reads the world pointer itself, and leaves it to
\* another thread that was faster.
Grow(t) ==
    /\ pc[t] = "grow"
    /\ IF wp.size >= mine[t].size
       THEN /\ Busy(t)
            /\ UNCHANGED <<cwp, cfresh>>
       ELSE /\ ReadCwp(t)
            /\ Goto(t, "try")
            /\ UNCHANGED <<pool, kind, mine, own, i>>
    /\ UNCHANGED <<wp, bits, rc, list, calls, ofresh>>

\* The compare-and-swap.  If it fails it is tried again with the world that
\* is current now; a storage allocated for a copy of another size is freed.
FreeSwap(t) ==
    /\ pc[t] = "cas" /\ t \in cfresh /\ wp = cwp[t]
    /\ Install(mine[t], {}, {t})
    /\ cwp'  = [cwp  EXCEPT ![t] = mine[t]]
    /\ own'  = [own  EXCEPT ![t] = None]
    /\ Goto(t, "retain")
    /\ UNCHANGED <<bits, rc, list, pool, calls, kind, mine, i>>

FreeSwapFail(t) ==
    /\ pc[t] = "cas" /\ ~ (t \in cfresh /\ wp = cwp[t])
    /\ IF kind[t] = "grow"
       THEN /\ Goto(t, "grow")
            /\ UNCHANGED <<cwp, cfresh, pool, own>>
       ELSE /\ Goto(t, "try")
            /\ ReadCwp(t)
            /\ IF wp.size = mine[t].size THEN UNCHANGED <<pool, own>> ELSE Discard(t)
    /\ UNCHANGED <<wp, bits, rc, list, calls, ofresh, kind, mine, i>>

-----------------------------------------------------------------------------
(* Using the entry of the timestamp.                                       *)

\* The threads to wait for are added, and the loop comes round once more.
FreeRetain(t) ==
    /\ pc[t] = "retain"
    /\ LET world == cwp[t]
       IN  rc' = UpdateEntry(rc, world, world.ts, EntryOf(rc, world, world.ts) + world.nt)
    /\ Proceed(t, cwp[t])
    /\ mine' = [mine EXCEPT ![t] = NoWorld]
    /\ UNCHANGED <<wp, bits, list, pool, calls, ofresh, cwp, cfresh, own, i>>

FreeFile(t) ==
    /\ pc[t] = "file"
    /\ LET world == cwp[t]
       IN  list' = UpdateEntry(list, world, world.ts,
                               EntryOf(list, world, world.ts) \cup {world.ts})
    /\ ReturnFromFree(t, chain[t])
    /\ UNCHANGED <<wp, bits, rc, pool, tss, new, cur, chain, owp, ofresh, own>>

-----------------------------------------------------------------------------
(* mulle_aba_register.                                                     *)

RegisterLock(t) ==
    /\ \/ pc[t] = "idle" /\ tss[t] = 0
       \/ pc[t] = "lock"
    /\ wp.lock = 0
    /\ wp'  = [wp EXCEPT !.lock = 1]
    /\ owp' = [owp EXCEPT ![t] = wp']
    /\ ofresh' = ofresh \cup {t}
    /\ op'  = [op EXCEPT ![t] = "register"]
    /\ Goto(t, "join")
    /\ UNCHANGED <<bits, rc, list, pool, tss, new, cur, chain, cfresh, freeing>>

\* Either way the world that was locked is for this thread to free.
RegisterSwap(t) ==
    /\ pc[t] = "join"
    /\ chain' = [chain EXCEPT ![t] = @ + 1]
    /\ owp'   = [owp EXCEPT ![t] = NoWorld]
    /\ IF t \in ofresh /\ wp = owp[t]
       THEN /\ Install([wp EXCEPT !.nt = @ + 1, !.bit = 1, !.lock = 0], {}, {})
            /\ tss' = [tss EXCEPT ![t] = wp.ts + 1]
            /\ Goto(t, "drop")
       ELSE /\ ofresh' = ofresh \ {t}
            /\ Goto(t, "lock")
            /\ UNCHANGED <<wp, cfresh, tss>>
    /\ UNCHANGED <<bits, rc, list, pool, op, new, cur, freeing>>

-----------------------------------------------------------------------------
(* mulle_aba_checkin, and the checkin of mulle_aba_unregister.             *)

BeginCheckin(t) ==
    /\ tss[t] <= wp.ts
    /\ new'    = [new EXCEPT ![t] = wp.ts]
    /\ owp'    = [owp EXCEPT ![t] = wp]
    /\ ofresh' = ofresh \cup {t}
    /\ Goto(t, IF wp.lock = 1 THEN "copy" ELSE IF wp.bit = 1 THEN "range" ELSE "bit")

Checkin(t) ==
    /\ pc[t] = "idle" /\ tss[t] # 0
    /\ op' = [op EXCEPT ![t] = "checkin"]
    /\ BeginCheckin(t)
    /\ UNCHANGED <<shared, tss, cur, chain, cfresh, freeing>>

\* change_worldpointer sets the bit of an unlocked world in place.
CheckinBit(t) ==
    /\ pc[t] = "bit"
    /\ IF wp.lock = 1
       THEN /\ Goto(t, "copy")
            /\ UNCHANGED <<wp, owp, ofresh>>
       ELSE /\ wp'  = [wp EXCEPT !.bit = 1]
            /\ owp' = [owp EXCEPT ![t] = wp']
            /\ ofresh' = ofresh \cup {t}
            /\ Goto(t, "range")
    /\ UNCHANGED <<bits, rc, list, pool, tss, op, new, cur, chain, cfresh, freeing>>

\* copy_change_worldpointer replaces it by an unlocked copy, and the world
\* is freed unless it was locked.
CheckinCopy(t) ==
    /\ pc[t] = "copy"
    /\ Install([wp EXCEPT !.bit = 1, !.lock = 0], {t}, {})
    /\ owp'   = [owp EXCEPT ![t] = wp']
    /\ chain' = [chain EXCEPT ![t] = 1 - wp.lock]
    /\ Goto(t, IF wp.lock = 1 THEN "range" ELSE "drop")
    /\ UNCHANGED <<bits, rc, list, pool, tss, op, new, cur, freeing>>

\* checkin looks the entries up in the world that is current now, unregister
\* in the one its swap returned.
CheckinRange(t) ==
    /\ pc[t] = "range"
    /\ IF op[t] = "checkin"
       THEN /\ owp'    = [owp EXCEPT ![t] = wp]
            /\ ofresh' = ofresh \cup {t}
       ELSE UNCHANGED <<owp, ofresh>>
    /\ cur' = [cur EXCEPT ![t] = IF owp'[t].ts = 0 THEN new[t] + 1 ELSE tss[t]]
    /\ Goto(t, "dec")
    /\ UNCHANGED <<shared, tss, op, new, chain, cfresh, freeing>>

\* The last thread to check in empties the entry.
CheckinDecrement(t) ==
    /\ pc[t] = "dec" /\ cur[t] <= new[t]
    /\ LET count == EntryOf(rc, owp[t], cur[t])
       IN  /\ rc' = UpdateEntry(rc, owp[t], cur[t], count - 1)
           /\ IF count = 0
              THEN /\ Goto(t, "snip")
                   /\ UNCHANGED cur
              ELSE /\ cur' = [cur EXCEPT ![t] = @ + 1]
                   /\ UNCHANGED pc
    /\ UNCHANGED <<wp, bits, list, pool, tss, op, new, chain, owp, ofresh, cfresh, freeing>>

CheckinSnip(t) ==
    /\ pc[t] = "snip"
    /\ list' = UpdateEntry(list, owp[t], cur[t], {})
    /\ Goto(t, "clear")
    /\ UNCHANGED <<wp, bits, rc, pool, calls, ofresh, cfresh, freeing>>

\* (Mutant: all bits of the storage are cleared.)
ClearedAll(world, T) == [bits EXCEPT ![StorageOf(world, T)] = {}]

Cleared(world, T) == [bits EXCEPT ![StorageOf(world, T)] = @ \ {Index(T)}]

CheckinClear(t) ==
    /\ pc[t] = "clear"
    /\ bits' = Cleared(owp[t], cur[t])
    /\ cur'  = [cur EXCEPT ![t] = @ + 1]
    /\ Goto(t, "dec")
    /\ UNCHANGED <<wp, rc, list, pool, tss, op, new, chain, owp, ofresh, cfresh, freeing>>

CheckinDone(t) ==
    /\ pc[t] = "dec" /\ cur[t] > new[t]
    /\ tss' = [tss EXCEPT ![t] = new[t] + 1]
    /\ cur' = [cur EXCEPT ![t] = 0]
    /\ IF op[t] = "checkin"
       THEN /\ Goto(t, "idle")
            /\ op'  = [op  EXCEPT ![t] = "none"]
            /\ new' = [new EXCEPT ![t] = 0]
            /\ owp' = [owp EXCEPT ![t] = NoWorld]
            /\ ofresh' = ofresh \ {t}
       ELSE /\ Goto(t, "ulock")
            /\ UNCHANGED <<op, new, owp, ofresh>>
    /\ UNCHANGED <<shared, chain, cfresh, freeing>>

-----------------------------------------------------------------------------
(* mulle_aba_unregister.                                                   *)

UnregisterBegin(t) ==
    /\ \/ pc[t] = "idle" /\ tss[t] # 0
       \/ pc[t] = "ubegin"
    /\ op' = [op EXCEPT ![t] = "unregister"]
    /\ \/ BeginCheckin(t)
       \/ /\ tss[t] > wp.ts
          /\ new'    = [new EXCEPT ![t] = wp.ts]
          /\ owp'    = [owp EXCEPT ![t] = wp]
          /\ ofresh' = ofresh \cup {t}
          /\ Goto(t, "ulock")
    /\ UNCHANGED <<shared, tss, cur, chain, cfresh, freeing>>

Forget(t) ==
    /\ new'    = [new EXCEPT ![t] = 0]
    /\ owp'    = [owp EXCEPT ![t] = NoWorld]
    /\ ofresh' = ofresh \ {t}

UnregisterLock(t) ==
    /\ pc[t] = "ulock"
    /\ IF t \in ofresh /\ wp.lock = 0 /\ owp[t].lock = 0
       THEN /\ wp'  = [wp EXCEPT !.lock = 1]
            /\ owp' = [owp EXCEPT ![t] = wp']
            /\ Goto(t, "leave")
            /\ UNCHANGED <<new, ofresh>>
       ELSE /\ Forget(t)
            /\ Goto(t, "ubegin")
            /\ UNCHANGED wp
    /\ UNCHANGED <<bits, rc, list, pool, tss, op, cur, chain, cfresh, freeing>>

\* The world in its initial state. (Mutant: with its storages.)
ResetKeeping(world) == [NoWorld EXCEPT !.size = world.size, !.st = world.st]

ResetWorld(world) == [NoWorld EXCEPT !.size = world.size]

\* remove_thread: a copy with a thread less, or, for the last thread, one in
\* its initial state, which stays locked until the storages are freed.
MayLeave(t) == t \in ofresh /\ wp = owp[t] /\ wp.ts = new[t]

UnregisterSwap(t) ==
    /\ pc[t] = "leave" /\ MayLeave(t)
    /\ tss' = [tss EXCEPT ![t] = 0]
    /\ IF wp.nt > 1
       THEN /\ Install([wp EXCEPT !.nt = @ - 1, !.bit = 1, !.lock = 0], {}, {})
            /\ new' = [new EXCEPT ![t] = 0]
            /\ owp' = [owp EXCEPT ![t] = NoWorld]
            /\ op'  = [op  EXCEPT ![t] = "none"]
            /\ Goto(t, "idle")
       ELSE /\ Install([ResetWorld(wp) EXCEPT !.lock = 1], {}, {})
            /\ Goto(t, "wipe")
            /\ UNCHANGED <<new, owp, op>>
    /\ UNCHANGED <<bits, rc, list, pool, cur, chain, freeing>>

\* Start over: take off the lock, or if the locked world was replaced free
\* it.
UnregisterFail(t) ==
    /\ pc[t] = "leave" /\ ~ MayLeave(t)
    /\ Forget(t)
    /\ IF t \in ofresh
       THEN /\ wp' = [wp EXCEPT !.lock = 0]
            /\ Goto(t, "ubegin")
            /\ UNCHANGED chain
       ELSE /\ chain' = [chain EXCEPT ![t] = 1]
            /\ Goto(t, "drop")
            /\ UNCHANGED wp
    /\ UNCHANGED <<bits, rc, list, pool, tss, op, cur, cfresh, freeing>>

StoragesOf(world) == {world.st[k] : k \in DOMAIN world.st}

\* The last thread frees the storages of the world it locked.
UnregisterWipe(t) ==
    /\ pc[t] = "wipe"
    /\ pool' = pool \cup StoragesOf(owp[t])
    /\ wp'   = [wp EXCEPT !.lock = 0]
    /\ Forget(t)
    /\ op' = [op EXCEPT ![t] = "none"]
    /\ Goto(t, "idle")
    /\ UNCHANGED <<bits, rc, list, tss, cur, chain, cfresh, freeing>>

-----------------------------------------------------------------------------

FreeStep(t) ==
    \/ FreeNow(t) \/ FreeBegin(t) \/ FreeReload(t)
    \/ TryFail(t) \/ TryIncrement(t) \/ TryAdd(t) \/ TryReorganize(t)
    \/ ScanCount(t) \/ ScanReorganize(t) \/ Reorganize(t) \/ Grow(t)
    \/ FreeSwap(t) \/ FreeSwapFail(t) \/ FreeRetain(t) \/ FreeFile(t)

CheckinStep(t) ==
    \/ Checkin(t) \/ CheckinBit(t) \/ CheckinCopy(t) \/ CheckinRange(t)
    \/ CheckinDecrement(t) \/ CheckinSnip(t) \/ CheckinClear(t) \/ CheckinDone(t)

RegisterStep(t) == RegisterLock(t) \/ RegisterSwap(t)

UnregisterStep(t) ==
    \/ UnregisterBegin(t) \/ UnregisterLock(t) \/ UnregisterSwap(t)
    \/ UnregisterFail(t) \/ UnregisterWipe(t)

Next == \E t \in Threads : RegisterStep(t) \/ FreeStep(t) \/ CheckinStep(t) \/ UnregisterStep(t)

Spec == Init /\ [][Next]_vars

=============================================================================
