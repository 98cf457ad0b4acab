# mulle-aba in TLA+

mulle-aba is a small C library that delays `free`: a pointer that lock-free code
has unlinked is released only when no thread can still be using it. Threads
*register*, *check in* now and then, and *unregister*; everything is coordinated by
one atomic word and a compare-and-swap. This directory holds a model of the
library in three parts - how threads reclaim memory (`Aba`), where the
timestamps of a world are kept (`WorldStorage`), what numbers do at their limits
(`TimestampWidth`) - model-checked with TLC, and proofs about each checked by TLAPS.

Source references are to `src/mulle-aba.c` (A), `src/mulle-aba-storage.c` (S) and
`src/mulle-aba-storage.h` (H).

## The system

### Parts and their state

| part | state | operations |
|---|---|---|
| world pointer (H:200, S:975) | one atomic word: address of the current *world*, a **bit** (someone checked in since the timestamp was raised) and a **lock** (someone registers or unregisters) | compare-and-swap: set the bit, set or clear the lock, swap in a copy |
| world (H:260) | `_timestamp`, `_n_threads`, `_offset`, `_n`, `_size`, `_storage[]`; never changed once published | allocated, copied, freed through the library itself |
| timestamp storage (H:93) | a block of entries, shared by all worlds that point to it; `_usage_bits`, one per entry | allocated for a copy of a world, moved to the end of a copy to be reused, freed with a copy that is given up or by the last thread |
| timestamp entries (H:93) | for each timestamp `_retain_count_1` (the count less one) and `_pointer_list` | add the number of threads, decrement, append, read and clear |
| storage of an instance (H:339) | world pointer, `_leaks`, caches `_free_entries` and `_free_worlds` | init, done, leak list |
| thread | its timestamp in thread local storage: last checkin + 1, 0 if not registered | register, checkin, free, unregister |

### How they interact

* **register** (A:231, S:1165) locks the current world, copies it with one more
  thread and the bit set, swaps the copy in, and frees every world it locked.
* **checkin** (A:298) sets the bit of the world pointer (or, if it is locked, swaps in
  an unlocked copy and frees the old world unless it is locked), then decrements the
  retain counts of all timestamps since the thread's last checkin. Whoever finds
  a count of 0 releases what waits there.
* **free** (A:848) appends to the list of the current timestamp if nobody has checked in for it
  yet (bit clear). Otherwise it first swaps in a copy with the next
  timestamp and adds the number of threads to the new retain count. If there
  is only one thread it calls the callback at once. The next timestamp needs an
  entry: the copy gets one more storage (A:750), or reuses storages at its front
  whose usage bits are all clear (A:807), or is made larger (S:1370).
* **unregister** (A:432) checks in, locks the world it checked in for, and swaps in a copy
  with one thread less; if anything changed in between it starts over. The
  replaced world goes to a leak list; the last thread frees the leak list and the
  storages.

Worlds are memory like any other: the library frees them *through itself*, as pointers on
the same lists.

### What is hard

Free and checkin ignore the lock, so a locked world can be replaced by an unlocked copy, a
second thread can lock that, and several registrations are under way at the same
time. Retain counts are added after the timestamp is visible, and go negative on
the way. Lists are snipped off in two steps without atomicity. World addresses are reused, so
that a compare-and-swap could succeed on the wrong world: the ABA problem inside the library
that solves it.

Storages are shared: a free sets a usage bit in a storage before it knows whether its copy will become
the world, and reads usage bits that checkins are clearing to decide which storages it may
take for later timestamps, while slower threads look up entries through worlds
that were replaced long ago. A failed swap leaves a storage that was allocated for a world of
another size, to be freed, kept or used in five different places. `PROJECT.json` lists
these hazards at their lines.

## Modules

| module | what it is |
|---|---|
| `GracePeriod` | the promise to the program: a retired pointer is released only after every thread that was running has let go; no worlds, timestamps or counts |
| `Aba` | the library and a program that uses it, one action per atomic step |
| `AbaProperties` | invariants, action properties, liveness; `Aba` implements `GracePeriod` |
| `MCAba` | instances for TLC: symmetry, a view, start states in the middle |
| `MCAbaAlone` | an instance in which all threads but one may stop for good |
| `AbaProofs` | types of `Aba`, and who may call a free |
| `AbaInvariant` | what the threads rely on: the inductive invariant of `Aba` |
| `AbaOwnership`, `AbaCounting` | its proof: owners and the lock; timestamps and retain counts |
| `AbaSafety` | the rest of it, lists, worlds and pointers that may be in use, and the theorems about `Aba`: the properties of `AbaProperties`, and the refinement of `GracePeriod` |
| `TimestampEntries` | what storages are for: every timestamp has an entry of its own, in its initial state when it is raised |
| `WorldStorage` | the geometry of worlds, one action per atomic step |
| `WorldStorageProperties` | invariants; `WorldStorage` implements `TimestampEntries` |
| `MCWorldStorage`, `MCWorldStorageAlone` | instances for TLC |
| `WorldStorageProofs` | theorems about `WorldStorage`: types, sizes and who owns a storage |
| `WorldStorageInvariant` | what the threads rely on when they look up, count, reuse and clear entries: the inductive invariant of `WorldStorage` |
| `EntriesGeometry`, `EntriesProofs` | its proof: the steps that leave the entries alone, and those that do not; the theorems about entries, and the refinement of `TimestampEntries` |
| `TimestampWidth`, `MCTimestampWidth` | timestamps of a given width, compared as signed numbers, and an instance |
| `TimestampWidthProofs` | theorems about `TimestampWidth` |

`Aba` and `WorldStorage` divide the library between them. `Aba` has the addresses of worlds, the program's pointers
and the leak list, and takes a timestamp to be its own entry. `WorldStorage` has the
entries and how room is found for them, and leaves the fate of replaced
worlds to `Aba`. What `Aba` assumes of entries is written down in `TimestampEntries`,
and `WorldStorage` is shown to implement it; what `WorldStorage` assumes of addresses is
`NoWorldFreedInUse`, checked in `Aba`.

### `Aba`: state and actions

The shared variables are `wp` (world pointer), `store` (`_timestamp` and `_n_threads` of every
world), `free` (addresses not allocated), `rc`, `list` and `leaks`. A thread
has its timestamp `tss`, a program counter `pc`, the call `op` it is in, and the C local variables
that outlive a step (`new`, `cur`, `owp`, `cwp`, `arg`, `chain`, `fw`, `snip`).
A step is one access to shared memory that another thread could see or influence; a
read and the compare-and-swap that depends on it are two steps. Thread-local work between them
belongs to the step before it.

| action | code |
|---|---|
| `RegisterLock`, `RegisterSwap`, `RegisterDrop` | `lock_worldpointer` S:1139, `copy_lock_worldpointer` S:1165, `free_world_chain` A:122 |
| `Free`, `FreeRead`, `FreeReload`, `FreeSwap`, `FreeRetain`, `FreeAppend`, `FreeAppendWorld`, `FreeNow` | `_mulle_aba_free_owned_pointer` A:848-1071, with `increment_timestamp` A:718 |
| `Checkin`, `CheckinBit`, `CheckinCopy`, `CheckinRange`, `CheckinDecrement`, `CheckinSnip`, `CheckinRelease`, `CheckinDone` | `_mulle_aba_checkin_current_thread` A:298, `change_worldpointer` S:993, `copy_change_worldpointer` S:1285, `check_timerange` S:1481 |
| `Unregister` ... `UnregisterOpen` | `_mulle_aba_unregister_current_thread` A:432, `remove_thread` A:359, `try_set_lock_worldpointer` S:1090 |
| `Reset` | `mulle_aba_reset`, or `mulle_aba_done` and `mulle_aba_init`, A:1163-1208 |
| `Publish` | the program links a new object at a released address |

The nested calls are real: `RegisterDrop`, `CheckinCopy` and
`UnregisterUnlock` call the free machinery for a world (`CallFree`) and go on at
`ret` afterwards. The checkin steps are shared by checkin and unregister as in the
code.

`pstate` and `holders` are the program: `holders[p]` are the threads that may
still use pointer `p` because they were running user code when it was
unlinked. A thread gives up its holds when it begins a checkin or an unregister (the
comment at A:323: "we promise not to read the old stuff anymore").

### `WorldStorage`: state and actions

`wp` is the world pointer together with the world it points to: bit, lock, timestamp `ts`, number of threads `nt`, offset
`off`, `size` and the sequence `st` of its storages. Per storage there are `bits` (the usage bits that are 1), `rc`
and `list`; `pool` are the storages that are not allocated. What is filed in a list is
only remembered as the timestamp it was freed at, so that a pointer in a reused entry can be told.

| action | code |
|---|---|
| `FreeBegin`, `FreeReload`, `FreeNow`; `Choice` | `_mulle_aba_free_owned_pointer` A:848-957, after EBUSY A:995 |
| `TryIncrement`, `TryAdd`, `TryReorganize`, `TryFail` | the callbacks A:718, A:750, A:807 and their checks A:646-698, under `copy_change_worldpointer` S:1285 |
| `ScanCount`, `ScanReorganize`, `Reorganize` | `__mulle_aba_world_reuse_storages` S:1555, S:1604, one usage word read per step |
| `Grow` | `_mulle_aba_storage_grow_worldpointer` S:1370 |
| `FreeSwap`, `FreeSwapFail` | the compare-and-swap and its retry S:1305-1366 |
| `FreeRetain`, `FreeFile` | A:959, A:1026 |
| `RegisterLock`, `RegisterSwap` | S:1139, S:1165, A:196 |
| `Checkin`, `CheckinBit`, `CheckinCopy`, `CheckinRange`, `CheckinDecrement`, `CheckinSnip`, `CheckinClear`, `CheckinDone` | A:298, S:1481; `CheckinClear` clears the usage bit |
| `UnregisterBegin`, `UnregisterLock`, `UnregisterSwap`, `UnregisterFail`, `UnregisterWipe` | A:432; `UnregisterWipe` frees the storages A:571 |

`kind` is how a free tries to raise the timestamp, `mine` the copy it prepares (`new_world`), and `own` the storage
it has allocated and not yet got into the world (`context->ts_storage`). `chain` is how many worlds
a registration, a checkin or an unregistration has still to free: each is a free of its own that may raise the timestamp again.

* The contents of a world do not change while a thread refers to it, so a thread's local world pointer `cwp` or `owp` is
  a copy of the world. `cfresh` and `ofresh` are the threads whose local pointer is the address in
  `wp` now; a compare-and-swap compares that, bit and lock. An address cannot come back meanwhile
  (`NoWorldFreedInUse`).
* Loops that read the world pointer and swap in a copy that depends on nothing else (`CheckinCopy`) are
  one step, the iteration that succeeds. The loop of a free is not: its callbacks have effects that a failed swap leaves behind.
* A storage is cleared when it is allocated; the view of the TLC runs leaves out what is in those that are not.

### `TimestampWidth`

Timestamps of `Width` bits, with calls as atomic steps: the unsigned increment that skips 0 (A:259, A:708), the
signed comparison of checkin and unregister (A:302-321), and the unsigned loop between. `owing` is the
program's side: the threads that have not called checkin or unregister since a timestamp was last freed at.

### Abstractions

* In `Aba` a timestamp is its own entry. Adding or growing a storage is then the same
  swap as `FreeSwap`.
* A new world is allocated in the step that swaps it in, and a copy that fails to be swapped in is
  not represented. The code allocates earlier, which takes addresses out of
  circulation earlier; the model reuses addresses at least as eagerly.
* Both ways to get a world's memory back (cache and allocator) make the address available at once.
* The contents of a world never change after it is published, so reading `store[cwp[t].w]` when it is used
  is reading it when the pointer was read - provided it has not been freed, which
  `NoWorldFreedInUse` checks.
* A list is a set: order within it matters to nobody but the callbacks.
* Compare-and-swap does not fail spuriously, and memory is sequentially consistent.
* `malloc` never fails. An action that needs a world or a timestamp beyond the bounds waits.
* The program checks in and unregisters outside of callbacks, and a free callback does not call the library.

### Bounds

`Threads` (2 or 3), `Pointers` (1 or 2), `Worlds` (how many addresses there are,
including the current, the leaked and the waiting ones) and `MaxTimestamp`. A
thread that needs a world when `free` is empty, or a timestamp above `MaxTimestamp`,
cannot take its step; runs therefore set `CHECK_DEADLOCK FALSE`.
Threads may also simply stop. `Newcomers` says which threads of a run that starts in the middle are not
registered yet.

In `WorldStorage`, `N` = 2 entries per storage and a first world of `InitialSize` = 1 storage are the values of
a debug build. Four storages and timestamps up to 9 are what it takes to rotate one storage several times and two
at once (which needs a timestamp of at least 8); `storages_life` takes timestamps up to 4, where two
storages no longer do and the world grows again or reuses its first one. `storages_alone` ends at 7 and has no symmetry. Where a run asks for liveness the
bounds do not help: `Room` in the property says that the thread was not held up by them.

In `TimestampWidth`, `Width` = 4; `Last` = 7 is the end of the lower half, 8 the first timestamp of the upper.

Symmetry covers threads, pointers and storages. World addresses are interchangeable too, but too many
for a symmetry set: `View` in `MCAba` describes a world by its contents and by everything that
refers to it and forgets the name.

## Runs

| run | instance | shows |
|---|---|---|
| `life` | 2 threads, 1 pointer, 7 worlds, timestamps to 2, from `Init` | the whole life cycle, any number of times, with the last thread's clean-up, the leak list and reset: types, ownership of worlds, nothing freed in use, legal transitions, and that `Aba` implements `GracePeriod` |
| `leave` | 3 registered threads, 1 pointer, 5 worlds, timestamps to 4 | free, checkin and unregister against each other until the last thread has left; also `Safe`, the invariant that the proofs are about |
| `join` | 2 registered threads and a newcomer, 1 pointer, 4 worlds, timestamps to 3 | a registration in competition with free, checkin and unregister: locked worlds are replaced |
| `running` | 2 registered threads, 2 pointers | liveness: every freed pointer is released |
| `alone` | a registered thread and a newcomer, one of which runs; 5 worlds, timestamps to 3 | liveness: free and checkin end when the other thread stops for good wherever it is, register and unregister unless it stopped in one of these |
| `storages_life` | 2 threads, 4 storages, timestamps to 4, from `Init` | storages are added, worlds grow, and the last thread gives everything back, any number of times: types, sizes, ownership of storages, stale worlds, and that entries are those of `TimestampEntries` |
| `storages_running` | 2 registered threads, 4 storages, timestamps to 9 | rotation under threads that lag behind: no entry that is awaited is lost or reused; also `Sound`, the invariant that the proofs are about |
| `storages_alone` | the same with timestamps to 7, one thread running | liveness: the loop of a free ends whatever state the other thread stopped in |
| `width_lower` | 3 threads, timestamps of 4 bits up to 7 | what is freed is exactly what all threads have relinquished |
| `width_upper` | the same up to 8 | a violation, see Findings |
| `one_registration` | as `join` | a violation, see Findings |
| `unique_timestamp` | 2 threads | a violation, see Findings |

Three threads are what it takes for one to hold a replaced lock, one to replace it and one to take the
new lock. Four or five timestamps and worlds are enough for a thread to lag
several timestamps behind, for a list to be emptied and for its world to be allocated again
while another thread is still in the middle of a step on an older one.
`life` starts at `Init` with two threads, where the single-threaded shortcuts, the last thread and its
clean-up come up all the time; with a third thread the same instance is out of reach, and `leave` and `join`
start from the state after registration (`VeteransRegistered`, which is reached by registering and checking in
in turn).

### Properties

* `NoEarlyRelease`, `PointerWaitsOnce`, `EventuallyReleased`: the promise to the program,
  safety and liveness. `ImplementsGracePeriod` is the safety part as a refinement.
* `WorldHasOneOwner`: at any time each world is free, current, leaked, on one list or in
  the hands of one thread, so it is neither freed twice nor lost. (A comment at S:492 suspects that
  worlds occur on lists multiple times: no interleaving of the model does that.)
* `NoWorldFreedInUse`: no address in a local variable of a thread has been
  freed. This is what makes unlocked reads and the compare-and-swap on reused addresses right.
* `RetainCountsCheckins`, `BitClearUntilCheckin`, `ListIsAwaited`, `SnipIsWholeList`: the counting argument,
  from which the others follow.
* `WorldCountsThreads`, `LockHasOneOwner`, `WipeLosesNothing`, `TimestampAdvances`, `CallerIsRegistered`: registration and
  unregistration.
* `SwapsAreValid`: the transition table of the authors (`assert_valid_transition` S:713,
  `dox/states.dot`), for all interleavings. For the lock transition the code only
  looks at bit and lock; the model applies the full table.
* `FreeAndCheckinEnd`, `RegisterAndUnregisterEnd`: what `dox/API.md` calls lock-free (:155, :173) and
  "soft-blocking" (:107, :143). Two threads that unregister can keep each other starting over for as long as both run;
  the property excludes it.
* `AwaitedHaveEntries`, `AwaitedAreInUse`: the entry of a timestamp somebody has still to check in for is in the current
  world and its usage bit is set.
* `StaleWorldsAgree`: a thread with an old world finds an entry in the storage where the current world has it.
* `EntriesCountCheckins`: the counting argument over storages, in spite of reuse.
* `CurrentTimestampFits`, `NewStorageSuffices`: `_mulle_aba_world_assert_sanity`, and that a storage that was added is
  enough, which `grow_worldpointer` takes for granted.
* `Sound`: the inductive invariant of the storages, see Proofs.
* `StoragesHaveOneOwner`: every storage is with the allocator, in the current world once, or in the hands of one thread.
* `ImplementsTimestampEntries`, and `StepsImplementTimestampEntries` for the run that starts in the middle: the refinement.
* `FreeLoopEnds`: a way to raise the timestamp that is chosen for a world is not refused for the same world for ever.
* `FreesWhatIsRelinquished`, `KeepsWhatIsNot`: what a checkin frees, by number.

### Fairness

`Fairness` is weak fairness of `CallStep` for each thread, that is, the operating
system does not stop a thread inside the library for ever, and strong fairness of `Checkin`, the
one demand on the program ("must be periodically called by all cooperating threads", `dox/API.md`). Strong,
because a thread that frees again and again is busy in between: it still has to check in.
`FairRunning` leaves registration out and lets each pointer be freed once,
so that the bound on timestamps never blocks a step.

`alone` and `storages_alone` assume weak fairness of the steps of one thread and nothing else: the others
may stop at any point, also with the lock set. Their allocator returns the lowest free
address (`InOrder`), which keeps the state space small; names make no difference to progress.

## Findings

* `dox/API.md:102` says that only one thread can be registering or unregistering at once while the others
  loop. A free or a checkin replaces the locked world by an unlocked one, so that a second thread starts its
  own registration while the first is at work on its copy. The compare-and-swap of one of them fails, so it does
  no harm (`LockHasOneOwner`, `WorldHasOneOwner`), but the exclusion that is documented does not exist.
* `asset/dox/api/toc/index.md:16` and `:68` say that each thread has a unique timestamp. Threads that
  register without a raise of the timestamp in between have the same one; the algorithm does not need them to be unique.
* `mulle_aba_checkin` compares its timestamp and that of the world as `intptr_t` (A:302-321), but they count up as
  `uintptr_t`. When the world's timestamp enters the upper half of the range it is negative, a thread
  that is behind takes itself to be up to date, and nothing freed from then on is released by a checkin (`width_upper`).
  With 32 bits that is after 2^31 raises.

## Proofs

For every value of the constants it is proved

* of `Aba`, where calls interleave step by step: every safety property that a passing run checks, and that it
  implements `GracePeriod`;
* of `WorldStorage`: every safety property that a passing run checks, and that it implements `TimestampEntries`;
* of calls taken as atomic steps (`TimestampWidth`): what numbers do to the counting argument.

### `AbaProofs`

For any finite set of threads, any sets of pointers and worlds and any `MaxTimestamp`, and from
`ConstantsAssumption` alone, as everything about `Aba` below:

* `TypeCorrect`: `Spec => []TypeOK`.
* `FreeIsCalledRegistered`: `Spec => []CallerIsRegistered`, the assertion at A:875.

`TypeOK` is not inductive. `FreeRetain` indexes `rc` by the timestamp of the world `cwp[t]`, so
`cwp[t]` must name a world at that step; `CheckinSnip` reads a list at `cur[t] - 1`; a free that
returns continues at `ret[t]`. `CallsAreConsistent` says for every program counter which local
variables hold a world, an item or a timestamp, and whether the thread is registered. The
inductive invariant is `IInv == TypeOK /\ CallsAreConsistent`; `InitIInv`, one lemma per operation with a step per
action, `ResetIInv` and `NextIInv` prove it, and both theorems follow.

### `AbaSafety`

| theorem | property |
|---|---|
| `NothingIsReleasedEarly`, `PointersWaitOnce` | `NoEarlyRelease`, `PointerWaitsOnce` |
| `GracePeriodIsKept` | `ImplementsGracePeriod` |
| `WorldsInUseAreKept`, `WorldsHaveOneOwner` | `NoWorldFreedInUse`, `WorldHasOneOwner` |
| `RetainCountsAreExact`, `BitTellsOfCheckins` | `RetainCountsCheckins`, `BitClearUntilCheckin` |
| `ListsAreAwaited`, `SnipsAreWholeLists`, `WipesLoseNothing` | `ListIsAwaited`, `SnipIsWholeList`, `WipeLosesNothing` |
| `ThreadsAreCounted`, `LocksHaveOneOwner`, `TimestampsAdvance` | `WorldCountsThreads`, `LockHasOneOwner`, `TimestampAdvances` |
| `SwapsFollowTheGraph` | `SwapsAreValid` |
| `ThreadsAgree` | `Safe` |

None of these properties is inductive, and no small group of them is: that a world in use is not freed depends on
retain counts, these on nobody getting ahead of the timestamp, that on the bit, and the bit on worlds in use not being
freed and reused under a compare-and-swap. The invariant is therefore one,
`Inv == IInv /\ Safe /\ Owned`, with `AlwaysInv: Spec => []Inv`; every theorem follows from it in a few steps. The run `leave` checks
`Safe` on an instance. Its parts, in `AbaInvariant`, and the argument for each:

* **Owners** (`Owned`, in `AbaOwnership`). There are a function `k` that gives every world and pointer the place
  it is in, and a function `h` that gives it the thread or the timestamp that place belongs to. As both are functions
  nothing is in two places, and no cardinality has to be counted step by step: a step that moves an item is an update of `k` and
  `h`. `WorldHasOneOwner` and `PointerWaitsOnce` are read off them at the end.
* **The lock** (`LocalsAgree`, `LockAgrees`, `LastIsAlone`, in `AbaOwnership`). Of the threads that have locked a
  world exactly one has locked the current one, if that is locked; the others have a world that was replaced, and own it.
  A world whose address was reused cannot be mistaken for the one that was locked, because a thread refers to no world that is free. The
  thread that wipes is alone: nobody is registered, and the current world is its own, locked.
* **Counting** (`CursorsAgree`, `CountsAgree`, in `AbaCounting`). A cursor is the first timestamp its
  thread has not checked in for. No cursor is beyond `Reach`, the timestamp plus the bit, so nobody is ahead of a timestamp at the moment it is
  raised (the bit is cleared in the same swap). `TimeStep` sums up what any step does to the timestamp and to the number of threads: nothing,
  a raise, a thread more, a thread less, or back to the beginning. `AwaitedStep` says that only a decrement takes a thread
  out of the threads that are awaited for `T`, and `RetainStep` that a decrement is the only thing that lowers its count. For a timestamp that a free
  has raised and not yet accounted for (`Raiser`) the count is short by the number of threads in the world it swapped in.
* **Lists** (`ListsAgree`, in `AbaSafety`). `LastDecrement`: the checkin that finds a count of 0 is the last one that was awaited, and a count is never found at 0
  by another. While a raiser is late the count is negative, because no more threads are awaited than the world it swapped in counts. A free that appends
  is awaited for its timestamp (`AppendsAwaited`), so that nobody empties the list meanwhile: that is
  why the read and the clear need not be one step.
* **References** (`RefsAgree`, in `AbaSafety`). A thread in the middle of a call refers to worlds only after
  reading them off the world pointer, and until it lets go its cursor does not pass its `Limit`. A world that
  is replaced while somebody refers to it is filed under a timestamp that is not below that limit (`SwapRaises`, `LimitStep`), so its list waits for that
  thread. A free that does not wait (`fnow`) has seen a world with one thread, which is then the only one registered (`SingleIsAlone`).
* **Holders** (`HoldersAgree`, in `AbaSafety`): the same for the pointers of the program, whose cursors are their timestamps.
* **States** (`StatesAgree`, in `AbaSafety`): a set bit or a timestamp above 0 means that a thread is registered, and a free that is about to
  raise the timestamp has seen a second thread. It is inductive given `Inv` and needed for `SwapsAreValid` alone. Of the 16
  states 4, 6, 8 and 10 do not occur (`StatesKnown`).

`GracePeriodIsKept` maps `Active` to the threads that run code of the program. `GraceStep` goes through the
actions: a registration and the end of a checkin enter, the beginning of a checkin or an unregistration lets go, `FreeNow` and `CheckinRelease` release
pointers one and all, which `ReleasesUnused` allows, and the rest stutters.

That `Threads` is finite is assumed because retain counts are compared with cardinalities; a process has finitely many
threads.

### `WorldStorageProofs`

For any number of threads, storages and entries per storage (above 1), any size of the first world and any
`MaxTimestamp`, from `StorageAssumption`:

* `TypeCorrect`: `Spec => []TypeOK`.
* `TimestampAlwaysFits`: `Spec => []CurrentTimestampFits`.
* `AddedStorageFits`: `Spec => []NewStorageSuffices`.
* `OneOwner`: `Spec => []StoragesHaveOneOwner`.

The inductive invariant of the first three, `IInv`, is `TypeOK`, `WorldIsWellFormed` and `CallsAreConsistent`. A world is `WellFormed` if its offset
is a multiple of `N` and does not exceed its timestamp, and the timestamp is within the
storages. That the current world stays so depends on every copy under way, so `CallsAreConsistent`
says it of the world a free works with and of the copy it is about to swap in. The difficult step is
`ScanReorganize`: rotating a storage moves the offset up by `N`, and the copy is well formed in the end only because the offset has
moved by no more than the storages looked at (`Rotating`), and the scan stops before the storage of the timestamp
(`ScanGoesOn`). `PushedFits` is the arithmetic behind `AddedStorageFits`: a
world that holds its timestamp holds the next one with one more storage.

For `OneOwner`, `Disjoint` and `Complete` are the property without cardinalities. They are inductive together
with `IInv` and `CopiesAreOwned`: a copy that is about to be swapped in has the storages of the world it was made of and, if the thread
has allocated one, that one at the end (`CopyIsOwned`); and a thread holds a storage only while it tries to add one. Six lemmas
(`NobodyTakes`, `ThreadDiscards`, `ThreadAllocates`, `ThreadInstalls`, `ThreadInherits`, `ThreadFrees`) say
once how storages change hands, each step is one of them, and `RotatedStorages` and `AppendedStorages`
say what rotating and appending do to the set of storages of a world.

### `EntriesProofs`

From `StorageAssumption` and `ThreadsAssumption` (the threads are finitely many, as their number is compared with retain counts):

| theorem | property |
|---|---|
| `AwaitedAlwaysHaveEntries` | `AwaitedHaveEntries` |
| `AwaitedAreAlwaysInUse` | `AwaitedAreInUse` |
| `StaleWorldsAlwaysAgree` | `StaleWorldsAgree` |
| `EntriesAlwaysCountCheckins` | `EntriesCountCheckins` |
| `EntriesAreImplemented`, `StepsAreImplemented` | `ImplementsTimestampEntries`, `StepsImplementTimestampEntries` |
| `AlwaysSound` | `Sound` |

Each of the four invariants depends on the others. A usage bit is cleared by the checkin that found a count of 0, so it is right if
counts are; counts are right if a thread with a stale world decrements the entry of the current one; the two
worlds agree if no storage was taken away in between that somebody still needs; and a storage is taken away if its usage bits are clear.
So again there is one invariant, `SInv == OInv /\ Sound`, inductive over `OInv` (the invariants of `WorldStorageProofs`), and
the run `storages_running` checks `Sound` on an instance. Its parts, in `WorldStorageInvariant`:

* **How far threads are** (`LocalsAgree`, `CursorAgrees`). `Cursor(t)` is the first timestamp that a thread has not checked in for,
  `Held(t)` the first whose entry it may still touch: the two differ while it empties a list, after the decrement and
  before the usage bit is cleared. No cursor is beyond the timestamp plus the bit, as in `Aba`. `Awaited(T)` and
  `Holders(T)` are the threads with such a cursor up to `T`.
* **Entries** (`EntriesAreRight`, `WorldCounts`, `RaisersAgree`). For every timestamp `T` the current world has an entry for: if `T` has not been raised
  yet, the entry is in its initial state; else its count is the number of awaited threads less one, short of what a late
  raiser has still to add; its usage bit is set while anybody holds it, and its list is empty when nobody does.
* **Emptiers** (`EmptiersAgree`). A checkin between its decrement and the clearing of the bit is the only one in that place of that entry, and
  nobody awaits the entry (`CountTells`, `EmptierHolds`). Until it is through, the storage is not reused, because it still holds it; that the bit
  it clears is not that of a later timestamp with the same place in the same storage is `NextSlotIsAnother`.
* **Stale worlds** (`PointersAgree`, `WorldsAgree`). Where a thread holds the entry of a timestamp, the world it works with has it in the storage where the
  current world has it (`Agrees`). Every change of the world keeps that (`SwapKeeps`): the copy has the same entries
  from its own offset on, and nobody holds what is below.
* **Copies** (`CopyAgrees`, `Continues`). A copy `Continues` its world if it has the entries from its offset on where the world has them,
  and any further ones in a storage that is new, or that it has taken away from its front. `ContinuesPushed` and `ContinuesRotated` show it of adding
  and of rotating. This relates two worlds and remains true if the current one changes; only if the
  compare-and-swap succeeds (`t \in cfresh`) does it say something about the current world.
* **The scan** (`RotationIsSafe`). `reuse_storages` (S:1555) rotates the copy while it is scanning it, with an index that goes up all the same. After
  each rotation it skips the storage that has moved down to the index just done. So it takes the first storages away, as many as
  it found unused, but the storages it found unused may be others. That this is safe is not obvious.
  A storage whose usage bits are all clear holds no timestamp that anybody holds (`UnusedIsDone`), and since a thread holds all timestamps
  from `Held` to the current one, everything before such a storage is done as well.
  A storage is found unused at an index that is not below the number of storages taken away before, and everything up to its end is done,
  which is enough to take one more away and be as far ahead again (`RotationStaysSafe`). The scan of a rotated copy also gets
  to storages beyond that of the current timestamp, where unused says nothing; there the third disjunct counts: the scan ends at
  the index that this storage had at first, so only so many steps are left (`RotationIsDone`).
  Usage bits that another free sets meanwhile, for a timestamp that is not current yet, only make the scan find less.

`EntriesGeometry` has the arithmetic (two timestamps of a world have two entries, `SlotsAreDistinct`; a storage holds `N`
of them, `StorageSlots`), says what one thread's step leaves alone for all others (`OtherAgrees`, `QuietSound`), and goes through the steps that change no entry of the
current world. `EntriesProofs` has the others, one lemma each, with `NextSInv` at the end.

For the refinement `counts` and `lists` are the abstract variables. `EntriesStay` says that a step which leaves
the timestamp, the offset and the storages of the world alone, and the entries of storages that are allocated, is a stutter. A swap is `Raise`, though it may
take storages away and append them with new timestamps: what it takes away is initial because nobody holds it
(`DoneIsInitial`), and so is what is there for later timestamps (`SwapLeavesEntries`). `RetainStep`, `FileStep`, `CountStep` and `EmptyStep` are the other
steps; the last thread's reset is `Restart`, as all entries are done by then (`RestartStep`).

### `TimestampWidthProofs`

For any finite set of threads and any width, if `LowerHalf == Last < Modulus \div 2`:

* `LowerHalfFrees`: `Spec => []FreesWhatIsRelinquished`.
* `LowerHalfKeeps`: `Spec => []KeepsWhatIsNot`.

The two properties speak of `owing`, which the code does not have; the code has a retain count. `Counted` relates the three
ways to say who has yet to check in for a timestamp `T`: the threads whose own timestamp is in `1 .. T`
(`Awaited`), the retain count, which is their number less one, and `owing[T]`. `Good` is `Counted` for every
timestamp with what an operation needs to keep it so: nobody is more than one ahead, and if the bit is clear
nobody is ahead at all, so that a free that does not raise the timestamp finds everybody awaited
(`EverybodyIsAwaited`). One lemma per operation (`GoodJoin`, `GoodFreed`, `GoodChecked`, `GoodLeave`) shows that `Good` is kept. `LowerHalf` is used in one
place, `BehindIsBehind`: the signed comparison is that of the numbers. The run `width_upper` shows that it cannot be left out.

### Model-checked only

* Liveness: `EventuallyReleased`, `FreeAndCheckinEnd`, `RegisterAndUnregisterEnd`, `FreeLoopEnds`. Fairness and `ENABLED` are beyond the prover.
* That `Aba` may take a timestamp to be its own entry is the refinement of `TimestampEntries` on one side and the use that `Aba` makes of
  entries on the other; the two are compared by reading, not by a theorem. So is the reuse of addresses: `WorldStorage` relies on `NoWorldFreedInUse`,
  which is proved of `Aba`.

## Not modelled

* a timestamp that wraps around to 1: an entry below the offset of the world has no place in its storages (the lookup
  asserts), and the unsigned loop of a checkin that ends at the largest number would not end. `TimestampWidth`
  stops before;
* `_free_entries`, `_free_worlds` and the lists of mulle-concurrent, which is not part of the repository. A freed world is cleared
  before it is cached, so its `_size` is 0 and `alloc_world` never takes it again;
* out of memory, where the code says that it leaks;
* several instances, the global instance and the automatic unregistration of a dying thread;
* weak memory; traces and debug code.

## Plan

What is left:

1. `Aba` over `WorldStorage`: one module in which worlds have both addresses and storages, to replace the comparison by
   reading. It is out of TLC's reach already with three threads; a proof would have to be about a refinement of both.
2. Allocation failures: the paths that return ENOMEM and what they leave behind.
3. Timestamps that wrap around to 1, when it is decided what the code should do there.
