----------------------- MODULE WorldStorageProperties -----------------------
(***************************************************************************)
(* What must hold of the storages of a world while threads raise the       *)
(* timestamp, check in, register and leave.                                *)
(***************************************************************************)
EXTENDS WorldStorage

InLoop(t) == pc[t] \in {"dec", "snip", "clear"}

\* The timestamps whose entries thread t has still to decrement ...
Unchecked(t) ==
    CASE tss[t] = 0                -> {}
      [] pc[t] \in {"snip", "clear"} -> cur[t] + 1 .. wp.ts
      [] pc[t] = "dec"             -> cur[t] .. wp.ts
      [] OTHER                     -> tss[t] .. wp.ts

\* ... and those whose entries it has still to touch.
ToTouch(t) == Unchecked(t) \cup (IF InLoop(t) THEN cur[t] .. new[t] ELSE {})

\* The world in which thread t is about to look up an entry, and of which
\* timestamp.
Lookups ==
    {[world |-> cwp[t], ts |-> cwp[t].ts] : t \in {u \in Threads : pc[u] \in {"retain", "file"}}}
    \cup {[world |-> owp[t], ts |-> cur[t]] : t \in {u \in Threads : InLoop(u) /\ cur[u] <= new[u]}}

FreePcs     == {"drop", "reload", "try", "scan", "grow", "cas", "retain", "file"}
CheckinPcs  == {"bit", "copy", "range", "dec", "snip", "clear"}
Pcs         == {"idle", "lock", "join", "ubegin", "ulock", "leave", "wipe"}
                   \cup FreePcs \cup CheckinPcs
Kinds       == {"none", "file", "increment", "add", "count", "reorganize", "grow"}

WorldType ==
    [bit : 0 .. 1, lock : 0 .. 1, ts : 0 .. MaxTimestamp, nt : Nat,
     off : Nat, size : Nat, st : Seq(Storages)]

\* Every variable has its type.
TypeOK ==
    /\ wp \in WorldType
    /\ bits \in [Storages -> SUBSET Indices]
    /\ rc \in [Storages -> [Indices -> Int]]
    /\ list \in [Storages -> [Indices -> SUBSET (1 .. MaxTimestamp)]]
    /\ pool \subseteq Storages
    /\ tss \in [Threads -> 0 .. MaxTimestamp + 1]
    /\ pc \in [Threads -> Pcs]
    /\ op \in [Threads -> {"none", "register", "free", "checkin", "unregister"}]
    /\ new \in [Threads -> 0 .. MaxTimestamp]
    /\ cur \in [Threads -> 0 .. MaxTimestamp + 1]
    /\ chain \in [Threads -> Nat]
    /\ owp \in [Threads -> WorldType] /\ ofresh \subseteq Threads
    /\ cwp \in [Threads -> WorldType] /\ cfresh \subseteq Threads
    /\ kind \in [Threads -> Kinds]
    /\ mine \in [Threads -> WorldType]
    /\ own \in [Threads -> Storages \cup {None}]
    /\ i \in [Threads -> Nat]

\* A storage is rotated to the end of a world, or a world is grown, without
\* taking away the entry of a timestamp that a registered thread has still to
\* check in for: check_timerange would find no entry, or that of another
\* timestamp (reuse_storages reads usage bits that others change).
AwaitedHaveEntries ==
    \A t \in Threads : \A T \in ToTouch(t) : HasEntry(wp, T)

\* A thread that works with a world that has been replaced meanwhile still
\* finds the entry of its timestamp where the current world has it: worlds
\* share their storages, and a retain count or a list must not end up in a
\* storage that was reused for later timestamps.
StaleWorldsAgree ==
    \A l \in Lookups :
        /\ HasEntry(l.world, l.ts) /\ HasEntry(wp, l.ts)
        /\ StorageOf(l.world, l.ts) = StorageOf(wp, l.ts)

\* The usage bit of a timestamp that somebody has still to check in for is
\* set, which is all that keeps its storage from being reused.
AwaitedAreInUse ==
    \A t \in Threads : \A T \in Unchecked(t) :
        HasEntry(wp, T) => Index(T) \in bits[StorageOf(wp, T)]

\* The timestamp of the current world fits into its storages, whose number
\* fits into the world (_mulle_aba_world_assert_sanity), also when the world
\* was grown, rotated, or got a storage by several threads at once.
CurrentTimestampFits ==
    /\ Len(wp.st) <= wp.size /\ wp.off % N = 0
    /\ wp.ts # 0 => HasEntry(wp, wp.ts)
    /\ wp.ts = 0 => wp.st = <<>>

\* When a thread adds a storage to a world, or grows the world by one, the
\* next timestamp fits: otherwise grow_worldpointer would leave the storage
\* it allocated dangling.
NewStorageSuffices ==
    \A t \in Threads :
        pc[t] = "try" /\ kind[t] \in {"add", "grow"} /\ MayRaise(Copy(t))
          /\ Len(Copy(t).st) < Copy(t).size
        => Fits(Pushed(Copy(t), None))

\* The storages a thread may still give back or put into a world.
Private(t) == ({own[t]} \ {None}) \cup (IF pc[t] = "wipe" THEN StoragesOf(owp[t]) ELSE {})

\* Every storage is in the pool, in the current world, or in the hands of one
\* thread: a copy that is given up gives its storage back, and no storage
\* gets into a world twice, or into a world and back to the allocator.
StoragesHaveOneOwner ==
    /\ Cardinality(StoragesOf(wp)) = Len(wp.st)
    /\ Storages = pool \cup StoragesOf(wp) \cup UNION {Private(t) : t \in Threads}
    /\ pool \cap StoragesOf(wp) = {}
    /\ \A t \in Threads :
          /\ Private(t) \cap (pool \cup StoragesOf(wp)) = {}
          /\ \A u \in Threads \ {t} : Private(t) \cap Private(u) = {}

\* What the thread that raised timestamp T has still to add to its entry.
ToRetain(T) ==
    LET raising == {t \in Threads : pc[t] = "retain" /\ cwp[t].ts = T}
    IN  IF raising = {} THEN 0 ELSE cwp[CHOOSE t \in raising : TRUE].nt

\* In the storage where the current world has it, the entry of a timestamp
\* counts the threads that have still to check in for it (stored less one):
\* nothing is left in a reused storage, and no checkin went to the wrong one.
EntriesCountCheckins ==
    \A T \in 1 .. wp.ts : HasEntry(wp, T) =>
        EntryOf(rc, wp, T) + 1 + ToRetain(T)
          = Cardinality({t \in Threads : T \in Unchecked(t)})

\* The storages implement an entry for every timestamp (TimestampEntries): a
\* timestamp without one in the current world is done or not yet raised.
Entries ==
    INSTANCE TimestampEntries WITH
        MaxThreads <- Cardinality(Threads),
        now  <- wp.ts,
        rc   <- [T \in 1 .. MaxTimestamp |->
                    IF HasEntry(wp, T) THEN EntryOf(rc, wp, T) ELSE -1],
        list <- [T \in 1 .. MaxTimestamp |->
                    IF HasEntry(wp, T) THEN EntryOf(list, wp, T) ELSE {}]

ImplementsTimestampEntries == Entries!Spec

\* Every step does so, for a run that does not begin at the beginning.
StepsImplementTimestampEntries == [][Entries!Next]_(Entries!evars)

-----------------------------------------------------------------------------
(* Why the geometry is right: the inductive invariant of the proofs.       *)

\* The storages of a world hold the entry of its timestamp.
WellFormed(world) ==
    /\ world.size # 0 /\ Len(world.st) <= world.size
    /\ world.off % N = 0
    /\ world.ts = 0 => world.off = 0 /\ world.st = <<>>
    /\ world.ts # 0 => /\ world.off <= world.ts
                       /\ world.ts - world.off < Len(world.st) * N

\* The copy that is being rotated: no more storages have been taken away
\* than have been looked at.
Rotating(world, copy, looked) ==
    /\ copy.off % N = 0 /\ copy.off <= world.off + looked * N
    /\ copy.size = world.size /\ Len(copy.st) = Len(world.st)
    /\ copy.ts = world.ts

CallIsConsistent(t) ==
    /\ pc[t] = "drop" => chain[t] # 0
    /\ pc[t] \in {"snip", "clear"} => cur[t] <= new[t]
    /\ pc[t] = "file" => cwp[t].ts # 0
    /\ pc[t] \in {"try", "scan", "cas", "retain", "file"} => WellFormed(cwp[t])
    /\ pc[t] = "cas" => WellFormed(mine[t])
    /\ pc[t] = "try" /\ kind[t] = "grow" => mine[t].size > cwp[t].size
    /\ pc[t] # "scan" => i[t] = 0
    /\ pc[t] = "scan" => i[t] * N <= cwp[t].ts - cwp[t].off
    /\ pc[t] = "scan" /\ kind[t] = "reorganize" => Rotating(cwp[t], mine[t], i[t])

CallsAreConsistent == \A t \in Threads : CallIsConsistent(t)

WorldIsWellFormed == WellFormed(wp)

=============================================================================
