------------------------ MODULE WorldStorageInvariant ------------------------
(***************************************************************************)
(* Why every entry counts what it should, and why nobody looks an entry up *)
(* in vain.  The reasons are of three kinds: how far threads have come,    *)
(* what the storages of the current world hold, and what the copies and    *)
(* the stale worlds that threads work with have in common with it.         *)
(* Together the parts are inductive, given that the geometry is right and  *)
(* that every storage has one owner; the proofs are in EntriesGeometry and *)
(* EntriesProofs.                                                          *)
(***************************************************************************)
EXTENDS WorldStorageProperties

Registered == {t \in Threads : tss[t] # 0}

\* The first timestamp that a thread has not checked in for, and the first
\* one whose entry it may still touch.
Cursor(t) ==
    CASE pc[t] \in {"snip", "clear"} -> cur[t] + 1
      [] pc[t] = "dec"               -> cur[t]
      [] OTHER                       -> tss[t]

Held(t) == IF InLoop(t) THEN cur[t] ELSE tss[t]

Awaited(T) == {t \in Registered : Cursor(t) <= T}
Holders(T) == {t \in Registered : Held(t) <= T}

\* A checkin that found itself to be the last; a free that uses an entry.
Empties(t) == pc[t] \in {"snip", "clear"}
Filing(t)  == pc[t] \in {"retain", "file"}

\* A checkin that has something to do, also while it frees a world; when it
\* has found or set the bit; and when it will use the world it has.
InCheckin(t) ==
    \/ pc[t] \in CheckinPcs
    \/ /\ pc[t] \in FreePcs
       /\ op[t] = "checkin" \/ (op[t] = "unregister" /\ new[t] # 0)
BitIsSet(t)  == InCheckin(t) /\ pc[t] \notin {"bit", "copy"}
KeepsOwp(t)  == InLoop(t) \/ (BitIsSet(t) /\ op[t] = "unregister")

\* The timestamps for which the storages of a world have entries, with 0.
Slots(world) == world.off .. world.off + Len(world.st) * N - 1

\* The same world, but for its bit and its lock.
SameWorld(a, b) ==
    a.ts = b.ts /\ a.nt = b.nt /\ a.off = b.off /\ a.size = b.size /\ a.st = b.st

\* A world has the entry of T where the current world has it.
Agrees(world, T) ==
    T \in Slots(world) /\ T \in Slots(wp) /\ StorageOf(world, T) = StorageOf(wp, T)

Initial(s, x) == rc[s][x] = -1 /\ list[s][x] = {}

-----------------------------------------------------------------------------

\* What the local variables of a thread say to each other.
LocalsAgree(t) ==
    /\ pc[t] \in FreePcs \cup CheckinPcs \cup {"ubegin", "ulock", "leave"} => tss[t] # 0
    /\ pc[t] \in {"lock", "join"} => tss[t] = 0
    /\ tss[t] = 0 /\ pc[t] # "wipe" => new[t] = 0
    /\ pc[t] = "join" => op[t] = "register"
    /\ pc[t] \in CheckinPcs => op[t] \in {"checkin", "unregister"}
    /\ pc[t] \in {"ubegin", "ulock", "leave"} => op[t] = "unregister"
    /\ pc[t] \in {"ulock", "leave"} => new[t] < tss[t]
    /\ InCheckin(t) => tss[t] <= new[t]
    /\ pc[t] = "dec" => tss[t] <= cur[t] /\ cur[t] <= new[t] + 1
    /\ pc[t] \in {"snip", "clear"} => tss[t] <= cur[t]

\* A world pointer that is still the current address points to the current
\* world.
PointersAgree(t) ==
    /\ t \in cfresh => SameWorld(cwp[t], wp)
    /\ t \in ofresh => SameWorld(owp[t], wp)

\* How far a thread is: it has checked in for no timestamp that is not yet
\* current, unless the bit is set, and what it holds has entries.
CursorAgrees(t) ==
    tss[t] # 0 =>
        /\ wp.off <= Held(t) /\ Cursor(t) <= wp.ts + wp.bit
        /\ new[t] <= wp.ts
        /\ BitIsSet(t) => new[t] + 1 <= wp.ts + wp.bit
        /\ Filing(t) => cwp[t].ts \in 1 .. wp.ts /\ Cursor(t) <= cwp[t].ts
        /\ pc[t] = "retain" => cwp[t].nt \in 1 .. Cardinality(Threads)

\* The entries that a stale world is used for.
WorldsAgree(t) ==
    /\ Filing(t) => Agrees(cwp[t], cwp[t].ts)
    /\ KeepsOwp(t) => owp[t].ts # 0 /\ \A T \in Held(t) .. new[t] : Agrees(owp[t], T)

\* A storage that is not yet in a world is in its initial state.
PrivateIsInitial(t) == own[t] # None => \A x \in Indices : Initial(own[t], x)

\* A copy has the entries of a world from its own offset on, and besides them
\* one storage more, or those which it has taken away from below its offset.
Continues(world, copy, s) ==
    /\ world.off <= copy.off /\ copy.nt = world.nt
    /\ \A T \in Slots(world) : copy.off <= T =>
          T \in Slots(copy) /\ StorageOf(copy, T) = StorageOf(world, T)
    /\ \A T \in Slots(copy) \ Slots(world) :
          \/ s # None /\ StorageOf(copy, T) = s
          \/ /\ s = None
             /\ \E X \in Slots(world) :
                   X < copy.off /\ Index(X) = Index(T) /\ StorageOf(world, X) = StorageOf(copy, T)

\* The first timestamp of the storage that holds the entry of T.
Base(world, T) == world.off + StorageIndex(world, T) * N

\* What a rotation takes away nobody holds.  While the copy is being rotated
\* the scan looks at storages of the rotated copy, and so skips some, at most
\* as many as it has taken away; a storage it found unused shows that
\* everything before it is done as well.  Beyond the storage of the current
\* timestamp it shows nothing, but there are only so many steps left.
RotationIsSafe(t, u) ==
    LET taken == mine[t].off - cwp[t].off
    IN  \/ taken = 0
        \/ Held(u) >= mine[t].off + taken - N
        \/ Held(u) >= taken + Base(cwp[t], cwp[t].ts) - i[t] * N

CopyAgrees(t) ==
    /\ pc[t] = "cas" =>
          /\ mine[t].ts = cwp[t].ts + 1 /\ mine[t].bit = 0
          /\ cwp[t].bit = 1 /\ cwp[t].nt > 1
          /\ Continues(cwp[t], mine[t], own[t])
          /\ t \in cfresh =>
                /\ Index(mine[t].ts) \in bits[StorageOf(mine[t], mine[t].ts)]
                /\ \A u \in Registered : mine[t].off <= Held(u)
    /\ pc[t] = "scan" /\ kind[t] = "reorganize" =>
          /\ mine[t].bit = 1 /\ cwp[t].bit = 1 /\ cwp[t].nt > 1
          /\ Continues(cwp[t], mine[t], None)
          /\ t \in cfresh => \A u \in Registered : RotationIsSafe(t, u)

ThreadAgrees(t) ==
    /\ LocalsAgree(t) /\ PointersAgree(t) /\ CursorAgrees(t)
    /\ WorldsAgree(t) /\ PrivateIsInitial(t) /\ CopyAgrees(t)

ThreadsAgree == \A t \in Threads : ThreadAgrees(t)

-----------------------------------------------------------------------------

Raiser(t, T) == pc[t] = "retain" /\ cwp[t].ts = T

\* The entry of timestamp T in the current world.
EntryIsRight(T) ==
    /\ T \notin 1 .. wp.ts => Initial(StorageOf(wp, T), Index(T))
    /\ T \in 1 .. wp.ts =>
          /\ (\A t \in Threads : ~ Raiser(t, T)) =>
                EntryOf(rc, wp, T) = Cardinality(Awaited(T)) - 1
          /\ \A t \in Threads : Raiser(t, T) =>
                /\ EntryOf(rc, wp, T) + cwp[t].nt = Cardinality(Awaited(T)) - 1
                /\ Cardinality(Awaited(T)) <= cwp[t].nt
          /\ Holders(T) = {} => EntryOf(list, wp, T) = {}
          /\ Holders(T) # {} => Index(T) \in bits[StorageOf(wp, T)]

EntriesAreRight == \A T \in Slots(wp) : EntryIsRight(T)

\* The world counts the threads.
WorldCounts == wp.nt = Cardinality(Registered)

\* One thread raises a timestamp; one thread empties its entry, when nobody
\* awaits it any more.
RaisersAgree ==
    \A t, u \in Threads :
        pc[t] = "retain" /\ pc[u] = "retain" /\ cwp[t].ts = cwp[u].ts => t = u

EmptiersAgree ==
    /\ \A t \in Threads : Empties(t) => Awaited(cur[t]) = {}
    /\ \A t \in Threads : pc[t] = "clear" => EntryOf(list, wp, cur[t]) = {}
    /\ \A t, u \in Threads : Empties(t) /\ Empties(u) /\ cur[t] = cur[u] => t = u

\* In whatever places of their calls the threads are, what each of them relies
\* on is so.
Sound ==
    ThreadsAgree /\ EntriesAreRight /\ WorldCounts /\ RaisersAgree /\ EmptiersAgree

=============================================================================
