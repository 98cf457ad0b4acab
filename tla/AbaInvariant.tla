---------------------------- MODULE AbaInvariant ----------------------------
(***************************************************************************)
(* Why the properties of module Aba hold: what threads in all places of all*)
(* calls rely on and what they leave behind for the others.  Together      *)
(* the parts are inductive, given that every world has one owner; the      *)
(* proofs are in AbaOwnership, AbaCounting and AbaSafety.                  *)
(***************************************************************************)
EXTENDS AbaProperties

\* The timestamp of the current world, and the first one for which no thread
\* can have checked in yet.
Now   == store[wp.w].ts
Reach == Now + wp.bit

\* The worlds that a thread refers to.
Refs(t) == {owp[t].w, cwp[t].w} \ {Nil}

\* A checkin that has something to do, also while it frees a world, and when
\* it has found or set the bit.
InCheckin(t) == pc[t] \in CheckinPcs \/ ret[t] = "range"
BitIsSet(t)  == pc[t] \in {"range"} \cup LoopPcs \/ ret[t] = "range"

\* A thread that holds on to what it refers to gets no further than this.
Limit(t) == IF InCheckin(t) THEN new[t] + 1 ELSE tss[t]

\* A free that knows its timestamp, and that timestamp.
Filing(t)    == pc[t] \in {"fretain", "flist", "fworld"}
FilesUnder(t) == store[cwp[t].w].ts

\* The threads that have not checked in for T.
Awaited(T) == {t \in Registered : Cursor(t) <= T}

HoldsLock(t) == pc[t] \in {"join", "leave", "unlock"}

-----------------------------------------------------------------------------

\* What the local variables of a thread say to each other.
LocalsAgree(t) ==
    /\ pc[t] \in {"idle", "lock", "drop", "ubegin", "fread"} => cwp[t] = NoPtr
    /\ pc[t] \in {"idle", "lock", "drop", "ubegin"} => owp[t] = NoPtr /\ new[t] = 0
    /\ pc[t] \in FreePcs /\ ret[t] # "range" => owp[t] = NoPtr /\ new[t] = 0
    /\ pc[t] = "join" => new[t] = 0
    /\ pc[t] \in LoopPcs \cup {"join", "ulock", "unlock", "leak"} => cwp[t] = NoPtr
    /\ pc[t] = "leave" => cwp[t] = owp[t]
    /\ pc[t] \notin FreePcs \ {"fworld"} => arg[t] = Nil
    /\ fw[t] # {} => pc[t] \in {"fretain", "flist", "fworld"}
    /\ arg[t] # Nil => owp[t].w # arg[t]
    /\ pc[t] = "bit" => cwp[t].lock = 0
    /\ HoldsLock(t) => owp[t].lock = 1
    /\ InCheckin(t) => tss[t] <= new[t]
    /\ pc[t] = "dec" => tss[t] <= cur[t] /\ cur[t] <= new[t] + 1
    /\ pc[t] \in {"snip", "clear"} => tss[t] <= cur[t] - 1 /\ cur[t] <= new[t] + 1
    /\ pc[t] \in {"ulock", "leave", "unlock"} => tss[t] = new[t] + 1

\* The lock belongs to one thread, which refers to the locked world.
LockAgrees ==
    /\ \A t \in Threads : HoldsLock(t) /\ owp[t].w = wp.w => owp[t] = wp
    /\ \A t, u \in Threads :
          HoldsLock(t) /\ HoldsLock(u) /\ owp[t] = wp /\ owp[u] = wp => t = u
    /\ wp.lock = 1 => \E t \in Threads : \/ HoldsLock(t) /\ owp[t] = wp
                                         \/ pc[t] \in {"wipe", "open"}

\* The last thread cleans up alone.
LastIsAlone ==
    \A t \in Threads :
        /\ pc[t] \in {"leak", "wipe"} => owp[t].w # wp.w
        /\ pc[t] \in {"wipe", "open"} =>
              /\ cwp[t] = wp /\ wp.lock = 1 /\ Now = 0
              /\ \A u \in Threads : tss[u] = 0 /\ ~ (HoldsLock(u) /\ owp[u] = wp)
              /\ \A u \in Threads : pc[u] \in {"wipe", "open"} => u = t

\* How far threads are.
CursorsAgree ==
    \A t \in Registered :
        /\ Cursor(t) <= Reach
        /\ new[t] <= Now
        /\ BitIsSet(t) => new[t] + 1 <= Reach
        /\ InCheckin(t) => new[t] <= store[owp[t].w].ts
        /\ Filing(t) => FilesUnder(t) \in 1 .. Now /\ Cursor(t) <= FilesUnder(t)

Raiser(t, T) == pc[t] = "fretain" /\ FilesUnder(t) = T

\* Retain counts.
CountsAgree ==
    /\ store[wp.w].nt = Cardinality(Registered)
    /\ \A T \in Timestamps : T > Now => rc[T] = -1 /\ list[T] = {}
    /\ \A t, u \in Threads : pc[t] = "fretain" /\ pc[u] = "fretain" /\ FilesUnder(t) = FilesUnder(u) => t = u
    /\ \A T \in 1 .. Now :
          (\A t \in Threads : ~ Raiser(t, T)) => rc[T] = Cardinality(Awaited(T)) - 1
    /\ \A t \in Threads : pc[t] = "fretain" =>
          /\ rc[FilesUnder(t)] + store[cwp[t].w].nt = Cardinality(Awaited(FilesUnder(t))) - 1
          /\ Cardinality(Awaited(FilesUnder(t))) <= store[cwp[t].w].nt

\* A checkin that found itself to be the last.
Empties(t) == pc[t] \in {"snip", "clear"}

\* Lists.
ListsAgree ==
    /\ \A t \in Threads : Empties(t) => Awaited(cur[t] - 1) = {}
    /\ \A t, u \in Threads : Empties(t) /\ Empties(u) /\ cur[t] = cur[u] => t = u
    /\ \A t \in Threads : pc[t] = "clear" => snip[t] = list[cur[t] - 1]
    /\ \A T \in Timestamps : list[T] # {} =>
          \/ Awaited(T) # {}
          \/ \E t \in Threads : Empties(t) /\ cur[t] - 1 = T

\* What has been replaced is not freed while somebody refers to it.
RefsAgree ==
    /\ \A w \in free : store[w] = Blank
    /\ \A t \in Threads : owp[t].w \notin free /\ cwp[t].w \notin free
    /\ \A t \in Threads \ Registered : \A w \in Refs(t) :
          w = wp.w \/ (pc[t] \in LockPcs /\ w = owp[t].w)
    /\ \A t \in Registered : \A w \in Refs(t) :
          /\ w # wp.w => Limit(t) <= Reach
          /\ \A T \in Timestamps : w \in list[T] => Limit(t) <= T
          /\ \A u \in Threads :
                /\ Filing(u) /\ (w = arg[u] \/ w \in fw[u]) => Limit(t) <= FilesUnder(u)
                /\ pc[u] = "fnow" => w # arg[u]

\* Who may still use a pointer.
HoldersAgree ==
    \A p \in Pointers : \A t \in holders[p] :
        /\ pstate[p] = "retired" /\ InUserCode(t)
        /\ \A T \in Timestamps : p \in list[T] => tss[t] <= T
        /\ \A u \in Threads : arg[u] = p =>
              /\ t # u
              /\ Filing(u) => tss[t] <= FilesUnder(u)
              /\ pc[u] # "fnow"

\* States of the world pointer that the authors' graph has.  This part is not
\* needed for the others.
StatesAgree ==
    /\ wp.bit = 1 \/ Now # 0 => Registered # {}
    /\ wp.bit = 0 /\ Now # 0 => store[wp.w].nt > 1
    /\ \A t \in Threads : pc[t] = "fcas" => cwp[t].bit = 1 /\ store[cwp[t].w].nt > 1

\* LocalsAgree, for all threads.
LocalsAllAgree == \A t \in Threads : LocalsAgree(t)

\* In whatever places of their calls the threads are, what each of them relies
\* on is so: the current world counts them, the retain count of a timestamp is
\* the number of those that have not checked in for it, what waits on its list
\* is not in use by a thread that has, and the lock has one owner.
Safe ==
    /\ LocalsAllAgree /\ LockAgrees /\ LastIsAlone /\ CursorsAgree /\ CountsAgree
    /\ ListsAgree /\ RefsAgree /\ HoldersAgree

=============================================================================
