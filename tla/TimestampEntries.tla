-------------------------- MODULE TimestampEntries --------------------------
(***************************************************************************)
(* What the storages of a world are for: every timestamp has an entry of   *)
(* its own, with a retain count (stored less one) and a list of what was   *)
(* freed at that time.  An entry is back in its initial state when the     *)
(* last thread has checked in for its timestamp.  Module Aba is written    *)
(* in these terms; module WorldStorage implements them.                    *)
(***************************************************************************)
EXTENDS Integers

CONSTANTS
    MaxTimestamp,   \* bound: no timestamp is raised beyond this
    MaxThreads      \* no more threads are registered at a time

VARIABLES
    now,        \* the timestamp of the current world
    rc,         \* the retain count, less one, of every timestamp
    list        \* what is filed under every timestamp

evars == <<now, rc, list>>

Timestamps == 1 .. MaxTimestamp

Init ==
    /\ now  = 0
    /\ rc   = [T \in Timestamps |-> -1]
    /\ list = [T \in Timestamps |-> {}]

\* A free makes the next timestamp current: its entry is in the initial state.
Raise ==
    /\ now' = now + 1
    /\ now' \in Timestamps /\ rc[now'] = -1 /\ list[now'] = {}
    /\ UNCHANGED <<rc, list>>

\* It adds the threads to wait for, which may have checked in by then.
Retain(T) ==
    /\ T \in 1 .. now
    /\ \E n \in 1 .. MaxThreads : rc' = [rc EXCEPT ![T] = @ + n]
    /\ UNCHANGED <<now, list>>

\* Only what was freed at timestamp T is filed under T.
File(T) ==
    /\ T \in 1 .. now
    /\ list' = [list EXCEPT ![T] = @ \cup {T}]
    /\ UNCHANGED <<now, rc>>

CheckIn(T) ==
    /\ T \in 1 .. now
    /\ rc' = [rc EXCEPT ![T] = @ - 1]
    /\ UNCHANGED <<now, list>>

\* The last checkin takes the list.
Empty(T) ==
    /\ T \in 1 .. now /\ rc[T] = -1
    /\ list' = [list EXCEPT ![T] = {}]
    /\ UNCHANGED <<now, rc>>

\* The last thread leaves.
Restart ==
    /\ \A T \in Timestamps : rc[T] = -1 /\ list[T] = {}
    /\ now' = 0
    /\ UNCHANGED <<rc, list>>

Next ==
    \/ Raise \/ Restart
    \/ \E T \in Timestamps : Retain(T) \/ File(T) \/ CheckIn(T) \/ Empty(T)

Spec == Init /\ [][Next]_evars
=============================================================================
