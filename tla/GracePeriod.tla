---------------------------- MODULE GracePeriod ----------------------------
(***************************************************************************)
(* What mulle-aba promises to the program that uses it, without worlds,    *)
(* timestamps or retain counts: a pointer that was unlinked and freed is   *)
(* released only after each of the threads that were running at that time  *)
(* has come to a point where it holds no pointers: a checkin or an         *)
(* unregister.  Module Aba implements this specification.                  *)
(***************************************************************************)
EXTENDS Naturals

CONSTANTS Threads, Pointers

VARIABLES
    active,     \* the registered threads that run code of the program
    pstate,     \* "linked", "retired" or "released"
    holders     \* the threads that may still use a retired pointer

gvars == <<active, pstate, holders>>

Init ==
    /\ active  = {}
    /\ pstate  = [p \in Pointers |-> "linked"]
    /\ holders = [p \in Pointers |-> {}]

\* A thread enters, or comes back from, the library.
Enter(t) ==
    /\ active' = active \cup {t}
    /\ UNCHANGED <<pstate, holders>>

\* A thread checks in or unregisters: it lets go of all pointers, whether
\* the library then keeps it busy or returns at once.
LetGo(t) ==
    /\ t \in active
    /\ active' \in {active, active \ {t}}
    /\ holders' = [p \in Pointers |-> holders[p] \ {t}]
    /\ UNCHANGED pstate

\* A thread unlinks a pointer and frees it; all others may be using it.
Retire(t, p) ==
    /\ t \in active
    /\ pstate[p] = "linked"
    /\ pstate'  = [pstate EXCEPT ![p] = "retired"]
    /\ holders' = [holders EXCEPT ![p] = active \ {t}]
    /\ UNCHANGED active

\* The free callbacks of a set of pointers run, none of them in use.
Release(S) ==
    /\ \A p \in S : pstate[p] = "retired" /\ holders[p] = {}
    /\ pstate' = [p \in Pointers |-> IF p \in S THEN "released" ELSE pstate[p]]
    /\ UNCHANGED <<active, holders>>

\* The memory is used for a new object.
Publish(p) ==
    /\ pstate[p] = "released"
    /\ pstate' = [pstate EXCEPT ![p] = "linked"]
    /\ UNCHANGED <<active, holders>>

Next ==
    \/ \E t \in Threads  : Enter(t) \/ LetGo(t)
    \/ \E t \in Threads, p \in Pointers : Retire(t, p)
    \/ \E S \in SUBSET Pointers : Release(S)
    \/ \E p \in Pointers : Publish(p)

Spec == Init /\ [][Next]_gvars
=============================================================================
