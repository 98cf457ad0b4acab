--------------------------- MODULE TimestampWidth ---------------------------
(***************************************************************************)
(* Timestamps have the width of a pointer, and the library looks at them   *)
(* in two ways: checkin and unregister compare them as signed numbers, the *)
(* loop over the timestamps to check in for is unsigned.  Calls are atomic *)
(* here: what their steps can do to each other is module Aba's subject,    *)
(* what becomes of numbers is this one's.                                  *)
(*                                                                         *)
(* The last timestamp but one of the width is never passed: what a wrap    *)
(* around to 1 would need of the storages is not modelled.                 *)
(***************************************************************************)
EXTENDS Integers, FiniteSets

CONSTANTS
    Threads,        \* the threads of the process
    Width,          \* the number of bits of uintptr_t
    Last            \* bound: the last timestamp a free may raise

VARIABLES
    tss,        \* the timestamp of each thread, 0: unregistered
    s           \* the rest: a record of
                \*   ts     _timestamp of the current world
                \*   bit    the bit of the world pointer
                \*   rc     _retain_count_1 of the entry of every timestamp
                \*   filed  the timestamps under which something waits
                \*   owing  for each, the threads that have not called
                \*          checkin or unregister since (not in the code)

vars == <<tss, s>>

Modulus    == 2 ^ Width

\* (That 2 ^ Width is at least 4 is said for the provers, which do not know
\* what ^ computes.)
ASSUME WidthAssumption ==
    /\ Width \in Nat \ {0, 1} /\ Modulus \in Nat \ 0 .. 3
    /\ Last \in 1 .. Modulus - 2
    /\ IsFiniteSet(Threads)

Timestamps == 1 .. Modulus - 1
Registered == {t \in Threads : tss[t] # 0}

Initially ==
    [ts |-> 0, bit |-> 0, rc |-> [T \in Timestamps |-> -1],
     filed |-> {}, owing |-> [T \in Timestamps |-> {}]]

Init == tss = [t \in Threads |-> 0] /\ s = Initially

-----------------------------------------------------------------------------

\* The conversion of uintptr_t to intptr_t.
Signed(v) == IF v < Modulus \div 2 THEN v ELSE v - Modulus

\* The timestamp after v: 0 is left out.
Next1(v) == IF (v + 1) % Modulus = 0 THEN 1 ELSE (v + 1) % Modulus

\* (Mutant: the thread that frees does not count itself.)
RetainedOthers(members) == Cardinality(members) - 1

Retained(members) == Cardinality(members)

\* A free while the threads `members' are registered: with a single one it is
\* done at once; if the bit is set the timestamp is raised first.
Freed(r, members) ==
    IF Cardinality(members) <= 1 THEN r
    ELSE LET T == IF r.bit = 1 THEN Next1(r.ts) ELSE r.ts
         IN  [ts    |-> T,
              bit   |-> 0,
              rc    |-> IF r.bit = 1 THEN [r.rc EXCEPT ![T] = @ + Retained(members)] ELSE r.rc,
              filed |-> r.filed \cup {T},
              owing |-> [r.owing EXCEPT ![T] = members]]

\* A thread whose timestamp is `last' calls checkin: it promises not to use
\* what it has read before.
Promised(r, t) == [r EXCEPT !.owing = [T \in Timestamps |-> r.owing[T] \ {t}]]

\* (Mutant: compared as unsigned numbers would be, but off by one.)
BehindLate(last, new) == Signed(last) < Signed(new)

Behind(last, new) == Signed(last) <= Signed(new)

\* check_timerange from `last' to the current timestamp.
CheckedIn(r, last) ==
    IF ~ Behind(last, r.ts) THEN r
    ELSE LET range == last .. r.ts
         IN  [r EXCEPT !.bit   = 1,
                       !.rc    = [T \in Timestamps |-> IF T \in range THEN r.rc[T] - 1 ELSE r.rc[T]],
                       !.filed = @ \ {T \in range : r.rc[T] = 0}]

-----------------------------------------------------------------------------

\* The world that is replaced is freed, which may raise the timestamp.
Register(t) ==
    /\ tss[t] = 0
    /\ tss' = [tss EXCEPT ![t] = Next1(s.ts)]
    /\ s' = Freed([s EXCEPT !.bit = 1], Registered \cup {t})
    /\ s'.ts <= Last

Free(t) ==
    /\ tss[t] # 0
    /\ s' = Freed(s, Registered)
    /\ s'.ts <= Last
    /\ UNCHANGED tss

Checkin(t) ==
    /\ tss[t] # 0
    /\ s'   = CheckedIn(Promised(s, t), tss[t])
    /\ tss' = [tss EXCEPT ![t] = IF Behind(@, s.ts) THEN (s.ts + 1) % Modulus ELSE @]

\* The last thread leaves the world in its initial state.
Unregister(t) ==
    /\ tss[t] # 0
    /\ tss' = [tss EXCEPT ![t] = 0]
    /\ s' = IF Registered = {t} THEN Initially
            ELSE [CheckedIn(Promised(s, t), tss[t]) EXCEPT !.bit = 1]

Next == \E t \in Threads : Register(t) \/ Free(t) \/ Checkin(t) \/ Unregister(t)

Spec == Init /\ [][Next]_vars

-----------------------------------------------------------------------------

\* mulle_aba_checkin "frees delayed pointers, that have been relinquished by
\* all other threads" (dox/API.md): nothing waits under a timestamp for which
\* every thread has called checkin or unregister.
FreesWhatIsRelinquished == \A T \in s.filed : s.owing[T] # {}

\* Nothing is freed that some thread has not relinquished.
KeepsWhatIsNot == \A T \in Timestamps : s.owing[T] # {} => T \in s.filed

=============================================================================
