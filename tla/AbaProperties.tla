---------------------------- MODULE AbaProperties ----------------------------
(***************************************************************************)
(* What makes the reclamation of module Aba correct: state invariants and  *)
(* action properties, checked by TLC in MCAba and, unless they are about   *)
(* liveness, proved in AbaProofs and AbaSafety.                            *)
(***************************************************************************)
EXTENDS Aba

\* The first timestamp the thread has not checked in for, 0 if it is not
\* registered.
Cursor(t) == IF pc[t] \in LoopPcs THEN cur[t] ELSE tss[t]

Registered == {t \in Threads : tss[t] # 0}

\* The world a thread has locked, or had locked and must get rid of.
LockPcs == {"join", "leave", "unlock", "leak", "wipe"}

-----------------------------------------------------------------------------
(* Pointers of the program.                                                *)

\* The promise of the library: when the free callback of a pointer runs, no
\* thread that could have read the pointer before it was unlinked is still
\* running without having checked in (mulle_aba_free, mulle_aba_checkin).
NoEarlyRelease ==
    \A p \in Pointers : pstate[p] = "released" => holders[p] = {}

\* Where a retired pointer waits.
Waiting(p) ==
    {<<"arg", t>> : t \in {u \in Threads : arg[u] = p}} \cup
    {<<"list", T>> : T \in {U \in Timestamps : p \in list[U]}}

\* A pointer given to mulle_aba_free is never lost and never queued twice:
\* until its callback runs it waits in exactly one place, afterwards in none.
PointerWaitsOnce ==
    \A p \in Pointers :
        Cardinality(Waiting(p)) = IF pstate[p] = "retired" THEN 1 ELSE 0

-----------------------------------------------------------------------------
(* Worlds.                                                                 *)

\* Who is responsible for a world.
Owners(w) ==
    {<<"free", Nil>>    : x \in {w} \cap free} \cup
    {<<"current", Nil>> : x \in {w} \cap {wp.w}} \cup
    {<<"leaks", Nil>>   : x \in {w} \cap leaks} \cup
    {<<"list", T>>      : T \in {U \in Timestamps : w \in list[U]}} \cup
    {<<"arg", t>>       : t \in {u \in Threads : arg[u] = w}} \cup
    {<<"chain", t>>     : t \in {u \in Threads : w \in chain[u]}} \cup
    {<<"replaced", t>>  : t \in {u \in Threads : w \in fw[u]}} \cup
    {<<"locked", t>>    : t \in {u \in Threads : /\ pc[u] \in LockPcs
                                                 /\ w = owp[u].w
                                                 /\ w # wp.w}}

\* A world that is replaced, with or without somebody's lock on it, has one
\* thread or list that will free it: no double free, no leak.
WorldHasOneOwner == \A w \in Worlds : Cardinality(Owners(w)) = 1

\* Checkin, free and unregister read worlds without any lock: none of those
\* a thread still refers to has been freed, so that the address a
\* compare-and-swap expects still names the world that was read (the ABA
\* problem the library is named for).
NoWorldFreedInUse ==
    \A t \in Threads : owp[t].w \notin free /\ cwp[t].w \notin free

\* Checkins and frees replace a locked world by an unlocked one, so several
\* threads can be past their lock; the lock that is set belongs to one.
LockHasOneOwner ==
    wp.lock = 1 =>
        Cardinality({t \in Threads : \/ pc[t] \in {"join", "leave", "unlock"} /\ owp[t] = wp
                                     \/ pc[t] \in {"wipe", "open"} /\ cwp[t] = wp}) = 1

\* _mulle_aba_free_owned_pointer asserts that its caller is registered, also
\* where the library calls it for worlds, in the middle of mulle_aba_register
\* and mulle_aba_unregister.
CallerIsRegistered == \A t \in Threads : pc[t] \in FreePcs => tss[t] # 0

-----------------------------------------------------------------------------
(* Timestamps, retain counts and lists.                                    *)

\* What threads that have raised the timestamp to T have yet to add.
Pending(T) ==
    LET raisers == {t \in Threads : pc[t] = "fretain" /\ store[cwp[t].w].ts = T}
    IN  IF raisers = {} THEN 0
        ELSE store[cwp[CHOOSE t \in raisers : TRUE].w].nt

\* The retain count of a timestamp, with what is still to be added to it, is
\* the number of threads that have not checked in for it: no checkin is
\* missed or counted twice over any order of free, checkin, register and
\* unregister, though the count itself may pass through negative values.
RetainCountsCheckins ==
    \A T \in 1 .. store[wp.w].ts :
        rc[T] + Pending(T) = Cardinality({t \in Registered : Cursor(t) <= T}) - 1

\* The world counts the registered threads.
WorldCountsThreads == store[wp.w].nt = Cardinality(Registered)

\* While the bit is clear no thread has checked in for the timestamp of the
\* world, so that a pointer appended to its list meets every thread.
BitClearUntilCheckin ==
    \A t \in Registered : Cursor(t) <= store[wp.w].ts + wp.bit

\* Whatever waits on a list has a thread that will release it: one that is
\* yet to check in for the timestamp or is about to empty the list.
ListIsAwaited ==
    \A T \in Timestamps : list[T] # {} =>
        \E t \in Threads : \/ t \in Registered /\ Cursor(t) <= T
                           \/ pc[t] \in {"snip", "clear"} /\ cur[t] - 1 = T

\* Clearing the list after it was read loses nothing: the two steps are not
\* atomic ("we should be single threaded here in terms of ts_entry").
SnipIsWholeList ==
    \A t \in Threads : pc[t] = "clear" => snip[t] = list[cur[t] - 1]

\* When the last thread frees the storages all their lists are empty and all
\* retain counts are back at their initial value.
WipeLosesNothing ==
    \A t \in Threads : pc[t] = "wipe" =>
        \A T \in Timestamps : list[T] = {} /\ rc[T] = -1

\* A timestamp is raised one at a time and starts again from 0 only when
\* the last thread unregisters: it never goes backwards under a thread.
TimestampAdvances ==
    [][ \/ store'[wp'.w].ts \in {store[wp.w].ts, store[wp.w].ts + 1}
        \/ store'[wp'.w].ts = 0 /\ {t \in Threads : tss'[t] # 0} = {} ]_vars


\* A pointer given to mulle_aba_free is not delayed for ever: its callback
\* runs if every registered thread keeps checking in.
EventuallyReleased ==
    \A p \in Pointers : pstate[p] = "retired" ~> pstate[p] = "released"

-----------------------------------------------------------------------------
(* The states of the world pointer.                                        *)

\* _mulle_aba_worldpointer_state: bit, lock, "timestamp is not 0" and "more
\* than one thread" as a number between 0 and 15.
WorldPointerState(p, worlds) ==
    p.bit + 2 * p.lock + (IF worlds[p.w].ts # 0 THEN 4 ELSE 0)
                       + (IF worlds[p.w].nt > 1 THEN 8 ELSE 0)

\* What assert_valid_transition allows: from, to, and the intent.
ValidTransitions ==
    {<<s, s + 2, "lock">> : s \in {0, 1, 5, 9, 12, 13}} \cup
    {<<s, s - 2, "unlock">> : s \in {2, 3, 7, 11, 14, 15}} \cup
    {<<2, 1, "register">>, <<3, 9, "register">>, <<7, 13, "register">>,
     <<11, 9, "register">>, <<14, 13, "register">>, <<15, 13, "register">>} \cup
    {<<3, 2, "unregister">>, <<7, 2, "unregister">>,
     <<11, 1, "unregister">>, <<11, 9, "unregister">>,
     <<14, 5, "unregister">>, <<14, 13, "unregister">>,
     <<15, 5, "unregister">>, <<15, 13, "unregister">>} \cup
    {<<s, 12, "free">> : s \in {9, 11, 13, 15}} \cup {<<14, 14, "free">>} \cup
    {<<5, 5, "checkin">>, <<7, 5, "checkin">>, <<12, 13, "checkin">>,
     <<13, 13, "checkin">>, <<14, 13, "checkin">>, <<15, 13, "checkin">>}

\* What a thread means to do with the world pointer.
Intent(t) ==
    CASE pc[t] \in {"idle", "lock", "ulock"} -> "lock"
      [] pc[t] \in {"unlock", "open"}        -> "unlock"
      [] pc[t] = "join"                      -> "register"
      [] pc[t] = "leave"                     -> "unregister"
      [] pc[t] = "fcas"                      -> "free"
      [] pc[t] \in {"bit", "copy"}           -> "checkin"
      [] OTHER                               -> "none"

\* No interleaving takes the world pointer along a transition that the state
\* graph of the authors (assert_valid_transition, dox/states.dot) lacks.
SwapsAreValid ==
    [][ \A t \in Threads :
            wp' # wp /\ pc'[t] # pc[t] =>
                <<WorldPointerState(wp, store), WorldPointerState(wp', store'), Intent(t)>>
                    \in ValidTransitions ]_vars

-----------------------------------------------------------------------------
(* The local variables of a thread at every point of a call.               *)

CallIsConsistent(t) ==
    /\ op[t] = "none"       => pc[t] = "idle"
    /\ op[t] = "register"   => pc[t] \in RegisterPcs \cup FreePcs
    /\ op[t] = "free"       => pc[t] \in FreePcs
    /\ op[t] = "checkin"    => pc[t] \in CheckinPcs \cup FreePcs
    /\ op[t] = "unregister" => pc[t] \in LeavePcs \cup CheckinPcs \cup FreePcs
    /\ pc[t] \in FreePcs =>
          \/ op[t] = "register"   /\ ret[t] = "drop"
          \/ op[t] = "free"       /\ ret[t] = "idle"
          \/ op[t] = "checkin"    /\ ret[t] = "range"
          \/ op[t] = "unregister" /\ ret[t] \in {"range", "ubegin"}
    /\ pc[t] \notin FreePcs => ret[t] = "idle"
    /\ pc[t] \in {"lock", "join", "leak", "wipe", "open"} => tss[t] = 0
    /\ pc[t] \in FreePcs \cup CheckinPcs \cup {"drop", "ubegin", "ulock", "leave", "unlock"}
          => tss[t] # 0
    /\ ret[t] = "range" => owp[t] \in WorldPointers
    /\ pc[t] \in CheckinPcs \cup {"join", "ulock", "leave", "unlock", "leak", "wipe"}
          => owp[t] \in WorldPointers
    /\ pc[t] \in (FreePcs \ {"fread"}) \cup {"bit", "copy", "leave", "wipe", "open"}
          => cwp[t] \in WorldPointers
    /\ pc[t] \in FreePcs \ {"fworld"} => arg[t] \in Items
    /\ pc[t] = "dec" => cur[t] # 0
    /\ pc[t] \in {"snip", "clear"} => cur[t] \in 2 .. new[t] + 1

CallsAreConsistent == \A t \in Threads : CallIsConsistent(t)

-----------------------------------------------------------------------------
(* What the documentation says.                                            *)

\* dox/API.md, of mulle_aba_register: "Only one thread can be registering
\* (or unregistering) at once, and other threads will be looping."  At most
\* one thread is between locking the world and swapping in its own.
OneRegistrationAtATime ==
    Cardinality({t \in Threads : pc[t] \in {"join", "leave"}}) <= 1

\* asset/dox/api/toc/index.md: "Each thread has a unique timestamp".
TimestampsAreUnique ==
    \A t, u \in Registered : tss[t] = tss[u] => t = u

-----------------------------------------------------------------------------
(* The abstract specification.                                             *)

Grace == INSTANCE GracePeriod WITH active <- {t \in Threads : InUserCode(t)}

\* Behind all its machinery the library only delays free callbacks until
\* every thread that was running has checked in once.
ImplementsGracePeriod == Grace!Spec
=============================================================================
