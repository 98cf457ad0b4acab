------------------------------- MODULE MCAba -------------------------------
(***************************************************************************)
(* Instances of Aba for TLC.                                               *)
(***************************************************************************)
EXTENDS AbaInvariant, TLC

Symmetric == Permutations(Pointers) \cup Permutations(Threads)

\* World addresses are interchangeable.  There are too many of them for a
\* symmetry set, so the view forgets their names instead: a world is known
\* by its contents and by everything in the state that refers to it, and two
\* states that have the same worlds under that description are the same up
\* to a permutation of Worlds.
Description(w) ==
    <<store[w], w \in free, w = wp.w, w \in leaks,
      {T \in Timestamps : w \in list[T]},
      {t \in Threads : owp[t].w = w}, {t \in Threads : cwp[t].w = w},
      {t \in Threads : arg[t] = w}, {t \in Threads : w \in chain[t]},
      {t \in Threads : w \in fw[t]}, {t \in Threads : w \in snip[t]}>>

NamelessWorlds ==
    LET describe == [w \in Worlds |-> Description(w)]
    IN  [d \in {describe[w] : w \in Worlds} |->
            Cardinality({w \in Worlds : describe[w] = d})]

View ==
    <<NamelessWorlds, wp.bit, wp.lock, rc, program, tss, pc, op, ret, new, cur,
      [T \in Timestamps |-> list[T] \cap Pointers],
      [t \in Threads |-> <<owp[t].bit, owp[t].lock, cwp[t].bit, cwp[t].lock,
                           {arg[t]} \cap Pointers, snip[t] \cap Pointers>>]>>

-----------------------------------------------------------------------------
\* Runs that begin in the middle: the veterans have registered, which raised
\* the timestamp once for each after the first, and have all checked in
\* since.  From there the veterans free, check in and unregister while the
\* newcomers register, free and check in.
CONSTANT Newcomers

Veterans == Threads \ Newcomers
Raises   == Cardinality(Veterans) - 1

VeteransRegistered ==
    /\ \E w \in Worlds :
          /\ wp    = Ptr(w, 1)
          /\ free  = Worlds \ {w}
          /\ store = [v \in Worlds |->
                         IF v = w THEN [ts |-> Raises, nt |-> Cardinality(Veterans)] ELSE Blank]
    /\ rc      = [T \in Timestamps |-> -1]
    /\ list    = [T \in Timestamps |-> {}]
    /\ leaks   = {}
    /\ pstate  = [p \in Pointers |-> "linked"]
    /\ holders = [p \in Pointers |-> {}]
    /\ tss     = [t \in Threads |-> IF t \in Veterans THEN Raises + 1 ELSE 0]
    /\ pc      = [t \in Threads |-> "idle"]
    /\ op      = [t \in Threads |-> "none"]
    /\ ret     = [t \in Threads |-> "idle"]
    /\ new     = [t \in Threads |-> 0]
    /\ cur     = [t \in Threads |-> 0]
    /\ owp     = [t \in Threads |-> NoPtr]
    /\ cwp     = [t \in Threads |-> NoPtr]
    /\ arg     = [t \in Threads |-> Nil]
    /\ chain   = [t \in Threads |-> {}]
    /\ fw      = [t \in Threads |-> {}]
    /\ snip    = [t \in Threads |-> {}]

NextMeeting ==
    \/ \E t \in Threads   : FreeStep(t) \/ CheckinStep(t) \/ ProgramStep(t)
    \/ \E t \in Newcomers : RegisterStep(t)
    \/ \E t \in Veterans  : UnregisterStep(t)

SpecMeeting == VeteransRegistered /\ [][NextMeeting]_vars

SymmetricMeeting ==
    Permutations(Pointers) \cup Permutations(Newcomers) \cup Permutations(Veterans)

\* Threads that stay registered and free each pointer once: the number of
\* timestamps is bounded by the number of pointers, so that MaxTimestamp
\* never holds a thread up and liveness can be asked for.
NextRunning ==
    \E t \in Threads : \/ FreeStep(t) \/ CheckinStep(t)
                       \/ \E p \in Pointers : Free(t, p)

FairRunning == VeteransRegistered /\ [][NextRunning]_vars /\ Fairness
=============================================================================
