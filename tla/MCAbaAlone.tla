----------------------------- MODULE MCAbaAlone -----------------------------
(***************************************************************************)
(* What a thread can do alone, while the other threads are suspended       *)
(* wherever they are, inside the library or not.                           *)
(***************************************************************************)
EXTENDS MCAba

CONSTANT Runner         \* the thread that is not suspended

\* World addresses are numbers here and the allocator returns the lowest
\* one: names are of no interest to progress, and symmetry is of no use to
\* the checking of liveness.
InOrder == \A w \in free \ free' : \A v \in free : w <= v

\* The newcomers register, and all threads free, check in and unregister.
NextAlone ==
    /\ \/ \E t \in Threads : \/ FreeStep(t) \/ CheckinStep(t) \/ UnregisterStep(t)
                             \/ \E p \in Pointers : Free(t, p)
       \/ \E t \in Newcomers : RegisterStep(t)
    /\ InOrder

\* Nothing is asked of the scheduler but that it runs the one thread.
SpecAlone ==
    VeteransRegistered /\ [][NextAlone]_vars /\ WF_vars(CallStep(Runner) /\ InOrder)

OthersMove == \E u \in Threads \ {Runner} : pc[u] # pc'[u]

\* The bounds of the model do not hold the thread up.
Room == store[wp.w].ts < MaxTimestamp /\ free # {}

\* dox/API.md calls mulle_aba_free and mulle_aba_checkin lock-free, and says
\* that a registration does not block mulle_aba_free: they come to an end
\* when all other threads stop for good, be it between locking the world and
\* replacing it, or between publishing a timestamp and counting for it.
FreeAndCheckinEnd ==
    \/ []<><<OthersMove>>_vars
    \/ []<>(op[Runner] \notin {"free", "checkin"} \/ ~ Room)

\* mulle_aba_register and mulle_aba_unregister ("soft-blocking") come to an
\* end when the others stop, unless one of those is registering or
\* unregistering: no lock and no reason to start over is left behind.
RegisterAndUnregisterEnd ==
    \/ []<><<OthersMove>>_vars
    \/ []<>(\/ op[Runner] \notin {"register", "unregister"}
            \/ \E u \in Threads \ {Runner} : op[u] \in {"register", "unregister"}
            \/ ~ Room)

=============================================================================
