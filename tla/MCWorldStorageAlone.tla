------------------------- MODULE MCWorldStorageAlone -------------------------
(***************************************************************************)
(* A free that has to find room for the next timestamp, alone.             *)
(***************************************************************************)
EXTENDS MCWorldStorage

CONSTANT Runner         \* the thread that is not suspended

\* Storages are numbers here and the allocator returns the lowest one.
InOrder == \A s \in pool \ pool' : \A v \in pool : s <= v

InitAlone == AllRegistered /\ wp.st = [k \in DOMAIN wp.st |-> k]

CallStep(t) == pc[t] # "idle" /\ (FreeStep(t) \/ CheckinStep(t))

SpecAlone ==
    InitAlone /\ [][NextRunning /\ InOrder]_vars /\ WF_vars(CallStep(Runner) /\ InOrder)

OthersMove == \E u \in Threads \ {Runner} : pc[u] # pc'[u]

\* The bounds of the model do not hold the thread up.
Room == wp.ts < MaxTimestamp /\ pool # {}

\* The loop of _mulle_aba_free_owned_pointer, which chooses between four ways
\* to go on and starts over with EBUSY, ends when the other threads stop
\* wherever they are: what is chosen for one world is not refused for the
\* same one.
FreeLoopEnds ==
    \/ []<><<OthersMove>>_vars
    \/ []<>(pc[Runner] = "idle" \/ ~ Room)

=============================================================================
