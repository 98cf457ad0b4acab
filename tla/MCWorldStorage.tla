--------------------------- MODULE MCWorldStorage ---------------------------
(***************************************************************************)
(* Instances of WorldStorage for TLC.                                      *)
(***************************************************************************)
EXTENDS WorldStorageInvariant, TLC

Symmetric == Permutations(Threads) \cup Permutations(Storages)

\* What is in a storage that is not allocated is of no interest: it is
\* cleared when it is allocated.
View ==
    <<wp, [s \in Storages \ pool |-> <<bits[s], rc[s], list[s]>>], pool,
      tss, pc, op, new, cur, chain, owp, ofresh, cwp, cfresh, kind, mine, own, i>>

-----------------------------------------------------------------------------
\* Runs that begin in the middle: all threads have registered, which raised
\* the timestamp once for each after the first, and have checked in since.
Raises == Cardinality(Threads) - 1

\* The storages it took, one after the other.
Allocated(s, n) ==
    \A k \in 1 .. n : s[k] \in Storages /\ \A l \in 1 .. k - 1 : s[k] # s[l]

AllRegistered ==
    /\ \E s \in [1 .. Raises \div N + 1 -> Storages] :
          /\ Allocated(s, Raises \div N + 1)
          /\ wp = [bit |-> 1, lock |-> 0, ts |-> Raises, nt |-> Cardinality(Threads),
                   off |-> 0, size |-> Raises \div N + 1, st |-> s]
          /\ pool = Storages \ StoragesOf(wp)
    /\ bits  = [s \in Storages |-> {}]
    /\ rc    = [s \in Storages |-> [x \in Indices |-> -1]]
    /\ list  = [s \in Storages |-> [x \in Indices |-> {}]]
    /\ tss   = [t \in Threads |-> Raises + 1]
    /\ pc    = [t \in Threads |-> "idle"]
    /\ op    = [t \in Threads |-> "none"]
    /\ new   = [t \in Threads |-> 0]
    /\ cur   = [t \in Threads |-> 0]
    /\ chain = [t \in Threads |-> 0]
    /\ owp   = [t \in Threads |-> NoWorld]
    /\ cwp   = [t \in Threads |-> NoWorld]
    /\ ofresh = {} /\ cfresh = {}
    /\ kind  = [t \in Threads |-> "none"]
    /\ mine  = [t \in Threads |-> NoWorld]
    /\ own   = [t \in Threads |-> None]
    /\ i     = [t \in Threads |-> 0]

NextRunning == \E t \in Threads : FreeStep(t) \/ CheckinStep(t)

SpecRunning == AllRegistered /\ [][NextRunning]_vars

=============================================================================
