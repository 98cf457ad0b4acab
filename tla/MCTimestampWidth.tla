-------------------------- MODULE MCTimestampWidth --------------------------
(***************************************************************************)
(* Instances of TimestampWidth for TLC.                                    *)
(***************************************************************************)
EXTENDS TimestampWidth, TLC

Symmetric == Permutations(Threads)

=============================================================================
