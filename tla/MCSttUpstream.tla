------------------------------ MODULE MCSttUpstream ------------------------------
(***************************************************************************)
(* The instance of SttUpstream that TLC checks.  The sessions are alike: no *)
(* action orders them or names one, and the run checks invariants alone.    *)
(***************************************************************************)
EXTENDS SttUpstream, TLC

Symmetry == Permutations(Sessions)
=============================================================================
