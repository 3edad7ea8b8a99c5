------------------------------ MODULE MCTtsStreams ------------------------------
(***************************************************************************)
(* The instance of TtsStreams that TLC checks.  The streams are alike: no   *)
(* action orders them or names one, and every property the run checks is a  *)
(* safety property, so states that differ by their names are one.           *)
(***************************************************************************)
EXTENDS TtsStreams, TLC

Symmetry == Permutations(Streams)
=============================================================================
