------------------------------ MODULE MCProbes -------------------------------
(***************************************************************************)
(* Probes for TLC: libraries and probes are interchangeable.               *)
(***************************************************************************)
EXTENDS Probes, TLC

ProbeSymmetry == Permutations(Libs) \cup Permutations(Probes)
=============================================================================
