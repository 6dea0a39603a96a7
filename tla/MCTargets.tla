------------------------------ MODULE MCTargets ------------------------------
(***************************************************************************)
(* Instances of Targets for TLC.                                           *)
(***************************************************************************)
EXTENDS Targets, TLC

\* Applications are interchangeable; used by the safety run only.
AppSymmetry == Permutations(Apps)

=============================================================================
