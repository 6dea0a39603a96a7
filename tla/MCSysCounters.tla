---------------------------- MODULE MCSysCounters ----------------------------
(***************************************************************************)
(* Instances of SysCounters for TLC.                                       *)
(***************************************************************************)
EXTENDS SysCounters

=============================================================================
