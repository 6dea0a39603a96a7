------------------------------ MODULE MCSysStat ------------------------------
(***************************************************************************)
(* Instances of SysStat for TLC.                                           *)
(***************************************************************************)
EXTENDS SysStat, TLC

PidSymmetry == Permutations(Pids)

\* All lists, one, and the lists sampled but not reported: large, small and
\* empty messages, and recording switched on and off.
HostConfs == {Features \cup {"recording"}, {"process"}, {"cpu"}}

=============================================================================
