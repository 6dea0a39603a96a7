------------------------------- MODULE ProbeSet ------------------------------
(***************************************************************************)
(* What SWAP_INST_ADD and SWAP_INST_REMOVE promise a host: a set of        *)
(* instrumented libraries, each with a set of probes.                      *)
(***************************************************************************)
CONSTANTS Libs, Probes

VARIABLE installed  \* the libraries, each with its probes

Init == installed = [l \in {} |-> {}]

\* Libraries that are not instrumented yet, each with its probes.
Add ==
  \E new \in SUBSET (Libs \ DOMAIN installed) : \E probes \in [new -> SUBSET Probes] :
    installed' = [l \in DOMAIN installed \cup new |->
                    IF l \in new THEN probes[l] ELSE installed[l]]

\* A library named without probes goes altogether, and one that keeps none.
Remove ==
  \E named \in SUBSET Libs : \E probes \in [named -> SUBSET Probes] :
    LET left(l) == IF l \in named THEN installed[l] \ probes[l] ELSE installed[l]
        gone == {l \in DOMAIN installed \cap named : probes[l] = {} \/ left(l) = {}}
    IN  installed' = [l \in DOMAIN installed \ gone |-> left(l)]

Next == Add \/ Remove

Spec == Init /\ [][Next]_installed
=============================================================================
