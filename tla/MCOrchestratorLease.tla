------------------------ MODULE MCOrchestratorLease ------------------------
(* Launches on a laptop and on a vm; the kill command runs on the vm.        *)
EXTENDS OrchestratorLease
CONSTANTS a, b, c, d, e
TwoHosts(p) == IF p \in {a, e} THEN "laptop" ELSE "vm"
=============================================================================
