-------------------------- MODULE MCLeaseWriteLock --------------------------
(* Instances of LeaseWriteLock: processes on one host, or spread over two.   *)
EXTENDS LeaseWriteLock
CONSTANTS a, b, c, d
OneHost(p) == "vm"
TwoHosts(p) == IF p \in {c, d} THEN "laptop" ELSE "vm"
=============================================================================
