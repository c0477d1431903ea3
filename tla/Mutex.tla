------------------------------- MODULE Mutex -------------------------------
(* What mkdir_lock.py promises: "Exclusive: at most one holder at a time".   *)
(* A holder that crashes never gives the lock back.                          *)
CONSTANTS Process, Nobody

VARIABLE holder

Init == holder = Nobody
Acquire(p) == holder = Nobody /\ holder' = p
Release(p) == holder = p /\ holder' = Nobody
Next == \E p \in Process : Acquire(p) \/ Release(p)
vars == holder
Spec == Init /\ [][Next]_vars
=============================================================================
