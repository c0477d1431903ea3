----------------------------- MODULE LeaseHosts -----------------------------
(* The processes that contend for the lease of a run directory, and where   *)
(* they run.                                                               *)
CONSTANTS
  Process, Nobody,
  HostOf(_)      \* the host a process, or the operator's kill command, runs on

ASSUME HostsAssumption == Nobody \notin Process
=============================================================================
