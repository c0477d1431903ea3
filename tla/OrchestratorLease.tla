------------------------- MODULE OrchestratorLease -------------------------
(***************************************************************************)
(* io/orchestrator_lease.py with its callers in commands/run_process.py    *)
(* and commands/kill.py: the lease that keeps two orchestrators off one    *)
(* run directory.                                                          *)
(*                                                                         *)
(* Each process runs the run once, so it stands for its own PID and owner  *)
(* token.  A lease mutation is one step: LeaseWriteLock models the lock    *)
(* under which the code reads and rewrites the file.  The age of the last  *)
(* heartbeat is one bit, fresh or past STALE_THRESHOLD_S.                  *)
(* Faulty... definitions are the bugs of the runs' mutants.                *)
(***************************************************************************)
EXTENDS LeaseHosts

CONSTANTS
  NoLease,
  Forcing,       \* the launches given --force
  Slow           \* those whose phases without a heartbeat may outlast STALE_THRESHOLD_S

ASSUME LeaseAssumption ==
  /\ NoLease \notin [owner : Process, fresh : BOOLEAN]
  /\ Forcing \subseteq Process /\ Slow \subseteq Process

VARIABLES
  lease,     \* orchestrator-lease.yaml
  pc,        \* where each orchestrator is in run_process_command
  remembers, \* those with an entry in their _owned_lease_tokens
  target     \* the owner that a kill command read from the lease

vars == <<lease, pc, remembers, target>>

Lease == [owner : Process, fresh : BOOLEAN]
Working == {"starting", "running", "finalizing"}

TypeOK ==
  /\ lease \in Lease \cup {NoLease}
  /\ pc \in [Process -> Working \cup {"new", "exited", "dead"}]
  /\ remembers \subseteq Process
  /\ target \in Process \cup {Nobody}

Init ==
  /\ lease = NoLease /\ remembers = {} /\ target = Nobody
  /\ pc = [p \in Process |-> "new"]

Goto(p, place) == pc' = [pc EXCEPT ![p] = place]
Gone(p) == pc[p] \in {"exited", "dead"}
Owns(p) == lease # NoLease /\ lease.owner = p /\ p \in remembers

\* the PID asked for on this host, whichever host the owner is on
FaultyCanTakeOver(p) == ~ lease.fresh \/ Gone(lease.owner) \/ HostOf(lease.owner) # HostOf(p)

CanTakeOver(p) ==
  \/ ~ lease.fresh
  \/ HostOf(lease.owner) = HostOf(p) /\ Gone(lease.owner)

Take(p) ==
  /\ lease' = [owner |-> p, fresh |-> TRUE]
  /\ remembers' = remembers \cup {p}
  /\ Goto(p, "starting")
  /\ UNCHANGED target

Acquire(p) == pc[p] = "new" /\ (lease # NoLease => CanTakeOver(p)) /\ Take(p)

AcquireForced(p) == pc[p] = "new" /\ p \in Forcing /\ Take(p)

Refused(p) ==
  /\ pc[p] = "new" /\ p \notin Forcing /\ lease # NoLease /\ ~ CanTakeOver(p)
  /\ Goto(p, "exited")
  /\ UNCHANGED <<lease, remembers, target>>

\* The resume changes, spend ledger and plan are in place: the heartbeat thread starts.
StartHeartbeat(p) == pc[p] = "starting" /\ Goto(p, "running") /\ UNCHANGED <<lease, remembers, target>>

\* whoever holds the lease
FaultyBeat(p) ==
  /\ pc[p] = "running" /\ lease # NoLease
  /\ lease' = [lease EXCEPT !.fresh = TRUE]
  /\ UNCHANGED <<pc, remembers, target>>

\* A heartbeat that finds another owner, or no lease, does nothing and tells nobody.
Beat(p) ==
  /\ pc[p] = "running" /\ Owns(p)
  /\ lease' = [lease EXCEPT !.fresh = TRUE]
  /\ UNCHANGED <<pc, remembers, target>>

\* The heartbeat has stopped; the summaries are still being written.
StopHeartbeat(p) == pc[p] = "running" /\ Goto(p, "finalizing") /\ UNCHANGED <<lease, remembers, target>>

FaultyRelease(p) ==
  /\ pc[p] \in {"starting", "finalizing"}
  /\ lease' = NoLease
  /\ remembers' = remembers \ {p}
  /\ Goto(p, "exited")
  /\ UNCHANGED target

\* A launch refused under the lease, or the end of the run; a lease of another owner stays.
Release(p) ==
  /\ pc[p] \in {"starting", "finalizing"}
  /\ lease' = IF Owns(p) THEN NoLease ELSE lease
  /\ remembers' = remembers \ {p}
  /\ Goto(p, "exited")
  /\ UNCHANGED target

\* The mutation lock timed out: the file stays, the token is forgotten all the same.
ReleaseFails(p) ==
  /\ pc[p] \in {"starting", "finalizing"}
  /\ remembers' = remembers \ {p}
  /\ Goto(p, "exited")
  /\ UNCHANGED <<lease, target>>

Crash(p) ==
  /\ pc[p] \in Working
  /\ Goto(p, "dead")
  /\ remembers' = remembers \ {p}
  /\ UNCHANGED <<lease, target>>

\* kill: read the lease, signal the PID it names, wait for its exit, clear that lease.
KillReads ==
  /\ target = Nobody /\ lease # NoLease /\ HostOf(lease.owner) = HostOf(Nobody)
  /\ target' = lease.owner
  /\ UNCHANGED <<lease, pc, remembers>>

KillSignals ==
  /\ target # Nobody /\ ~ Gone(target)
  /\ Goto(target, "dead")
  /\ remembers' = remembers \ {target}
  /\ UNCHANGED <<lease, target>>

\* It is still there after the wait, or the signal was refused: the lease stays.
KillGivesUp ==
  /\ target # Nobody /\ ~ Gone(target)
  /\ target' = Nobody
  /\ UNCHANGED <<lease, pc, remembers>>

KillClears ==
  /\ target # Nobody /\ Gone(target)
  /\ lease' = IF lease # NoLease /\ lease.owner = target THEN NoLease ELSE lease
  /\ target' = Nobody
  /\ UNCHANGED <<pc, remembers>>

\* Four heartbeats fit into STALE_THRESHOLD_S, so a lease ages when its owner is gone,
\* has lost its token, or is in a phase without a heartbeat that takes that long.
Age ==
  /\ lease # NoLease /\ lease.fresh
  /\ \/ Gone(lease.owner)
     \/ lease.owner \in Slow /\ pc[lease.owner] \in {"starting", "finalizing"}
  /\ lease' = [lease EXCEPT !.fresh = FALSE]
  /\ UNCHANGED <<pc, remembers, target>>

Next ==
  \/ \E p \in Process :
       \/ Acquire(p) \/ AcquireForced(p) \/ Refused(p) \/ StartHeartbeat(p)
       \/ Beat(p) \/ StopHeartbeat(p) \/ Release(p) \/ ReleaseFails(p) \/ Crash(p)
  \/ KillReads \/ KillSignals \/ KillGivesUp \/ KillClears
  \/ Age

Spec == Init /\ [][Next]_vars

-----------------------------------------------------------------------------
(* As long as no launch has forced its way in or outlasted the threshold     *)
(* without a heartbeat ...                                                   *)
Undisturbed == \A p \in Forcing \cup Slow : pc[p] = "new"

(* ... two orchestrators never work on the same run, whatever exits, fails   *)
(* to release, crashes or is killed;                                         *)
OneOrchestrator ==
  Undisturbed => \A p, q \in Process : pc[p] \in Working /\ pc[q] \in Working => p = q

(* ... and a working orchestrator is the one the lease names, and the lease  *)
(* is live: status and later launches see it for as long as it works.        *)
WorkersHoldLease == \A p \in Process : pc[p] \in Working => Owns(p) /\ lease.fresh
WorkerHoldsLiveLease == Undisturbed => WorkersHoldLease

(* The lease of a working orchestrator is never removed: not by one that was *)
(* superseded and exits late, nor by a kill aimed at an earlier owner.       *)
LiveLeaseStays ==
  [][lease # NoLease /\ lease' = NoLease => pc'[lease.owner] \notin Working]_vars

(* Nobody keeps a dead orchestrator's lease alive: once stale it stays so    *)
(* until it is taken over or cleared.                                        *)
DeadLeaseStaysStale ==
  [][lease # NoLease /\ Gone(lease.owner) /\ ~ lease.fresh
     => lease' \in {lease, NoLease} \/ lease'.owner # lease.owner]_vars
=============================================================================
