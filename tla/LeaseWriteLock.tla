--------------------------- MODULE LeaseWriteLock ---------------------------
(***************************************************************************)
(* io/orchestrator_lease.py, class _LeaseWriteLock: the directory lock     *)
(* that serializes lease mutations, with a file beside it that names its   *)
(* owner and lets a contender on the same host ask whether it is alive.    *)
(*                                                                         *)
(* One action per file-system step of __enter__ and __exit__.  The age of  *)
(* the directory is one of three bands: up to LEASE_LOCK_TIMEOUT_S, up to  *)
(* LEASE_LOCK_STALE_S, older.  A process that crashes never returns.  The  *)
(* calls of __exit__ may fail; only a refused rmdir is even logged, and    *)
(* nothing tries again: the directory stays for contenders to judge.       *)
(* Faulty... definitions are the bugs of the runs' mutants.                *)
(***************************************************************************)
EXTENDS Naturals, LeaseHosts

VARIABLES
  dir,        \* does the lock directory exist?
  age,        \* its age band
  creator,    \* the process whose mkdir made it (history)
  owner,      \* the process named in the owner file
  stage,      \* where each process is in __enter__ and __exit__
  raced       \* have two verdicts of staleness stood at once? (history)

lockVars == <<dir, age, creator, owner, stage, raced>>

Young == 0
PastTimeout == 1
PastStale == 2

InLock == {"entering", "inside", "leaving", "removing"}

LockTypeOK ==
  /\ dir \in BOOLEAN
  /\ age \in {Young, PastTimeout, PastStale}
  /\ creator \in Process \cup {Nobody}
  /\ owner \in Process \cup {Nobody}
  /\ stage \in [Process -> InLock \cup {"idle", "trying", "reclaiming", "dead", "gone"}]
  /\ raced \in BOOLEAN

LockInit ==
  /\ dir = FALSE /\ age = Young /\ creator = Nobody /\ owner = Nobody
  /\ stage = [p \in Process |-> "idle"] /\ raced = FALSE

MoveTo(p, place) == stage' = [stage EXCEPT ![p] = place]
RemoveDir == dir' = FALSE /\ age' = Young /\ creator' = Nobody
KeepDir == UNCHANGED <<dir, age, creator>>

\* a missing owner file taken for an owner that is gone
FaultyIsStale(p) ==
  \/ owner = Nobody
  \/ owner # Nobody /\ HostOf(owner) = HostOf(p) /\ stage[owner] = "dead"
  \/ owner # Nobody /\ HostOf(owner) # HostOf(p) /\ age = PastStale

\* the PID probed whatever the host, the age never asked
FaultyHostIsStale(p) ==
  \/ owner = Nobody /\ age > Young
  \/ owner # Nobody /\ HostOf(owner) = HostOf(p) /\ stage[owner] = "dead"

\* A local owner is asked for; a foreign or unknown one is judged by the age.
IsStale(p) ==
  \/ owner = Nobody /\ age > Young
  \/ owner # Nobody /\ HostOf(owner) = HostOf(p) /\ stage[owner] = "dead"
  \/ owner # Nobody /\ HostOf(owner) # HostOf(p) /\ age = PastStale

Call(p) == stage[p] = "idle" /\ MoveTo(p, "trying") /\ KeepDir /\ UNCHANGED <<owner, raced>>

Mkdir(p) ==
  /\ stage[p] = "trying" /\ ~ dir
  /\ dir' = TRUE /\ age' = Young /\ creator' = p
  /\ MoveTo(p, "entering")
  /\ UNCHANGED <<owner, raced>>

JudgeStale(p) ==
  /\ stage[p] = "trying" /\ dir /\ IsStale(p)
  /\ MoveTo(p, "reclaiming")
  /\ raced' = (raced \/ \E q \in Process : stage[q] = "reclaiming")
  /\ KeepDir /\ UNCHANGED owner

\* rmdir takes the directory and leaves the owner file beside it.
Reclaim(p) ==
  /\ stage[p] = "reclaiming"
  /\ RemoveDir /\ MoveTo(p, "trying")
  /\ UNCHANGED <<owner, raced>>

\* A refused rmdir is suppressed, and the contender looks again.
ReclaimFails(p) ==
  /\ stage[p] = "reclaiming" /\ dir
  /\ MoveTo(p, "trying")
  /\ KeepDir /\ UNCHANGED <<owner, raced>>

Timeout(p) ==
  /\ stage[p] = "trying" /\ dir /\ ~ IsStale(p)
  /\ MoveTo(p, "idle")
  /\ KeepDir /\ UNCHANGED <<owner, raced>>

WriteOwner(p) ==
  /\ stage[p] = "entering"
  /\ owner' = p /\ MoveTo(p, "inside")
  /\ KeepDir /\ UNCHANGED raced

\* The directory is given back, if that does not fail as well.
WriteOwnerFails(p) ==
  /\ stage[p] = "entering"
  /\ RemoveDir \/ KeepDir
  /\ MoveTo(p, "idle")
  /\ UNCHANGED <<owner, raced>>

\* __exit__: a lock that names another owner, or none, is left alone.
Exit(p) ==
  /\ stage[p] = "inside"
  /\ MoveTo(p, IF owner = p THEN "leaving" ELSE "idle")
  /\ KeepDir /\ UNCHANGED <<owner, raced>>

UnlinkOwner(p) ==
  /\ stage[p] = "leaving"
  /\ owner' = Nobody /\ MoveTo(p, "removing")
  /\ KeepDir /\ UNCHANGED raced

ReleaseLock(p) ==
  /\ stage[p] = "removing"
  /\ RemoveDir /\ MoveTo(p, "idle")
  /\ UNCHANGED <<owner, raced>>

\* The owner file could not be read or unlinked, or the rmdir failed: the process goes
\* on without the lock, and the lock without a process.
LeaveBehind(p) ==
  /\ stage[p] \in {"inside", "leaving", "removing"}
  /\ MoveTo(p, "idle")
  /\ KeepDir /\ UNCHANGED <<owner, raced>>

\* "dead" in the lock, or where the owner file may still name it; "gone" outside.
Die(p) ==
  /\ stage[p] \notin {"dead", "gone"}
  /\ MoveTo(p, IF stage[p] \in InLock \/ owner = p THEN "dead" ELSE "gone")
  /\ KeepDir /\ UNCHANGED <<owner, raced>>

\* A lease mutation takes well under LEASE_LOCK_TIMEOUT_S: only the lock of a process
\* that is no longer in it grows old.
AgeDir ==
  /\ dir /\ age < PastStale
  /\ creator \in Process => stage[creator] \notin InLock
  /\ age' = age + 1
  /\ UNCHANGED <<dir, creator, owner, stage, raced>>

LockStep(p) ==
  \/ Mkdir(p) \/ JudgeStale(p) \/ Reclaim(p) \/ ReclaimFails(p) \/ Timeout(p)
  \/ WriteOwner(p) \/ WriteOwnerFails(p)
  \/ Exit(p) \/ UnlinkOwner(p) \/ ReleaseLock(p) \/ LeaveBehind(p)

LockNext == AgeDir \/ \E p \in Process : Call(p) \/ LockStep(p) \/ Die(p)

LockSpec == LockInit /\ [][LockNext]_lockVars

\* A process that asked for the lock goes on until it has left it or died, it asks again
\* at the next heartbeat, time passes, and no directory refuses its removal for ever.
LockFairSpec ==
  /\ LockSpec /\ WF_lockVars(AgeDir)
  /\ \A p \in Process :
       WF_lockVars(LockStep(p)) /\ WF_lockVars(Call(p)) /\ SF_lockVars(Reclaim(p))

-----------------------------------------------------------------------------
(* At most one process mutates the lease file.                               *)
Exclusive == \A p, q \in Process : stage[p] = "inside" /\ stage[q] = "inside" => p = q

(* ... which holds until somebody dies in the lock or two contenders judge   *)
(* it stale at once: locks that failed to be released are reclaimed from     *)
(* under nobody, and an owner file yet unwritten, already unlinked or left   *)
(* behind does not lose a live lock (_LeaseWriteLock, _lease_lock_is_stale). *)
NobodyDied == \A p \in Process : stage[p] # "dead"
Orderly == NobodyDied /\ ~ raced
ExclusiveUntilDeath == Orderly => Exclusive

(* The owner file names the process inside, from the first mutation to the   *)
(* exit's check: nobody's lock is passed over as foreign and leaked.         *)
OwnerFileNamesHolder ==
  Orderly =>
    \A p \in Process : stage[p] \in {"inside", "leaving"} => owner = p /\ dir /\ creator = p

(* Whatever step a holder died in or failed at, with its owner file          *)
(* unwritten, written or unlinked, some survivor gets the lock or nobody     *)
(* survives.  Not so while the file names a live process that left the lock: *)
(* on its host nobody may reclaim it.                                        *)
Left ==
  /\ dir /\ \A p \in Process : stage[p] \notin InLock
  /\ owner \in Process => stage[owner] = "dead"
LeftLockRecovers == Left ~> (~ Left \/ \A p \in Process : stage[p] \in {"dead", "gone"})
=============================================================================
