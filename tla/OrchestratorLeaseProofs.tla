---------------------- MODULE OrchestratorLeaseProofs ----------------------
(***************************************************************************)
(* The lease admits one orchestrator at a time, for any number of launches *)
(* on any hosts, until one forces a takeover or outlasts the staleness     *)
(* threshold in a phase without a heartbeat.  What a superseded or killed  *)
(* owner may do to its successor's lease is proved without the condition.  *)
(*                                                                         *)
(* The lock under which the lease is rewritten comes first: until a        *)
(* process dies inside a mutation, or two judge it stale at once, it is    *)
(* exclusive, although contenders judge by an owner file that is written   *)
(* after the directory and unlinked before it, and although a release that *)
(* fails leaves the directory behind.  One crash, or one such release and  *)
(* two verdicts, are enough to lose this (README, known departures).       *)
(***************************************************************************)
EXTENDS OrchestratorLease, LeaseWriteLock, TLAPS

(* Whoever is in the lock made the directory, it stays young while it is,    *)
(* and the owner file names no other.  A verdict is of a directory that was  *)
(* left behind, so nobody can be in it, and only one stands.                 *)
OwnsDir == \A p \in Process : stage[p] \in InLock => dir /\ creator = p
HeldIsYoung == \A p \in Process : stage[p] \in InLock => age = Young
InsideNamed == \A p \in Process : stage[p] \in {"inside", "leaving"} => owner = p
OneVerdict == \A p, q \in Process : stage[p] = "reclaiming" /\ stage[q] = "reclaiming" => p = q
VerdictStands ==
  \A p \in Process : stage[p] = "reclaiming" => dir /\ \A q \in Process : stage[q] \notin InLock
LockInv ==
  /\ LockTypeOK /\ OwnsDir /\ HeldIsYoung /\ InsideNamed
  /\ OneVerdict /\ VerdictStands

(* The variables keep their types.                                           *)
THEOREM LockTypeCorrect == LockSpec => []LockTypeOK
<1>1. LockInit => LockTypeOK
  BY DEF LockInit, LockTypeOK, Young, InLock
<1>2. LockTypeOK /\ [LockNext]_lockVars => LockTypeOK'
  <2> SUFFICES ASSUME LockTypeOK, [LockNext]_lockVars PROVE LockTypeOK'
    OBVIOUS
  <2> USE DEF LockTypeOK, InLock, MoveTo, KeepDir, RemoveDir, Young, PastTimeout,
          PastStale
  <2>1. ASSUME NEW p \in Process, LockStep(p) PROVE LockTypeOK'
    BY <2>1 DEF LockStep, Mkdir, JudgeStale, Reclaim, ReclaimFails, Timeout, WriteOwner,
       WriteOwnerFails, Exit, UnlinkOwner, ReleaseLock, LeaveBehind
  <2>2. ASSUME NEW p \in Process, Call(p) \/ Die(p) PROVE LockTypeOK'
    BY <2>2 DEF Call, Die
  <2>3. CASE AgeDir
    BY <2>3 DEF AgeDir
  <2>4. CASE UNCHANGED lockVars
    BY <2>4 DEF lockVars
  <2> QED
    BY <2>1, <2>2, <2>3, <2>4 DEF LockNext
<1> QED
  BY <1>1, <1>2, PTL DEF LockSpec

LEMMA LockInvStep ==
  ASSUME Orderly, Orderly', LockInv, LockTypeOK', [LockNext]_lockVars
  PROVE  LockInv'
<1> USE DEF LockInv, LockTypeOK, OwnsDir, HeldIsYoung, InsideNamed, OneVerdict, VerdictStands,
        InLock, MoveTo, KeepDir, Young, Orderly
<1>1. ASSUME NEW p \in Process, Call(p) PROVE LockInv'
  BY <1>1 DEF Call
<1>2. ASSUME NEW p \in Process, Mkdir(p) PROVE LockInv'
  BY <1>2 DEF Mkdir
<1>3. ASSUME NEW p \in Process, JudgeStale(p) PROVE LockInv'
  <2>1. \A q \in Process : stage[q] \notin InLock
    \* a held directory is young, and no owner is dead
    BY <1>3, HostsAssumption DEF JudgeStale, IsStale, PastStale, NobodyDied
  <2>2. \A q \in Process : stage[q] # "reclaiming"
    BY <1>3 DEF JudgeStale
  <2> QED
    BY <1>3, <2>1, <2>2 DEF JudgeStale
<1>4. ASSUME NEW p \in Process, Reclaim(p) PROVE LockInv'
  BY <1>4 DEF Reclaim, RemoveDir
<1>5. ASSUME NEW p \in Process, Timeout(p) \/ ReclaimFails(p) PROVE LockInv'
  BY <1>5 DEF Timeout, ReclaimFails
<1>6. ASSUME NEW p \in Process, WriteOwner(p) PROVE LockInv'
  BY <1>6 DEF WriteOwner
<1>7. ASSUME NEW p \in Process, WriteOwnerFails(p) \/ ReleaseLock(p) PROVE LockInv'
  <2>1. /\ stage' = [stage EXCEPT ![p] = "idle"] /\ stage[p] \in {"entering", "removing"}
        /\ owner' = owner
    BY <1>7 DEF WriteOwnerFails, ReleaseLock
  <2>2. \A q \in Process : stage[q] \in InLock => q = p
    BY <2>1
  <2>3. \A q \in Process : stage'[q] \notin InLock /\ stage'[q] # "reclaiming"
    BY <2>1, <2>2
  <2> QED
    BY <2>1, <2>3
<1>8. ASSUME NEW p \in Process, Exit(p) PROVE LockInv'
  BY <1>8 DEF Exit
<1>9. ASSUME NEW p \in Process, UnlinkOwner(p) PROVE LockInv'
  BY <1>9 DEF UnlinkOwner
<1>10. ASSUME NEW p \in Process, LeaveBehind(p) PROVE LockInv'
  BY <1>10 DEF LeaveBehind
<1>11. ASSUME NEW p \in Process, Die(p) PROVE LockInv'
  BY <1>11 DEF Die, NobodyDied
<1>12. CASE AgeDir
  <2>1. \A p \in Process : stage[p] \notin InLock
    BY <1>12 DEF AgeDir
  <2> QED
    BY <1>12, <2>1 DEF AgeDir
<1>13. CASE UNCHANGED lockVars
  BY <1>13 DEF lockVars
<1> QED
  BY <1>1, <1>2, <1>3, <1>4, <1>5, <1>6, <1>7, <1>8, <1>9, <1>10, <1>11, <1>12, <1>13
     DEF LockNext, LockStep

\* Nobody who died comes back, and two verdicts that stood at once are not forgotten.
LEMMA LockInvariance == LockSpec => [](Orderly => LockInv)
<1>1. LockInit => LockInv
  BY DEF LockInit, LockInv, LockTypeOK, OwnsDir, HeldIsYoung, InsideNamed, OneVerdict,
     VerdictStands, InLock, Young
<1>2. ASSUME LockTypeOK, LockTypeOK', Orderly', [LockNext]_lockVars PROVE Orderly
  <2> USE <1>2 DEF LockTypeOK, Orderly, NobodyDied, MoveTo, InLock
  <2>1. ASSUME NEW p \in Process, Call(p) \/ LockStep(p) \/ Die(p) PROVE Orderly
    <3>1. PICK place : stage' = [stage EXCEPT ![p] = place] /\ stage[p] # "dead"
      BY <2>1 DEF Call, LockStep, Mkdir, JudgeStale, Reclaim, ReclaimFails, Timeout, WriteOwner,
         WriteOwnerFails, Exit, UnlinkOwner, ReleaseLock, LeaveBehind, Die
    <3>2. raced => raced'
      BY <2>1 DEF Call, LockStep, Mkdir, JudgeStale, Reclaim, ReclaimFails, Timeout, WriteOwner,
         WriteOwnerFails, Exit, UnlinkOwner, ReleaseLock, LeaveBehind, Die
    <3> QED
      BY <3>1, <3>2
  <2> QED
    BY <2>1 DEF LockNext, AgeDir, lockVars
<1>3. ASSUME LockTypeOK, LockTypeOK', Orderly => LockInv, [LockNext]_lockVars
      PROVE  (Orderly => LockInv)'
  BY <1>2, <1>3, LockInvStep
<1> QED
  BY <1>1, <1>3, LockTypeCorrect, PTL DEF LockSpec

(* Until somebody dies in the lock, or two judge it stale at once, one       *)
(* process mutates the lease at a time, failed releases included.            *)
THEOREM LeaseLockExclusive == LockSpec => []ExclusiveUntilDeath
<1>1. (Orderly => LockInv) => ExclusiveUntilDeath
  BY DEF LockInv, OwnsDir, Exclusive, ExclusiveUntilDeath, InLock
<1> QED
  BY <1>1, LockInvariance, PTL

(* ... and the owner file names the process inside until it leaves.          *)
THEOREM LeaseLockOwner == LockSpec => []OwnerFileNamesHolder
<1>1. (Orderly => LockInv) => OwnerFileNamesHolder
  BY DEF LockInv, OwnsDir, InsideNamed, OwnerFileNamesHolder, InLock
<1> QED
  BY <1>1, LockInvariance, PTL

-----------------------------------------------------------------------------
(* The lease a working process holds, with the token it remembers, is the    *)
(* whole inductive argument: two such processes would be one owner.          *)
Inv == TypeOK /\ WorkersHoldLease

LEMMA TakeLease ==
  ASSUME NEW p \in Process, Take(p)
  PROVE  lease' \in Lease /\ lease' # NoLease /\ lease'.owner = p /\ lease'.fresh
<1>1. lease' = [owner |-> p, fresh |-> TRUE]
  BY DEF Take
<1>2. [owner |-> p, fresh |-> TRUE] \in [owner : Process, fresh : BOOLEAN]
  OBVIOUS
<1> QED
  BY <1>1, <1>2, LeaseAssumption, HostsAssumption DEF Lease

(* The lease file, the phases and the token table keep their types.          *)
THEOREM TypeCorrect == Spec => []TypeOK
<1>1. Init => TypeOK
  BY DEF Init, TypeOK
<1>2. TypeOK /\ [Next]_vars => TypeOK'
  <2> SUFFICES ASSUME TypeOK, [Next]_vars PROVE TypeOK'
    OBVIOUS
  <2> USE DEF TypeOK, Goto, Lease, Working
  <2>1. ASSUME NEW p \in Process, Acquire(p) \/ AcquireForced(p) \/ Refused(p) PROVE TypeOK'
    <3>1. CASE Take(p)
      BY <3>1, TakeLease DEF Take
    <3>2. CASE Refused(p)
      BY <3>2 DEF Refused
    <3> QED
      BY <2>1, <3>1, <3>2 DEF Acquire, AcquireForced
  <2>2. ASSUME NEW p \in Process, StartHeartbeat(p) \/ Beat(p) \/ StopHeartbeat(p) PROVE TypeOK'
    BY <2>2 DEF StartHeartbeat, Beat, StopHeartbeat, Owns
  <2>3. ASSUME NEW p \in Process, Release(p) \/ ReleaseFails(p) \/ Crash(p) PROVE TypeOK'
    BY <2>3 DEF Release, ReleaseFails, Crash
  <2>4. CASE KillReads \/ KillSignals \/ KillGivesUp \/ KillClears
    BY <2>4 DEF KillReads, KillSignals, KillGivesUp, KillClears
  <2>5. CASE Age
    BY <2>5 DEF Age
  <2>6. CASE UNCHANGED vars
    BY <2>6 DEF vars
  <2> QED
    BY <2>1, <2>2, <2>3, <2>4, <2>5, <2>6 DEF Next
<1> QED
  BY <1>1, <1>2, PTL DEF Spec

LEMMA InvStep ==
  ASSUME Undisturbed, Undisturbed', Inv, TypeOK', [Next]_vars
  PROVE  Inv'
<1> USE LeaseAssumption, HostsAssumption DEF Undisturbed, Inv, TypeOK, WorkersHoldLease, Owns, Goto, Lease,
        Working, Gone
<1>1. ASSUME NEW p \in Process, Acquire(p) PROVE Inv'
  \* a lease that may be taken over has no working owner, so nobody works
  <2>1. \A q \in Process : pc[q] \notin Working
    BY <1>1 DEF Acquire, CanTakeOver
  <2>2. Take(p)
    BY <1>1 DEF Acquire
  <2>3. remembers' = remembers \cup {p} /\ pc' = [pc EXCEPT ![p] = "starting"]
    BY <2>2 DEF Take
  <2> QED
    BY <2>1, <2>2, <2>3, TakeLease
<1>2. ASSUME NEW p \in Process, AcquireForced(p) PROVE Inv'
  \* a forced launch has left "new"
  BY <1>2, TakeLease DEF AcquireForced, Take
<1>3. ASSUME NEW p \in Process, Refused(p) PROVE Inv'
  BY <1>3 DEF Refused
<1>4. ASSUME NEW p \in Process, StartHeartbeat(p) \/ StopHeartbeat(p) PROVE Inv'
  BY <1>4 DEF StartHeartbeat, StopHeartbeat
<1>5. ASSUME NEW p \in Process, Beat(p) PROVE Inv'
  BY <1>5 DEF Beat
<1>6. ASSUME NEW p \in Process, Release(p) PROVE Inv'
  BY <1>6 DEF Release
<1>7. ASSUME NEW p \in Process, ReleaseFails(p) \/ Crash(p) PROVE Inv'
  BY <1>7 DEF ReleaseFails, Crash
<1>8. CASE KillReads \/ KillGivesUp
  BY <1>8 DEF KillReads, KillGivesUp
<1>9. CASE KillSignals
  BY <1>9 DEF KillSignals
<1>10. CASE KillClears
  BY <1>10 DEF KillClears
<1>11. CASE Age
  BY <1>11 DEF Age
<1>12. CASE UNCHANGED vars
  BY <1>12 DEF vars
<1> QED
  BY <1>1, <1>2, <1>3, <1>4, <1>5, <1>6, <1>7, <1>8, <1>9, <1>10, <1>11, <1>12 DEF Next

\* No launch becomes new again.
LEMMA Calm ==
  ASSUME TypeOK, Undisturbed', [Next]_vars
  PROVE  Undisturbed
<1> USE LeaseAssumption, HostsAssumption DEF TypeOK, Undisturbed, Goto, Working, Lease
<1>1. ASSUME NEW p \in Process, NEW place, pc' = [pc EXCEPT ![p] = place], place # "new"
      PROVE  Undisturbed
  BY <1>1
<1>2. ASSUME NEW p \in Process,
             \/ Acquire(p) \/ AcquireForced(p) \/ Refused(p) \/ StartHeartbeat(p)
             \/ StopHeartbeat(p) \/ Release(p) \/ ReleaseFails(p) \/ Crash(p)
      PROVE  Undisturbed
  BY <1>1, <1>2 DEF Acquire, AcquireForced, Take, Refused, StartHeartbeat, StopHeartbeat,
     Release, ReleaseFails, Crash
<1>3. CASE KillSignals
  BY <1>1, <1>3 DEF KillSignals
<1> QED
  BY <1>2, <1>3 DEF Next, vars, Beat, KillReads, KillGivesUp, KillClears, Age

(* Whoever works is named by a live lease, until somebody forces a takeover  *)
(* or stays too long in a phase without a heartbeat.                         *)
THEOREM LeaseHeld == Spec => []WorkerHoldsLiveLease
<1>1. Init => WorkerHoldsLiveLease
  BY DEF Init, WorkerHoldsLiveLease, WorkersHoldLease, Working
<1>2. TypeOK /\ TypeOK' /\ WorkerHoldsLiveLease /\ [Next]_vars => WorkerHoldsLiveLease'
  BY InvStep, Calm DEF Inv, WorkerHoldsLiveLease
<1> QED
  BY <1>1, <1>2, TypeCorrect, PTL DEF Spec

(* Until then two orchestrators never work on the same run.                  *)
THEOREM SingleOrchestrator == Spec => []OneOrchestrator
<1>1. WorkerHoldsLiveLease => OneOrchestrator
  BY DEF WorkerHoldsLiveLease, WorkersHoldLease, OneOrchestrator, Owns
<1> QED
  BY <1>1, LeaseHeld, PTL

(* A working orchestrator's lease is never removed, forced takeovers, long   *)
(* phases, late releases and kills included.                                 *)
THEOREM LeaseNotRemoved == Spec => LiveLeaseStays
<1>1. ASSUME TypeOK, [Next]_vars, lease # NoLease, lease' = NoLease
      PROVE  pc'[lease.owner] \notin Working
  <2> USE <1>1, LeaseAssumption, HostsAssumption DEF TypeOK, Lease, Goto, Owns, Gone, Working
  <2>1. ASSUME NEW p \in Process, Release(p) PROVE pc'[lease.owner] \notin Working
    BY <2>1 DEF Release
  <2>2. CASE KillClears
    BY <2>2 DEF KillClears
  <2>3. ASSUME NEW p \in Process, Acquire(p) \/ AcquireForced(p) PROVE FALSE
    BY <2>3, TakeLease DEF Acquire, AcquireForced
  <2>4. ASSUME NEW p \in Process, Beat(p) PROVE FALSE
    <3>1. lease' \in [owner : Process, fresh : BOOLEAN]
      BY <2>4 DEF Beat
    <3> QED
      BY <3>1
  <2>5. CASE Age
    <3>1. lease' \in [owner : Process, fresh : BOOLEAN]
      BY <2>5 DEF Age
    <3> QED
      BY <3>1
  <2> QED
    BY <2>1, <2>2, <2>3, <2>4, <2>5 DEF Next, vars, Refused, StartHeartbeat, StopHeartbeat,
       ReleaseFails, Crash, KillReads, KillSignals, KillGivesUp
<1>2. TypeOK /\ [Next]_vars
      => [lease # NoLease /\ lease' = NoLease => pc'[lease.owner] \notin Working]_vars
  BY <1>1
<1> QED
  BY <1>2, TypeCorrect, PTL DEF Spec, LiveLeaseStays

(* Nobody refreshes the lease of an orchestrator that is gone.               *)
THEOREM DeadLeaseExpires == Spec => DeadLeaseStaysStale
<1>1. ASSUME TypeOK, [Next]_vars, lease # NoLease, Gone(lease.owner), ~ lease.fresh
      PROVE  lease' \in {lease, NoLease} \/ lease'.owner # lease.owner
  <2> USE <1>1, LeaseAssumption, HostsAssumption DEF TypeOK, Lease, Goto, Owns, Gone, Working
  <2>1. ASSUME NEW p \in Process, Acquire(p) \/ AcquireForced(p)
        PROVE  lease'.owner # lease.owner
    BY <2>1 DEF Acquire, AcquireForced, Take
  <2>2. ASSUME NEW p \in Process, Beat(p) PROVE FALSE
    BY <2>2 DEF Beat
  <2>3. CASE Age
    BY <2>3 DEF Age
  <2>4. ASSUME NEW p \in Process, Release(p) PROVE lease' \in {lease, NoLease}
    BY <2>4 DEF Release
  <2>5. CASE KillClears
    BY <2>5 DEF KillClears
  <2> QED
    BY <2>1, <2>2, <2>3, <2>4, <2>5 DEF Next, vars, Refused, StartHeartbeat, StopHeartbeat,
       ReleaseFails, Crash, KillReads, KillSignals, KillGivesUp
<1>2. TypeOK /\ [Next]_vars
      => [lease # NoLease /\ Gone(lease.owner) /\ ~ lease.fresh
          => lease' \in {lease, NoLease} \/ lease'.owner # lease.owner]_vars
  BY <1>1
<1> QED
  BY <1>2, TypeCorrect, PTL DEF Spec, DeadLeaseStaysStale
=============================================================================
