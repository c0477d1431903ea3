---------------------------- MODULE HostAdmission ----------------------------
(***************************************************************************)
(* runpool/host_admission.py with its callers in runpool/pool.py and       *)
(* scalar_admission.py: the processes of one host that launch agents share *)
(* a bounded number of slots, each a directory with a lease file inside.   *)
(* A launch takes the first slot within its pool's reach, starts           *)
(* its child, records it in the lease and removes the directory when the   *)
(* child is reaped; a slot whose owner and child are gone is reclaimed by  *)
(* whoever scans it.  Everything between two awaits of a pool is one call  *)
(* of its event loop; the pools interleave at each file operation.         *)
(***************************************************************************)
EXTENDS Integers, FiniteSets

CONSTANTS
  Pool, Launch,
  Home,      \* the pool a launch belongs to, whose process owns its slot
  Limit,     \* the number of slots on the host
  Reach,     \* the limit of a pool's own gate: how many of them it scans
  Scalar,    \* the launches under admitted_launch, whose child is not recorded
  Patient,   \* the pools without an acquire timeout
  FailOpen,  \* the pools that launch without a slot rather than fail
  Nobody

ASSUME HostAssumption ==
  /\ Home \in [Launch -> Pool] /\ Limit \in Nat \ {0}
  /\ Reach \in [Pool -> 1..Limit] /\ Scalar \subseteq Launch
  /\ Patient \subseteq Pool /\ FailOpen \subseteq Pool
  /\ Nobody \notin Launch

VARIABLES
  slot,   \* the slot directories
  up,     \* the pools whose process is alive
  pc,     \* how far _run of each launch has come
  at,     \* the slot it scans or holds; Limit when it is past the last one
  child,  \* whether its child process is alive
  loose,  \* history: launches whose child no slot stands for
  raced   \* history: two contenders held a stale verdict of a slot at once

vars == <<slot, up, pc, at, child, loose, raced>>

Slot == 0..(Limit - 1)

\* Ages of a directory: 0 younger than EMPTY_SLOT_GRACE_S, 2 past UNRECORDED_LEASE_GRACE_S.
EmptyGrace == 1
UnrecordedGrace == 2
Directory ==
  [made : BOOLEAN, lease : Launch \cup {Nobody}, recorded : BOOLEAN, age : 0..UnrecordedGrace]

None == [made |-> FALSE, lease |-> Nobody, recorded |-> FALSE, age |-> 0]
Made(l, r) == [made |-> TRUE, lease |-> l, recorded |-> r, age |-> 0]
Empty == Made(Nobody, FALSE)
Fresh(l) == Made(l, FALSE)
Recorded(l) == Made(l, TRUE)

Changing == {"unlinking", "removing", "remaking", "writing", "freeing", "freed"}
Mid == Changing \cup {"scanning"}
Holding == {"held", "launched", "running", "leaving"}
Over == {"done", "failed", "dead"}

TypeOK ==
  /\ slot \in [Slot -> Directory]
  /\ up \subseteq Pool
  /\ pc \in [Launch -> Mid \cup Holding \cup Over \cup {"idle", "waiting"}]
  /\ at \in [Launch -> 0..Limit]
  /\ child \in [Launch -> BOOLEAN]
  /\ loose \subseteq Launch
  /\ raced \in BOOLEAN

Init ==
  /\ slot = [s \in Slot |-> None]
  /\ up = Pool
  /\ pc = [l \in Launch |-> "idle"]
  /\ at = [l \in Launch |-> Limit]
  /\ child = [l \in Launch |-> FALSE]
  /\ loose = {} /\ raced = FALSE

\* The event loop of a live pool is free for this launch.
Turn(l) ==
  /\ Home[l] \in up
  /\ \A m \in Launch \ {l} : Home[m] = Home[l] => pc[m] \notin Mid

Goto(l, p) == pc' = [pc EXCEPT ![l] = p]
GotoSlot(l, p, s) == Goto(l, p) /\ at' = [at EXCEPT ![l] = s]
Here(l) == slot[at[l]]
SetSlot(l, d) == slot' = [slot EXCEPT ![at[l]] = d]

-----------------------------------------------------------------------------
\* HostAdmissionGate.acquire, first scan and after each poll_interval_s
Scan(l) ==
  /\ pc[l] \in {"idle", "waiting"} /\ Turn(l)
  /\ GotoSlot(l, "scanning", 0)
  /\ UNCHANGED <<slot, up, child, loose, raced>>

FaultyOrphanStale(d) ==
  \/ d.lease = Nobody /\ d.age >= EmptyGrace
  \/ /\ d.lease # Nobody
     /\ d.recorded \/ d.age >= UnrecordedGrace
     /\ Home[d.lease] \notin up

FaultyEmptyStale(d) ==
  \/ d.lease = Nobody
  \/ /\ d.lease # Nobody
     /\ d.recorded \/ d.age >= UnrecordedGrace
     /\ Home[d.lease] \notin up /\ ~ (d.recorded /\ child[d.lease])

FaultyNeverEmpty(d) ==
  /\ d.lease # Nobody
  /\ d.recorded \/ d.age >= UnrecordedGrace
  /\ Home[d.lease] \notin up /\ ~ (d.recorded /\ child[d.lease])

\* _reclaim_if_stale
Stale(d) ==
  \/ d.lease = Nobody /\ d.age >= EmptyGrace
  \/ /\ d.lease # Nobody
     /\ d.recorded \/ d.age >= UnrecordedGrace
     /\ Home[d.lease] \notin up /\ ~ (d.recorded /\ child[d.lease])

InSlot(l) == pc[l] = "scanning" /\ at[l] < Reach[Home[l]]

Mkdir(l) ==
  /\ InSlot(l) /\ ~ Here(l).made
  /\ SetSlot(l, Empty) /\ Goto(l, "writing")
  /\ UNCHANGED <<up, at, child, loose, raced>>

Pass(l) ==
  /\ InSlot(l) /\ Here(l).made /\ ~ Stale(Here(l))
  /\ at' = [at EXCEPT ![l] = @ + 1]
  /\ UNCHANGED <<slot, up, pc, child, loose, raced>>

Judge(l) ==
  /\ InSlot(l) /\ Here(l).made /\ Stale(Here(l))
  /\ Goto(l, "unlinking")
  /\ raced' = (raced \/ \E m \in Launch : at[m] = at[l] /\ pc[m] \in {"unlinking", "removing"})
  /\ UNCHANGED <<slot, up, at, child, loose>>

\* rmtree, of _remove_slot or release, empties the directory ...
Unlink(l) ==
  /\ pc[l] \in {"unlinking", "freeing"}
  /\ IF Here(l).lease = Nobody THEN UNCHANGED slot ELSE SetSlot(l, Empty)
  /\ \/ pc[l] = "freeing" /\ Goto(l, "freed")
     \/ pc[l] = "unlinking" /\ Goto(l, "removing")
  /\ UNCHANGED <<up, at, child, loose, raced>>

\* ... and removes it ...
Rmdir(l) ==
  /\ pc[l] \in {"removing", "freed"} /\ Here(l).lease = Nobody
  /\ SetSlot(l, None)
  /\ \/ pc[l] = "freed" /\ GotoSlot(l, "done", Limit)
     \/ pc[l] = "removing" /\ Goto(l, "remaking") /\ UNCHANGED at
  /\ UNCHANGED <<up, child, loose, raced>>

\* ... unless somebody has written a lease into it meanwhile.
RmdirFails(l) ==
  /\ pc[l] \in {"removing", "freed"} /\ Here(l).lease # Nobody
  /\ \/ pc[l] = "freed" /\ GotoSlot(l, "done", Limit)
     \/ pc[l] = "removing" /\ GotoSlot(l, "scanning", at[l] + 1)
  /\ UNCHANGED <<slot, up, child, loose, raced>>

\* the mkdir after a reclaim, which another pool may have done first
Remake(l) ==
  /\ pc[l] = "remaking"
  /\ \/ Here(l).made /\ GotoSlot(l, "scanning", at[l] + 1) /\ UNCHANGED slot
     \/ ~ Here(l).made /\ SetSlot(l, Empty) /\ Goto(l, "writing") /\ UNCHANGED at
  /\ UNCHANGED <<up, child, loose, raced>>

\* _write_lease makes the directory again if it is gone.
WriteLease(l) ==
  /\ pc[l] = "writing"
  /\ SetSlot(l, Fresh(l)) /\ Goto(l, "held")
  /\ UNCHANGED <<up, at, child, loose, raced>>

\* _acquire_host_slot on an OSError: the launch fails, or goes ahead without a slot.
Denied(l) ==
  \/ /\ Home[l] \in FailOpen
     /\ GotoSlot(l, "running", Limit)
     /\ child' = [child EXCEPT ![l] = TRUE] /\ loose' = loose \cup {l}
  \/ /\ Home[l] \notin FailOpen
     /\ GotoSlot(l, "failed", Limit) /\ UNCHANGED <<child, loose>>

WriteFails(l) ==
  /\ pc[l] = "writing"
  /\ SetSlot(l, None) /\ Denied(l)
  /\ UNCHANGED <<up, raced>>

Scanned(l) == pc[l] = "scanning" /\ at[l] >= Reach[Home[l]]

Sleep(l) ==
  /\ Scanned(l)
  /\ GotoSlot(l, "waiting", Limit)
  /\ UNCHANGED <<slot, up, child, loose, raced>>

TimeOut(l) ==
  /\ Scanned(l) /\ Home[l] \notin Patient
  /\ Denied(l)
  /\ UNCHANGED <<slot, up, raced>>

-----------------------------------------------------------------------------
\* _run and _launch_and_monitor around the slot

Start(l) ==
  /\ pc[l] = "held" /\ Turn(l)
  /\ Goto(l, "launched") /\ child' = [child EXCEPT ![l] = TRUE]
  /\ UNCHANGED <<slot, up, at, loose, raced>>

\* the token in the lease is this launch's
Owns(l) == at[l] \in Slot /\ Here(l).lease = l

\* record_child, which does nothing without the token in the lease
Record(l) ==
  /\ pc[l] = "launched" /\ l \notin Scalar /\ Turn(l)
  /\ Goto(l, "running")
  /\ \/ Owns(l) /\ SetSlot(l, Recorded(l)) /\ UNCHANGED loose
     \/ ~ Owns(l) /\ loose' = loose \cup {l} /\ UNCHANGED slot
  /\ UNCHANGED <<up, at, child, raced>>

ChildExits(l) ==
  /\ child[l]
  /\ child' = [child EXCEPT ![l] = FALSE]
  /\ UNCHANGED <<slot, up, pc, at, loose, raced>>

Reap(l) ==
  /\ \/ pc[l] = "running"
     \/ pc[l] = "launched" /\ l \in Scalar
  /\ ~ child[l] /\ Turn(l)
  /\ Goto(l, "leaving")
  /\ UNCHANGED <<slot, up, at, child, loose, raced>>

\* Cancelled, killed by a health check, or record_child raised: the child is killed.
Stop(l) ==
  /\ pc[l] \in {"held", "launched", "running"} /\ Turn(l)
  /\ Goto(l, "leaving") /\ child' = [child EXCEPT ![l] = FALSE]
  /\ UNCHANGED <<slot, up, at, loose, raced>>

\* backend.kill raises, which is logged: the slot is released though the child lives.
KillFails(l) ==
  /\ pc[l] \in {"launched", "running"} /\ child[l] /\ Turn(l)
  /\ Goto(l, "leaving") /\ loose' = loose \cup {l}
  /\ UNCHANGED <<slot, up, at, child, raced>>

\* A launch cancelled before it has a slot
Cancel(l) ==
  /\ pc[l] = "waiting" /\ Turn(l)
  /\ GotoSlot(l, "failed", Limit)
  /\ UNCHANGED <<slot, up, child, loose, raced>>

\* release reads the token ...
Release(l) ==
  /\ pc[l] = "leaving" /\ Turn(l)
  /\ \/ Owns(l) /\ Goto(l, "freeing") /\ UNCHANGED at
     \/ ~ Owns(l) /\ GotoSlot(l, "done", Limit)
  /\ UNCHANGED <<slot, up, child, loose, raced>>

\* ... and rmtree may fail, which is logged: the slot stays for as long as the pool lives.
ReleaseFails(l) ==
  /\ pc[l] = "freeing"
  /\ GotoSlot(l, "failed", Limit)
  /\ UNCHANGED <<slot, up, child, loose, raced>>

-----------------------------------------------------------------------------
\* The process of a pool dies; its children go on, and those it has not recorded are loose.
Die(p) ==
  /\ p \in up
  /\ up' = up \ {p}
  /\ pc' = [l \in Launch |-> IF Home[l] = p /\ pc[l] \notin Over THEN "dead" ELSE pc[l]]
  /\ at' = [l \in Launch |-> IF Home[l] = p THEN Limit ELSE at[l]]
  /\ loose' = loose \cup {l \in Launch : Home[l] = p /\ pc[l] = "launched"}
  /\ UNCHANGED <<slot, child, raced>>

\* Time passes for a directory; no call of an event loop lasts EMPTY_SLOT_GRACE_S.
Age(s) ==
  /\ slot[s].made /\ slot[s].age < UnrecordedGrace
  /\ \A l \in Launch : at[l] = s => pc[l] \notin Changing
  /\ slot' = [slot EXCEPT ![s].age = @ + 1]
  /\ UNCHANGED <<up, pc, at, child, loose, raced>>

InCall(l) ==
  \/ Mkdir(l) \/ Pass(l) \/ Judge(l) \/ Unlink(l) \/ Rmdir(l) \/ RmdirFails(l)
  \/ Remake(l) \/ WriteLease(l) \/ Sleep(l)
Between(l) == Scan(l) \/ Start(l) \/ Record(l) \/ Reap(l) \/ Release(l)
Fault(l) == WriteFails(l) \/ TimeOut(l) \/ Stop(l) \/ KillFails(l) \/ Cancel(l) \/ ReleaseFails(l)

Next ==
  \/ \E l \in Launch : InCall(l) \/ Between(l) \/ Fault(l) \/ ChildExits(l)
  \/ \E p \in Pool : Die(p)
  \/ \E s \in Slot : Age(s)

Spec == Init /\ [][Next]_vars

\* A call runs to its end, a loop that is free takes up what is due, children end and time
\* passes.
Fairness ==
  /\ \A l \in Launch : WF_vars(InCall(l)) /\ SF_vars(Between(l)) /\ WF_vars(ChildExits(l))
  /\ \A s \in Slot : WF_vars(Age(s))

FairSpec == Spec /\ Fairness

-----------------------------------------------------------------------------
(* Admission holds until the child is gone, over the death of its pool: each *)
(* child has a slot to itself, so the pools of a host together run no more   *)
(* than Limit of them, but for those that were never recorded or would not   *)
(* be killed, and until two verdicts on one slot overlap.                    *)
WithinLimit ==
  ~ raced => Cardinality({l \in Launch \ loose : child[l]}) <= Limit

(* Nobody takes a slot away from a live pool or from the recorded child of a *)
(* dead one (_reclaim_if_stale, release), until two verdicts overlap.        *)
LiveSlotStays ==
  [][\A s \in Slot :
       LET o == slot[s].lease IN
       ~ raced /\ o # Nobody /\ slot'[s].lease # o =>
         \/ pc[o] = "freeing"
         \/ Home[o] \notin up /\ ~ (slot[s].recorded /\ child[o])]_vars

(* A slot comes back whatever step its pool died in: a launch that waits     *)
(* without a timeout gets on, unless a live pool could not remove a slot.    *)
SlotsComeBack ==
  \A l \in Launch :
    pc[l] = "waiting" /\ Home[l] \in Patient ~>
      \/ pc[l] \in Holding \cup Over
      \/ \E s \in Slot : slot[s].lease # Nobody /\ Home[slot[s].lease] \in up
                          /\ pc[slot[s].lease] = "failed"
=============================================================================
