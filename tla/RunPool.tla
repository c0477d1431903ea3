------------------------------ MODULE RunPool ------------------------------
(***************************************************************************)
(* runpool/pool.py and runpool/semaphore.py: how a submission or a code    *)
(* leaf passes the quota gate, the adaptive semaphore and host admission,  *)
(* runs, is cancelled or killed, and gives everything back.                *)
(*                                                                         *)
(* One event loop runs everything, so an action is what a task does from   *)
(* one await to the next.  A cancellation is a flag that the task's next   *)
(* step delivers.  Host admission is on, as run-process configures it; the *)
(* optional external semaphore is not used there and is left out.          *)
(* Faulty... definitions are the bugs of the runs' mutants.                *)
(***************************************************************************)
EXTENDS Naturals, FiniteSets

CONSTANTS
  Task,           \* submissions and code leaves
  Code,           \* those that are code leaves: admit_code, no process
  MaxCapacity     \* the largest capacity the governors set

ASSUME PoolAssumption ==
  /\ IsFiniteSet(Task) /\ Code \subseteq Task
  /\ MaxCapacity \in Nat \ {0}

VARIABLES
  pc,         \* the await each task is at
  woken,      \* the event it waits for has been set since it began to wait
  cancel,     \* a cancellation is to be delivered
  child,      \* its process: "none", "alive", "kill_tried" (it may live on) or "dead"
  future,     \* the submission's future; "none" for a code leaf
  held,       \* AdaptiveSemaphore._held
  capacity,   \* AdaptiveSemaphore._capacity
  pending,    \* _pending_count and _pending_code_count
  lane,       \* the lane's active counter
  paused,     \* is _quota_paused_event cleared?
  shutting,   \* is _shutdown_event set?
  phase       \* how far shutdown() has got

tasks == <<pc, woken, cancel, child, future>>
counters == <<held, capacity, pending, lane>>
pool == <<paused, shutting, phase>>
vars == <<tasks, counters, pool>>

Waiting == {"queued", "quota", "semaphore", "host"}
Launched == {"running", "stopping", "failing", "killing"}
Killing == {"failing", "killing", "killing_late"}
WithPermit == {"host", "launching", "launching_cancelled", "killing_late"} \cup Launched
Place == {"new", "done"} \cup Waiting \cup WithPermit

TypeOK ==
  /\ pc \in [Task -> Place]
  /\ woken \in [Task -> BOOLEAN]
  /\ cancel \in [Task -> BOOLEAN]
  /\ child \in [Task -> {"none", "alive", "kill_tried", "dead"}]
  /\ future \in [Task -> {"none", "pending", "result", "exception", "cancelled"}]
  /\ held \in Nat /\ capacity \in 1 .. MaxCapacity
  /\ pending \in Nat /\ lane \in Nat
  /\ paused \in BOOLEAN /\ shutting \in BOOLEAN
  /\ phase \in {"open", "draining", "cleaning", "stopped", "gave_up"}

Init ==
  /\ pc = [t \in Task |-> "new"]
  /\ woken = [t \in Task |-> FALSE] /\ cancel = [t \in Task |-> FALSE]
  /\ child = [t \in Task |-> "none"] /\ future = [t \in Task |-> "none"]
  /\ held = 0 /\ capacity \in 1 .. MaxCapacity
  /\ pending = 0 /\ lane = 0
  /\ paused = FALSE /\ shutting = FALSE /\ phase = "open"

-----------------------------------------------------------------------------
(* Pieces of a step.                                                         *)
Goto(t, place) == pc' = [pc EXCEPT ![t] = place]
Delivered(t) == cancel' = [cancel EXCEPT ![t] = FALSE]

\* The call of backend.kill; what comes of it is for Exit and Killed to say.
TryKill(t) == child' = [child EXCEPT ![t] = IF @ = "alive" THEN "kill_tried" ELSE @]

\* the event is set only by a change of capacity
FaultyWake(n, c) == IF c = capacity THEN woken ELSE [t \in Task |-> woken[t] \/ (pc[t] = "semaphore" /\ n < c)]

\* Setting the semaphore's event wakes whoever waits on it; clearing it wakes nobody.
Wake(n, c) == [t \in Task |-> woken[t] \/ (pc[t] = "semaphore" /\ n < c)]

\* The end of _run_process or admit_code: the future is settled unless it already is,
\* the permit, if there is one, goes back.
Unwind(t, outcome) ==
  /\ Goto(t, "done")
  /\ future' = [future EXCEPT ![t] = IF @ = "pending" THEN outcome ELSE @]
  /\ Delivered(t)
  /\ pending' = IF pc[t] \in Waiting THEN pending - 1 ELSE pending
  /\ IF pc[t] \in WithPermit
       THEN held' = held - 1 /\ woken' = Wake(held - 1, capacity)
       ELSE UNCHANGED <<held, woken>>
  /\ UNCHANGED <<capacity, pool>>

\* AdaptiveSemaphore.acquire up to its next await.  A task that gets the permit after the
\* shutdown began gives it back at once.
Acquire(t) ==
  \/ /\ held >= capacity
     /\ Goto(t, "semaphore")
     /\ woken' = [woken EXCEPT ![t] = FALSE]
     /\ UNCHANGED <<cancel, child, future, counters, pool>>
  \/ /\ held < capacity /\ shutting
     /\ Unwind(t, "cancelled")
     /\ UNCHANGED <<child, lane>>
  \/ /\ held < capacity /\ ~ shutting
     /\ held' = held + 1
     /\ IF t \in Code THEN Goto(t, "running") /\ pending' = pending - 1
                      ELSE Goto(t, "host") /\ UNCHANGED pending
     /\ UNCHANGED <<woken, cancel, child, future, capacity, lane, pool>>

-----------------------------------------------------------------------------
(* A task from its submission to its end.                                    *)
Submit(t) ==
  /\ pc[t] = "new" /\ t \notin Code /\ ~ shutting
  /\ Goto(t, "queued")
  /\ future' = [future EXCEPT ![t] = "pending"]
  /\ pending' = pending + 1
  /\ UNCHANGED <<woken, cancel, child, held, capacity, lane, pool>>

\* The task's first step: the gate, and past it the semaphore.
EnterGate(t) ==
  /\ pc[t] = "queued" /\ ~ cancel[t]
  /\ \/ /\ paused
        /\ Goto(t, "quota")
        /\ woken' = [woken EXCEPT ![t] = FALSE]
        /\ UNCHANGED <<cancel, child, future, counters, pool>>
     \/ ~ paused /\ Acquire(t)

\* admit_code runs in its caller's task and asks at once.
AdmitCode(t) ==
  /\ pc[t] = "new" /\ t \in Code /\ ~ shutting
  /\ woken' = [woken EXCEPT ![t] = FALSE]
  /\ \/ /\ paused \/ held >= capacity
        /\ Goto(t, IF paused THEN "quota" ELSE "semaphore")
        /\ pending' = pending + 1
        /\ UNCHANGED held
     \/ /\ ~ paused /\ held < capacity
        /\ Goto(t, "running")
        /\ held' = held + 1
        /\ UNCHANGED pending
  /\ UNCHANGED <<cancel, child, future, capacity, lane, pool>>

\* The gate is not asked again on the way out of it, nor after the semaphore.
LeaveGate(t) == pc[t] = "quota" /\ woken[t] /\ ~ cancel[t] /\ Acquire(t)

RetryAcquire(t) == pc[t] = "semaphore" /\ woken[t] /\ ~ cancel[t] /\ Acquire(t)

\* the shutdown that began during the wait goes unnoticed
FaultyHostAnswers(t) ==
  /\ pc[t] = "host" /\ ~ cancel[t]
  /\ Goto(t, "launching")
  /\ pending' = pending - 1
  /\ UNCHANGED <<woken, cancel, child, future, held, capacity, lane, pool>>

\* Host admission grants a slot, lets the launch bypass it, or fails the submission.
HostAnswers(t) ==
  /\ pc[t] = "host" /\ ~ cancel[t]
  /\ \/ /\ ~ shutting
        /\ Goto(t, "launching")
        /\ pending' = pending - 1
        /\ UNCHANGED <<woken, cancel, child, future, held, capacity, lane, pool>>
     \/ shutting /\ Unwind(t, "cancelled") /\ UNCHANGED <<child, lane>>
     \/ Unwind(t, "exception") /\ UNCHANGED <<child, lane>>

LaunchFails(t) ==
  /\ pc[t] = "launching" /\ ~ cancel[t]
  /\ Unwind(t, "exception")
  /\ UNCHANGED <<child, lane>>

Launch(t) ==
  /\ pc[t] = "launching" /\ ~ cancel[t]
  /\ Goto(t, "running")
  /\ child' = [child EXCEPT ![t] = "alive"]
  /\ lane' = lane + 1
  /\ UNCHANGED <<woken, cancel, future, held, capacity, pending, pool>>

Exit(t) ==
  /\ child[t] \in {"alive", "kill_tried"}
  /\ child' = [child EXCEPT ![t] = "dead"]
  /\ UNCHANGED <<pc, woken, cancel, future, counters, pool>>

\* A health limit or a timeout stops the process; an error of the backend or of the
\* bookkeeping after the launch ends in a last kill.
Stop(t) ==
  /\ t \notin Code /\ ~ cancel[t]
  /\ \/ pc[t] = "running" /\ Goto(t, "stopping")
     \/ pc[t] \in {"running", "stopping"} /\ Goto(t, "failing")
  /\ TryKill(t)
  /\ UNCHANGED <<woken, cancel, future, counters, pool>>

\* The process has exited by itself or after Stop: record it, give everything back.
Complete(t) ==
  /\ pc[t] \in {"running", "stopping"} /\ t \notin Code /\ ~ cancel[t] /\ child[t] = "dead"
  /\ Unwind(t, "result")
  /\ lane' = lane - 1
  /\ UNCHANGED child

\* _poll_until_exit waits ten seconds for the process it stopped and then reports the
\* end all the same: the permit goes back over a process that may live.
StopUnanswered(t) ==
  /\ pc[t] = "stopping" /\ ~ cancel[t] /\ child[t] # "dead"
  /\ Unwind(t, "result")
  /\ lane' = lane - 1
  /\ UNCHANGED child

CodeEnds(t) ==
  /\ pc[t] = "running" /\ t \in Code
  /\ Unwind(t, "result")
  /\ UNCHANGED <<child, lane>>

-----------------------------------------------------------------------------
(* Cancellation, step by step.                                               *)

\* A coroutine cancelled before its first step never runs, its finally included.
CancelUnstarted(t) ==
  /\ pc[t] = "queued" /\ cancel[t]
  /\ Goto(t, "done") /\ Delivered(t)
  /\ UNCHANGED <<woken, child, future, counters, pool>>

\* the permit of a task cancelled in host admission is forgotten
FaultyForgetPermit(t) ==
  /\ pc[t] \in {"quota", "semaphore", "host"} /\ cancel[t]
  /\ Goto(t, "done") /\ Delivered(t)
  /\ future' = [future EXCEPT ![t] = IF @ = "pending" THEN "cancelled" ELSE @]
  /\ pending' = pending - 1
  /\ UNCHANGED <<woken, child, held, capacity, lane, pool>>

\* the cancelled waiter leaves without settling its future
FaultyForgetFuture(t) ==
  /\ pc[t] \in {"quota", "semaphore", "host"} /\ cancel[t]
  /\ Unwind(t, future[t])
  /\ UNCHANGED <<child, lane>>

CancelWaiting(t) ==
  /\ pc[t] \in {"quota", "semaphore", "host"} /\ cancel[t]
  /\ Unwind(t, "cancelled")
  /\ UNCHANGED <<child, lane>>

\* the launch is abandoned, whatever it brings up
FaultyCancelLaunching(t) ==
  /\ pc[t] = "launching" /\ cancel[t]
  /\ Unwind(t, "cancelled")
  /\ child' = [child EXCEPT ![t] = "alive"]
  /\ UNCHANGED lane

\* A launch under way is waited for, however often it is cancelled, and then killed.
CancelLaunching(t) ==
  /\ pc[t] \in {"launching", "launching_cancelled"} /\ cancel[t]
  /\ Goto(t, "launching_cancelled") /\ Delivered(t)
  /\ UNCHANGED <<woken, child, future, counters, pool>>

LateLaunch(t) ==
  /\ pc[t] = "launching_cancelled"
  /\ \/ /\ Goto(t, "killing_late") /\ Delivered(t)
        /\ child' = [child EXCEPT ![t] = "kill_tried"]
        /\ UNCHANGED <<woken, future, counters, pool>>
     \/ Unwind(t, "cancelled") /\ UNCHANGED <<child, lane>>

CancelRunning(t) ==
  /\ pc[t] \in {"running", "stopping"} /\ t \notin Code /\ cancel[t]
  /\ Goto(t, "killing") /\ Delivered(t)
  /\ TryKill(t)
  /\ UNCHANGED <<woken, future, counters, pool>>

Ended(t) == IF pc[t] = "failing" THEN "exception" ELSE "cancelled"

\* backend.kill has signalled, waited and escalated, or it has failed: permission
\* denied, a process that survives SIGKILL, an error, which are logged and no more.
Killed(t) ==
  /\ pc[t] \in Killing /\ ~ cancel[t]
  /\ Unwind(t, Ended(t))
  /\ UNCHANGED child \/ child' = [child EXCEPT ![t] = "dead"]
  /\ lane' = IF pc[t] \in Launched THEN lane - 1 ELSE lane

\* A cancellation cuts backend.kill short, before it escalates.  Only the kill after an
\* error goes on to record the completion.
KillCutShort(t) ==
  /\ pc[t] \in Killing /\ cancel[t]
  /\ Unwind(t, Ended(t))
  /\ lane' = IF pc[t] = "failing" THEN lane - 1 ELSE lane
  /\ UNCHANGED child

-----------------------------------------------------------------------------
(* What the callers and the pool itself do to the tasks.                     *)
Cancellable(t) == pc[t] \notin {"new", "done"}

\* cancel_submission, or the caller's own cancellation inside admit_code
CancelTask(t) ==
  /\ Cancellable(t) /\ ~ cancel[t]
  /\ cancel' = [cancel EXCEPT ![t] = TRUE]
  /\ UNCHANGED <<pc, woken, child, future, counters, pool>>

\* The caller cancels the future it was given.
CancelFuture(t) ==
  /\ Cancellable(t) /\ future[t] = "pending"
  /\ future' = [future EXCEPT ![t] = "cancelled"]
  /\ cancel' = [cancel EXCEPT ![t] = TRUE]
  /\ UNCHANGED <<pc, woken, child, counters, pool>>

CancelAll(S) == cancel' = [t \in Task |-> cancel[t] \/ t \in S]

Owned == {t \in Task : Cancellable(t)}

\* The monitor finds the kill sentinel; code leaves are left to the shutdown.
KillSentinel ==
  /\ ~ shutting
  /\ shutting' = TRUE
  /\ CancelAll(Owned \ Code)
  /\ UNCHANGED <<pc, woken, child, future, counters, paused, phase>>

Shutdown ==
  /\ phase = "open"
  /\ shutting' = TRUE /\ phase' = "draining"
  /\ UNCHANGED <<tasks, counters, paused>>

\* the code leaves and the launches under way are cancelled, the running are left
FaultyCancelRemaining ==
  /\ phase = "draining"
  /\ phase' = "cleaning"
  /\ CancelAll({t \in Owned : pc[t] # "running"})
  /\ UNCHANGED <<pc, woken, child, future, counters, paused, shutting>>

\* Nothing is left, or the grace period is over: what is left is cancelled.
CancelRemaining ==
  /\ phase = "draining"
  /\ phase' = "cleaning"
  /\ CancelAll(Owned)
  /\ UNCHANGED <<pc, woken, child, future, counters, paused, shutting>>

CleanedUp ==
  /\ phase = "cleaning" /\ Owned = {}
  /\ phase' = "stopped"
  /\ UNCHANGED <<tasks, counters, paused, shutting>>

\* _SHUTDOWN_CLEANUP_TIMEOUT_S: the stragglers are cancelled once more and left.
CleanupTimesOut ==
  /\ phase = "cleaning" /\ Owned # {}
  /\ CancelAll(Owned)
  /\ phase' = "gave_up"
  /\ UNCHANGED <<pc, woken, child, future, counters, paused, shutting>>

PauseForQuota ==
  /\ ~ paused /\ ~ shutting
  /\ paused' = TRUE
  /\ UNCHANGED <<tasks, counters, shutting, phase>>

\* The timer ends the pause unless the shutdown has already cancelled it.
ResumeFromQuota ==
  /\ paused /\ phase \notin {"stopped", "gave_up"}
  /\ paused' = FALSE
  /\ woken' = [t \in Task |-> woken[t] \/ pc[t] = "quota"]
  /\ UNCHANGED <<pc, cancel, child, future, counters, shutting, phase>>

\* The monitor stops with the shutdown; a failure report can still cut the capacity.
SetCapacity ==
  /\ phase \notin {"stopped", "gave_up"}
  /\ \E n \in 1 .. MaxCapacity :
       /\ IF shutting THEN n < capacity ELSE n # capacity
       /\ capacity' = n /\ woken' = Wake(held, n)
  /\ UNCHANGED <<pc, cancel, child, future, held, pending, lane, pool>>

-----------------------------------------------------------------------------
\* What the event loop, host admission and the backend go on with by themselves.
Run(t) ==
  \/ EnterGate(t) \/ LeaveGate(t) \/ RetryAcquire(t) \/ HostAnswers(t)
  \/ LaunchFails(t) \/ Launch(t) \/ Complete(t) \/ StopUnanswered(t)
  \/ CancelUnstarted(t) \/ CancelWaiting(t) \/ CancelLaunching(t) \/ LateLaunch(t)
  \/ CancelRunning(t) \/ Killed(t) \/ KillCutShort(t)

Next ==
  \/ \E t \in Task :
       \/ Run(t) \/ Submit(t) \/ AdmitCode(t) \/ Exit(t) \/ Stop(t) \/ CodeEnds(t)
       \/ CancelTask(t) \/ CancelFuture(t)
  \/ KillSentinel \/ Shutdown \/ CancelRemaining \/ CleanedUp \/ CleanupTimesOut
  \/ PauseForQuota \/ ResumeFromQuota \/ SetCapacity

Spec == Init /\ [][Next]_vars

\* The loop runs every task that can go on; a launch, a code leaf and a call of
\* backend.kill end, whatever becomes of the process; the shutdown and the pause timer
\* go on.  No agent process has to exit, nobody has to submit, cancel or shut down.
Fairness ==
  /\ \A t \in Task : WF_vars(Run(t)) /\ WF_vars(CodeEnds(t)) /\ WF_vars(LateLaunch(t))
  /\ WF_vars(CancelRemaining) /\ WF_vars(CleanedUp) /\ WF_vars(ResumeFromQuota)

FairSpec == Spec /\ Fairness

-----------------------------------------------------------------------------
(* Every permit counted as held is somebody's, across waits, failures,       *)
(* cancellations and kills: none is lost and none is given back twice.       *)
PermitsMatchHolders == held = Cardinality({t \in Task : pc[t] \in WithPermit})

(* A permit is taken only below the capacity, though several waiters are     *)
(* woken for one permit and the capacity may have been cut meanwhile.        *)
AdmittedBelowCapacity == [][held' > held => held < capacity]_vars

(* Nobody sleeps on an event that will not come: whoever waits for a free    *)
(* permit or for an open gate has been woken.                                *)
NoLostWakeup ==
  \A t \in Task :
    /\ pc[t] = "semaphore" /\ held < capacity => woken[t]
    /\ pc[t] = "quota" /\ ~ paused => woken[t]

(* A process that nobody has tried to kill is on the books of the task that  *)
(* launched it and under its permit, however often and whenever that task is *)
(* cancelled: the pool forgets no process (_launch_and_monitor).             *)
PermitUntilKillTried == \A t \in Task : child[t] = "alive" => pc[t] \in Launched

(* Once the shutdown has begun nothing new is launched, whatever it was      *)
(* waiting for when it began.                                                *)
NoLaunchAfterShutdown ==
  [][\A t \in Task : shutting /\ pc[t] # "launching" => pc'[t] # "launching"]_vars

(* No task ends without settling its future, or its caller waits for ever:   *)
(* only one cancelled before its first step does (submit, _run_process).     *)
FuturesSettled ==
  [][\A t \in Task : pc'[t] = "done" =>
       \/ future'[t] # "pending"
       \/ pc[t] = "done"
       \/ CancelUnstarted(t)]_vars

(* The kill sentinel and a shutdown end what is in the pool, whatever it is  *)
(* waiting for, and the shutdown itself ends.                                *)
ShutdownCompletes ==
  shutting ~> /\ \A t \in Task : pc[t] \in {"new", "done"}
              /\ phase \in {"open", "stopped", "gave_up"}
=============================================================================
