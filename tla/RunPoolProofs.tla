--------------------------- MODULE RunPoolProofs ---------------------------
(***************************************************************************)
(* The pool's books are right for any number of submissions and code       *)
(* leaves: permits, admission, wake-ups and futures under every            *)
(* cancellation, and no process is forgotten that nobody tried to kill.    *)
(***************************************************************************)
EXTENDS RunPool, FiniteSetTheorems, TLAPS

-----------------------------------------------------------------------------
(* Counting tasks by place.                                                  *)
Count(B, f, P) == Cardinality({t \in B : f[t] \in P})

\* What one task at a place adds to the count.
One(B, t, place, P) == IF t \in B /\ place \in P THEN 1 ELSE 0

-----------------------------------------------------------------------------
(* The inductive invariant.  Places: a code leaf has no process and none of  *)
(* its places.  Books: the permits are exactly accounted for; an unstarted   *)
(* task that is cancelled, and a kill that is cut, leave pending and lane    *)
(* too high, never too low.                                                  *)
Places ==
  /\ pc \in [Task -> Place]
  /\ woken \in [Task -> BOOLEAN] /\ cancel \in [Task -> BOOLEAN]
  /\ child \in [Task -> {"none", "alive", "kill_tried", "dead"}]
  /\ future \in [Task -> {"none", "pending", "result", "exception", "cancelled"}]
  /\ capacity \in 1 .. MaxCapacity
  /\ paused \in BOOLEAN /\ shutting \in BOOLEAN
  /\ phase \in {"open", "draining", "cleaning", "stopped", "gave_up"}
  /\ \A t \in Code : pc[t] \in {"new", "quota", "semaphore", "running", "done"}

Agent == Task \ Code

Books ==
  /\ held \in Nat /\ held = Count(Task, pc, WithPermit)
  /\ pending \in Nat /\ pending >= Count(Task, pc, Waiting)
  /\ lane \in Nat /\ lane >= Count(Agent, pc, Launched)

LEMMA PlacesStep ==
  ASSUME Places, [Next]_vars
  PROVE  Places'
<1> USE PoolAssumption DEF Places, Goto, Delivered, tasks, counters, pool, Place
<1>1. ASSUME NEW t \in Task, NEW o, Unwind(t, o),
             o \in {"none", "pending", "result", "exception", "cancelled"},
             child' \in [Task -> {"none", "alive", "kill_tried", "dead"}]
      PROVE  Places'
  BY <1>1 DEF Unwind, Wake
<1>2. ASSUME NEW t \in Task, Acquire(t), t \in Code => pc[t] # "queued" PROVE Places'
  BY <1>1, <1>2 DEF Acquire, Waiting, WithPermit, Launched
<1>3. ASSUME NEW t \in Task, Submit(t) \/ AdmitCode(t) PROVE Places'
  BY <1>3 DEF Submit, AdmitCode, Waiting, WithPermit, Launched
<1>4. ASSUME NEW t \in Task, EnterGate(t) \/ LeaveGate(t) \/ RetryAcquire(t) PROVE Places'
  <2>1. ASSUME EnterGate(t), paused PROVE Places'
    BY <2>1 DEF EnterGate, Waiting, Acquire
  <2> QED
    BY <1>2, <1>4, <2>1 DEF EnterGate, LeaveGate, RetryAcquire
<1>5. ASSUME NEW t \in Task, HostAnswers(t) \/ LaunchFails(t) \/ Launch(t) PROVE Places'
  BY <1>1, <1>5 DEF HostAnswers, LaunchFails, Launch, WithPermit, Launched
<1>6. ASSUME NEW t \in Task, Exit(t) \/ Stop(t) \/ Complete(t) \/ StopUnanswered(t) \/ CodeEnds(t)
      PROVE  Places'
  BY <1>1, <1>6 DEF Exit, Stop, TryKill, Complete, StopUnanswered, CodeEnds, WithPermit, Launched
<1>7. ASSUME NEW t \in Task, CancelUnstarted(t) \/ CancelWaiting(t) PROVE Places'
  BY <1>1, <1>7 DEF CancelUnstarted, CancelWaiting
<1>8. ASSUME NEW t \in Task, CancelLaunching(t) \/ LateLaunch(t) \/ CancelRunning(t) PROVE Places'
  <2>1. CASE CancelLaunching(t)
    BY <2>1 DEF CancelLaunching, WithPermit, Launched
  <2>2. CASE LateLaunch(t)
    BY <1>1, <2>2 DEF LateLaunch, WithPermit, Launched
  <2>3. CASE CancelRunning(t)
    BY <2>3 DEF CancelRunning, TryKill, WithPermit, Launched
  <2> QED
    BY <1>8, <2>1, <2>2, <2>3
<1>9. ASSUME NEW t \in Task, Killed(t) \/ KillCutShort(t) PROVE Places'
  BY <1>1, <1>9 DEF Killed, KillCutShort, Ended
<1>10. ASSUME NEW t \in Task, CancelTask(t) \/ CancelFuture(t) PROVE Places'
  BY <1>10 DEF CancelTask, CancelFuture
<1>11. CASE KillSentinel \/ Shutdown \/ CancelRemaining \/ CleanedUp \/ CleanupTimesOut
  BY <1>11 DEF KillSentinel, Shutdown, CancelRemaining, CleanedUp, CleanupTimesOut, CancelAll
<1>12. CASE PauseForQuota \/ ResumeFromQuota \/ SetCapacity
  BY <1>12 DEF PauseForQuota, ResumeFromQuota, SetCapacity, Wake
<1>13. CASE UNCHANGED vars
  BY <1>13 DEF vars
<1> QED
  BY <1>3, <1>4, <1>5, <1>6, <1>7, <1>8, <1>9, <1>10, <1>11, <1>12, <1>13 DEF Next, Run

-----------------------------------------------------------------------------
(* What one move does to a count.                                            *)
LEMMA CountMove ==
  ASSUME NEW B, IsFiniteSet(B), B \subseteq Task, NEW P, pc \in [Task -> Place],
         NEW t \in Task, NEW x \in Place, pc' = [pc EXCEPT ![t] = x]
  PROVE  /\ Count(B, pc, P) \in Nat /\ Count(B, pc', P) \in Nat
         /\ Count(B, pc', P) = Count(B, pc, P) + One(B, t, x, P) - One(B, t, pc[t], P)
<1> DEFINE F == {s \in B : pc[s] \in P}
           G == {s \in B : pc'[s] \in P}
<1>1. IsFiniteSet(F) /\ IsFiniteSet(G)
  <2>1. F \in SUBSET B /\ G \in SUBSET B
    OBVIOUS
  <2> HIDE DEF F, G
  <2> QED
    BY <2>1, FS_Subset
<1>2. Cardinality(F) \in Nat /\ Cardinality(G) \in Nat
  <2> HIDE DEF F, G
  <2> QED
    BY <1>1, FS_CardinalityType
<1>3. ASSUME t \in B /\ pc[t] \in P <=> t \in B /\ x \in P PROVE F = G
  BY <1>3
<1>4. ASSUME t \in B, x \in P, pc[t] \notin P PROVE Cardinality(G) = Cardinality(F) + 1
  <2>1. G = F \cup {t} /\ t \notin F
    BY <1>4
  <2> HIDE DEF F, G
  <2> QED
    BY <2>1, <1>1, FS_AddElement
<1>5. ASSUME t \in B, pc[t] \in P, x \notin P PROVE Cardinality(G) = Cardinality(F) - 1
  <2>1. G = F \ {t} /\ t \in F
    BY <1>5
  <2> HIDE DEF F, G
  <2> QED
    BY <2>1, <1>1, FS_RemoveElement
<1>6. Count(B, pc, P) = Cardinality(F) /\ Count(B, pc', P) = Cardinality(G)
  BY DEF Count
<1> HIDE DEF F, G
<1> QED
  BY <1>2, <1>3, <1>4, <1>5, <1>6 DEF One

-----------------------------------------------------------------------------
(* One task moves and the counters follow.                                   *)
Moves(t, x) ==
  /\ pc' = [pc EXCEPT ![t] = x]
  /\ held' = held + One(Task, t, x, WithPermit) - One(Task, t, pc[t], WithPermit)
  /\ pending' \in Int
  /\ pending' >= pending + One(Task, t, x, Waiting) - One(Task, t, pc[t], Waiting)
  /\ lane' \in Int
  /\ lane' >= lane + One(Agent, t, x, Launched) - One(Agent, t, pc[t], Launched)

LEMMA BooksFollow ==
  ASSUME Places, Books, NEW t \in Task, NEW x \in Place, Moves(t, x)
  PROVE  Books'
<1>1. IsFiniteSet(Task) /\ IsFiniteSet(Agent) /\ Agent \subseteq Task
  BY PoolAssumption, FS_Subset DEF Agent
<1>2. ASSUME NEW B, IsFiniteSet(B), B \subseteq Task, NEW P
      PROVE  /\ Count(B, pc, P) \in Nat /\ Count(B, pc', P) \in Nat
             /\ Count(B, pc', P) = Count(B, pc, P) + One(B, t, x, P) - One(B, t, pc[t], P)
  <2>1. pc \in [Task -> Place] /\ pc' = [pc EXCEPT ![t] = x]
    BY DEF Places, Moves
  <2> QED
    BY <1>2, <2>1, CountMove
<1>3. \A B, P, y : One(B, t, y, P) \in Int
  BY DEF One
<1>4. held' \in Nat /\ held' = Count(Task, pc', WithPermit)
  <2>1. /\ Count(Task, pc, WithPermit) \in Nat /\ Count(Task, pc', WithPermit) \in Nat
        /\ Count(Task, pc', WithPermit) = Count(Task, pc, WithPermit) + One(Task, t, x, WithPermit) - One(Task, t, pc[t], WithPermit)
    BY <1>1, <1>2, Zenon
  <2>2. One(Task, t, x, WithPermit) \in Int /\ One(Task, t, pc[t], WithPermit) \in Int
    BY <1>3
  <2> QED
    BY <2>1, <2>2 DEF Books, Moves
<1>5. pending' \in Nat /\ pending' >= Count(Task, pc', Waiting)
  <2>1. /\ Count(Task, pc, Waiting) \in Nat /\ Count(Task, pc', Waiting) \in Nat
        /\ Count(Task, pc', Waiting) = Count(Task, pc, Waiting) + One(Task, t, x, Waiting) - One(Task, t, pc[t], Waiting)
    BY <1>1, <1>2, Zenon
  <2>2. One(Task, t, x, Waiting) \in Int /\ One(Task, t, pc[t], Waiting) \in Int
    BY <1>3
  <2> QED
    BY <2>1, <2>2 DEF Books, Moves
<1>6. lane' \in Nat /\ lane' >= Count(Agent, pc', Launched)
  <2>1. /\ Count(Agent, pc, Launched) \in Nat /\ Count(Agent, pc', Launched) \in Nat
        /\ Count(Agent, pc', Launched) = Count(Agent, pc, Launched) + One(Agent, t, x, Launched) - One(Agent, t, pc[t], Launched)
    BY <1>1, <1>2, Zenon
  <2>2. One(Agent, t, x, Launched) \in Int /\ One(Agent, t, pc[t], Launched) \in Int
    BY <1>3
  <2> QED
    BY <2>1, <2>2 DEF Books, Moves
<1> QED
  BY <1>4, <1>5, <1>6 DEF Books

(* Each action on a task is such a move.                                     *)
LEMMA StepMoves ==
  ASSUME Places, Books, NEW t \in Task,
         Run(t) \/ Submit(t) \/ AdmitCode(t) \/ Stop(t) \/ CodeEnds(t)
  PROVE  \E x \in Place : Moves(t, x)
<1>1. /\ held \in Nat /\ pending \in Nat /\ lane \in Nat
      /\ pc[t] \in Place /\ (t \in Code => pc[t] \in {"new", "quota", "semaphore", "running", "done"})
  BY DEF Books, Places
<1> HIDE DEF Books, Places
<1> USE <1>1 DEF Goto, counters, pool, Place, Waiting, WithPermit, Launched, Agent, One, Moves
<1>2. ASSUME NEW o, Unwind(t, o), pc[t] \notin {"new", "done"}, lane' \in Int,
             lane' >= lane - One(Agent, t, pc[t], Launched)
      PROVE  Moves(t, "done")
  BY <1>2 DEF Unwind
<1>3. ASSUME Acquire(t), pc[t] \in {"queued", "quota", "semaphore"}
      PROVE  Moves(t, "semaphore") \/ Moves(t, "done") \/ Moves(t, "running") \/ Moves(t, "host")
  <2>1. ASSUME Unwind(t, "cancelled"), lane' = lane PROVE Moves(t, "done")
    BY <1>2, <1>3, <2>1
  <2>2. ASSUME Goto(t, "semaphore"), UNCHANGED counters PROVE Moves(t, "semaphore")
    BY <1>3, <2>2
  <2>3. ASSUME t \in Code, pc[t] # "queued", Goto(t, "running"), held' = held + 1,
               pending' = pending - 1, lane' = lane
        PROVE  Moves(t, "running")
    BY <1>3, <2>3
  <2>4. ASSUME Goto(t, "host"), held' = held + 1, pending' = pending, lane' = lane
        PROVE  Moves(t, "host")
    BY <1>3, <2>4
  <2> QED
    BY <1>3, <2>1, <2>2, <2>3, <2>4 DEF Acquire
<1>4. ASSUME Submit(t) PROVE Moves(t, "queued")
  BY <1>4 DEF Submit
<1>5. ASSUME AdmitCode(t) PROVE \E x \in {"quota", "semaphore", "running"} : Moves(t, x)
  BY <1>5 DEF AdmitCode
<1>6. ASSUME EnterGate(t) \/ LeaveGate(t) \/ RetryAcquire(t) PROVE \E x \in Place : Moves(t, x)
  <2>1. ASSUME pc[t] = "queued", Goto(t, "quota"), UNCHANGED counters PROVE Moves(t, "quota")
    BY <2>1
  <2> QED
    BY <1>3, <1>6, <2>1 DEF EnterGate, LeaveGate, RetryAcquire
<1>7. ASSUME HostAnswers(t) \/ LaunchFails(t) PROVE Moves(t, "launching") \/ Moves(t, "done")
  <2>1. ASSUME NEW o, Unwind(t, o), UNCHANGED lane PROVE Moves(t, "done")
    BY <1>2, <1>7, <2>1 DEF HostAnswers, LaunchFails
  <2>2. ASSUME pc[t] = "host", Goto(t, "launching"), pending' = pending - 1, UNCHANGED <<held, lane>>
        PROVE  Moves(t, "launching")
    BY <2>2
  <2> QED
    BY <1>7, <2>1, <2>2 DEF HostAnswers, LaunchFails
<1>8. ASSUME Launch(t) PROVE Moves(t, "running")
  BY <1>8 DEF Launch
<1>9. ASSUME Stop(t) PROVE Moves(t, "stopping") \/ Moves(t, "failing")
  <2>1. ASSUME NEW x \in {"stopping", "failing"}, pc[t] \in {"running", "stopping"}, t \notin Code,
               Goto(t, x), UNCHANGED counters
        PROVE  Moves(t, x)
    BY <2>1
  <2> HIDE DEF Moves
  <2> QED
    BY <1>9, <2>1 DEF Stop
<1>10. ASSUME Complete(t) \/ StopUnanswered(t) \/ CodeEnds(t) PROVE Moves(t, "done")
  BY <1>2, <1>10 DEF Complete, StopUnanswered, CodeEnds
<1>11. ASSUME CancelUnstarted(t) PROVE Moves(t, "done")
  BY <1>11 DEF CancelUnstarted
<1>12. ASSUME CancelWaiting(t) PROVE Moves(t, "done")
  BY <1>2, <1>12 DEF CancelWaiting
<1>13. ASSUME CancelLaunching(t) PROVE Moves(t, "launching_cancelled")
  BY <1>13 DEF CancelLaunching
<1>14. ASSUME LateLaunch(t) PROVE Moves(t, "killing_late") \/ Moves(t, "done")
  BY <1>2, <1>14 DEF LateLaunch
<1>15. ASSUME CancelRunning(t) PROVE Moves(t, "killing")
  BY <1>15 DEF CancelRunning
<1>16. ASSUME Killed(t) \/ KillCutShort(t) PROVE Moves(t, "done")
  BY <1>2, <1>16 DEF Killed, KillCutShort, Killing
<1> HIDE DEF Moves
<1> QED
  BY <1>4, <1>5, <1>6, <1>7, <1>8, <1>9, <1>10, <1>11, <1>12, <1>13, <1>14, <1>15, <1>16 DEF Run

LEMMA BooksStep ==
  ASSUME Places, Books, [Next]_vars
  PROVE  Books'
<1>1. ASSUME UNCHANGED <<pc, held, pending, lane>> PROVE Books'
  BY <1>1 DEF Books, Count
<1>2. ASSUME NEW t \in Task, Run(t) \/ Submit(t) \/ AdmitCode(t) \/ Stop(t) \/ CodeEnds(t)
      PROVE  Books'
  BY <1>2, StepMoves, BooksFollow
<1>3. ASSUME NEW t \in Task, Exit(t) \/ CancelTask(t) \/ CancelFuture(t) PROVE Books'
  BY <1>1, <1>3 DEF Exit, CancelTask, CancelFuture, counters
<1>4. CASE KillSentinel \/ Shutdown \/ CancelRemaining \/ CleanedUp \/ CleanupTimesOut
  BY <1>1, <1>4 DEF KillSentinel, Shutdown, CancelRemaining, CleanedUp, CleanupTimesOut, tasks, counters
<1>5. CASE PauseForQuota \/ ResumeFromQuota \/ SetCapacity \/ UNCHANGED vars
  BY <1>1, <1>5 DEF PauseForQuota, ResumeFromQuota, SetCapacity, vars, tasks, counters
<1> QED
  BY <1>2, <1>3, <1>4, <1>5 DEF Next

-----------------------------------------------------------------------------
(* Nobody sleeps through what it waits for.                                  *)
LEMMA WakeStep ==
  ASSUME Places, Books, NoLostWakeup, [Next]_vars
  PROVE  NoLostWakeup'
<1>1. held \in Nat /\ capacity \in Nat
  BY PoolAssumption DEF Books, Places
<1>2. pc \in [Task -> Place] /\ woken \in [Task -> BOOLEAN]
  BY DEF Places
<1> USE <1>1, <1>2 DEF Goto, Delivered, tasks, counters, pool, NoLostWakeup
<1>3. ASSUME NEW t \in Task, NEW o, Unwind(t, o) PROVE NoLostWakeup'
  BY <1>3 DEF Unwind, Wake
<1>4. ASSUME NEW t \in Task, Acquire(t) PROVE NoLostWakeup'
  BY <1>3, <1>4 DEF Acquire
<1>5. ASSUME NEW t \in Task, Submit(t) \/ AdmitCode(t) PROVE NoLostWakeup'
  BY <1>5 DEF Submit, AdmitCode
<1>6. ASSUME NEW t \in Task, EnterGate(t) \/ LeaveGate(t) \/ RetryAcquire(t) PROVE NoLostWakeup'
  BY <1>4, <1>6 DEF EnterGate, LeaveGate, RetryAcquire
<1>7. ASSUME NEW t \in Task, HostAnswers(t) \/ LaunchFails(t) \/ Launch(t) \/ Exit(t) \/ Stop(t)
      PROVE  NoLostWakeup'
  BY <1>3, <1>7 DEF HostAnswers, LaunchFails, Launch, Exit, Stop
<1>8. ASSUME NEW t \in Task, Complete(t) \/ StopUnanswered(t) \/ CodeEnds(t) \/ Killed(t)
               \/ KillCutShort(t)
      PROVE  NoLostWakeup'
  BY <1>3, <1>8 DEF Complete, StopUnanswered, CodeEnds, Killed, KillCutShort
<1>9. ASSUME NEW t \in Task, CancelUnstarted(t) \/ CancelWaiting(t) \/ CancelLaunching(t)
      PROVE  NoLostWakeup'
  BY <1>3, <1>9 DEF CancelUnstarted, CancelWaiting, CancelLaunching
<1>10. ASSUME NEW t \in Task, LateLaunch(t) \/ CancelRunning(t) \/ CancelTask(t) \/ CancelFuture(t)
       PROVE  NoLostWakeup'
  BY <1>3, <1>10 DEF LateLaunch, CancelRunning, CancelTask, CancelFuture
<1>11. CASE KillSentinel \/ Shutdown \/ CancelRemaining \/ CleanedUp \/ CleanupTimesOut
  BY <1>11 DEF KillSentinel, Shutdown, CancelRemaining, CleanedUp, CleanupTimesOut
<1>12. CASE PauseForQuota \/ ResumeFromQuota \/ SetCapacity \/ UNCHANGED vars
  <2>1. CASE SetCapacity
    BY <2>1, PoolAssumption DEF SetCapacity, Wake
  <2>2. CASE PauseForQuota
    BY <2>2 DEF PauseForQuota
  <2>3. CASE ResumeFromQuota
    BY <2>3 DEF ResumeFromQuota
  <2> QED
    BY <1>12, <2>1, <2>2, <2>3 DEF vars
<1> QED
  BY <1>5, <1>6, <1>7, <1>8, <1>9, <1>10, <1>11, <1>12 DEF Next, Run

-----------------------------------------------------------------------------
(* A process is up and no kill of it tried only while its task polls it.     *)
Polled == \A t \in Task : child[t] = "alive" => t \notin Code /\ pc[t] = "running"

LEMMA PolledStep ==
  ASSUME Places, Polled, [Next]_vars
  PROVE  Polled'
<1>1. /\ pc \in [Task -> Place] /\ cancel \in [Task -> BOOLEAN]
      /\ child \in [Task -> {"none", "alive", "kill_tried", "dead"}]
      /\ \A t \in Code : pc[t] \in {"new", "quota", "semaphore", "running", "done"}
  BY DEF Places
<1> USE <1>1 DEF Goto, Delivered, TryKill, tasks, counters, pool, Polled
<1>2. ASSUME NEW t \in Task, NEW o, Unwind(t, o), UNCHANGED child,
             pc[t] # "running" \/ child[t] # "alive" \/ t \in Code
      PROVE  Polled'
  BY <1>2 DEF Unwind
<1>3. ASSUME NEW t \in Task, Acquire(t), pc[t] \in {"queued", "quota", "semaphore"} PROVE Polled'
  BY <1>2, <1>3 DEF Acquire
<1>4. ASSUME NEW t \in Task, Submit(t) \/ AdmitCode(t) PROVE Polled'
  BY <1>4 DEF Submit, AdmitCode
<1>5. ASSUME NEW t \in Task, EnterGate(t) \/ LeaveGate(t) \/ RetryAcquire(t) PROVE Polled'
  BY <1>3, <1>5 DEF EnterGate, LeaveGate, RetryAcquire
<1>6. ASSUME NEW t \in Task, HostAnswers(t) \/ LaunchFails(t) PROVE Polled'
  BY <1>2, <1>6 DEF HostAnswers, LaunchFails
<1>7. ASSUME NEW t \in Task, Launch(t) \/ Exit(t) \/ Stop(t) PROVE Polled'
  BY <1>7 DEF Launch, Exit, Stop
<1>8. ASSUME NEW t \in Task, Complete(t) \/ StopUnanswered(t) \/ CodeEnds(t) PROVE Polled'
  BY <1>2, <1>8 DEF Complete, StopUnanswered, CodeEnds
<1>9. ASSUME NEW t \in Task, Killed(t) PROVE Polled'
  BY <1>9 DEF Killed, Unwind, Killing
<1>10. ASSUME NEW t \in Task, KillCutShort(t) PROVE Polled'
  BY <1>2, <1>10 DEF KillCutShort, Killing
<1>11. ASSUME NEW t \in Task, CancelUnstarted(t) \/ CancelWaiting(t) \/ CancelLaunching(t)
       PROVE  Polled'
  BY <1>2, <1>11 DEF CancelUnstarted, CancelWaiting, CancelLaunching
<1>12. ASSUME NEW t \in Task, LateLaunch(t) PROVE Polled'
  BY <1>2, <1>12 DEF LateLaunch
<1>13. ASSUME NEW t \in Task, CancelRunning(t) PROVE Polled'
  BY <1>13 DEF CancelRunning
<1>14. ASSUME NEW t \in Task, CancelTask(t) \/ CancelFuture(t) PROVE Polled'
  BY <1>14 DEF CancelTask, CancelFuture
<1>15. CASE KillSentinel \/ CancelRemaining \/ CleanupTimesOut
  BY <1>15 DEF KillSentinel, CancelRemaining, CleanupTimesOut
<1>16. CASE Shutdown \/ CleanedUp \/ PauseForQuota \/ ResumeFromQuota \/ SetCapacity \/ UNCHANGED vars
  BY <1>16 DEF Shutdown, CleanedUp, PauseForQuota, ResumeFromQuota, SetCapacity, vars
<1> QED
  BY <1>4, <1>5, <1>6, <1>7, <1>8, <1>9, <1>10, <1>11, <1>12, <1>13, <1>14, <1>15, <1>16
     DEF Next, Run

-----------------------------------------------------------------------------
(* The theorems.                                                             *)
LEMMA InitInv ==
  ASSUME Init
  PROVE  Places /\ Books /\ NoLostWakeup /\ Polled
<1>1. Places
  BY PoolAssumption DEF Init, Places, Place
<1>2. Books
  <2>1. \A B, P : "new" \notin P /\ B \subseteq Task => {t \in B : pc[t] \in P} = {}
    BY DEF Init
  <2>2. \A B, P : "new" \notin P /\ B \subseteq Task => Count(B, pc, P) = 0
    BY <2>1, FS_EmptySet DEF Count
  <2> QED
    BY <2>2 DEF Init, Books, Agent, WithPermit, Waiting, Launched
<1>3. NoLostWakeup /\ Polled
  BY DEF Init, NoLostWakeup, Polled
<1> QED
  BY <1>1, <1>2, <1>3

LEMMA PoolInvariant == Spec => [](Places /\ Books /\ NoLostWakeup)
<1>1. Places /\ Books /\ NoLostWakeup /\ [Next]_vars => (Places /\ Books /\ NoLostWakeup)'
  BY PlacesStep, BooksStep, WakeStep
<1> QED
  BY <1>1, InitInv, PTL DEF Spec

(* Type correctness of the pool.                                             *)
THEOREM TypeCorrect == Spec => []TypeOK
<1>1. Places /\ Books => TypeOK
  BY DEF Places, Books, TypeOK
<1> QED
  BY <1>1, PoolInvariant, PTL

(* No permit is lost and none is given back twice, whatever is cancelled,    *)
(* whenever, and with any number of submissions and code leaves.             *)
THEOREM NoPermitLost == Spec => []PermitsMatchHolders
<1>1. Books => PermitsMatchHolders
  BY DEF Books, PermitsMatchHolders, Count
<1> QED
  BY <1>1, PoolInvariant, PTL

(* The two events of the pool never leave a waiter asleep.                   *)
THEOREM NobodyOversleeps == Spec => []NoLostWakeup
  BY PoolInvariant, PTL

(* Permits are taken only below the capacity.                                *)
THEOREM CapacityRespected == Spec => AdmittedBelowCapacity
<1>1. ASSUME Books, Places, [Next]_vars, held' > held PROVE held < capacity
  <2>1. held \in Nat /\ capacity \in Nat
    BY <1>1, PoolAssumption DEF Books, Places
  <2> USE <2>1, <1>1 DEF tasks, counters, pool
  <2>2. ASSUME NEW t \in Task, NEW o, Unwind(t, o) PROVE FALSE
    BY <2>2 DEF Unwind
  <2>3. ASSUME NEW t \in Task, Acquire(t) PROVE held < capacity
    BY <2>2, <2>3 DEF Acquire
  <2>4. ASSUME NEW t \in Task, EnterGate(t) \/ LeaveGate(t) \/ RetryAcquire(t) \/ AdmitCode(t)
        PROVE  held < capacity
    BY <2>3, <2>4 DEF EnterGate, LeaveGate, RetryAcquire, AdmitCode
  <2>5. ASSUME NEW t \in Task, Run(t), ~ (EnterGate(t) \/ LeaveGate(t) \/ RetryAcquire(t)) PROVE FALSE
    BY <2>2, <2>5 DEF Run, HostAnswers, LaunchFails, Launch, Complete, StopUnanswered, CancelUnstarted, CancelWaiting,
         CancelLaunching, LateLaunch, CancelRunning, Killed, KillCutShort
  <2>6. ASSUME NEW t \in Task, Submit(t) \/ Exit(t) \/ Stop(t) \/ CodeEnds(t) \/ CancelTask(t) \/ CancelFuture(t)
        PROVE  FALSE
    BY <2>2, <2>6 DEF Submit, Exit, Stop, CodeEnds, CancelTask, CancelFuture
  <2>7. CASE KillSentinel \/ Shutdown \/ CancelRemaining \/ CleanedUp \/ CleanupTimesOut
    BY <2>7 DEF KillSentinel, Shutdown, CancelRemaining, CleanedUp, CleanupTimesOut
  <2>8. CASE PauseForQuota \/ ResumeFromQuota \/ SetCapacity \/ UNCHANGED vars
    BY <2>8 DEF PauseForQuota, ResumeFromQuota, SetCapacity, vars
  <2> QED
    BY <2>4, <2>5, <2>6, <2>7, <2>8 DEF Next
<1>2. Places /\ Books /\ [Next]_vars => [held' > held => held < capacity]_vars
  BY <1>1
<1> QED
  BY <1>2, PoolInvariant, PTL DEF Spec, AdmittedBelowCapacity

(* Nothing is launched once the shutdown has begun.                          *)
THEOREM ShutdownStopsLaunches == Spec => NoLaunchAfterShutdown
<1> DEFINE Unlaunched == \A t \in Task : shutting /\ pc[t] # "launching" => pc'[t] # "launching"
<1>1. ASSUME Places, [Next]_vars PROVE Unlaunched
  <2>1. pc \in [Task -> Place]
    BY <1>1 DEF Places
  <2> USE <2>1 DEF Goto, tasks, counters, pool
  <2>2. ASSUME NEW t \in Task, NEW o, Unwind(t, o) PROVE Unlaunched
    BY <2>2 DEF Unwind
  <2>3. ASSUME NEW t \in Task, Acquire(t) PROVE Unlaunched
    BY <2>2, <2>3 DEF Acquire
  <2>4. ASSUME NEW t \in Task, EnterGate(t) \/ LeaveGate(t) \/ RetryAcquire(t) PROVE Unlaunched
    BY <2>3, <2>4 DEF EnterGate, LeaveGate, RetryAcquire
  <2>5. ASSUME NEW t \in Task, HostAnswers(t) \/ LaunchFails(t) PROVE Unlaunched
    BY <2>2, <2>5 DEF HostAnswers, LaunchFails
  <2>6. ASSUME NEW t \in Task, Launch(t) \/ Complete(t) \/ StopUnanswered(t) \/ CancelUnstarted(t)
                 \/ CancelWaiting(t)
        PROVE  Unlaunched
    BY <2>2, <2>6 DEF Launch, Complete, StopUnanswered, CancelUnstarted, CancelWaiting
  <2>7. ASSUME NEW t \in Task, CancelLaunching(t) \/ LateLaunch(t) \/ CancelRunning(t) PROVE Unlaunched
    BY <2>2, <2>7 DEF CancelLaunching, LateLaunch, CancelRunning
  <2>8. ASSUME NEW t \in Task, Killed(t) \/ KillCutShort(t) \/ CodeEnds(t) PROVE Unlaunched
    BY <2>2, <2>8 DEF Killed, KillCutShort, CodeEnds
  <2>9. ASSUME NEW t \in Task, Submit(t) \/ AdmitCode(t) \/ Exit(t) \/ Stop(t) \/ CancelTask(t) \/ CancelFuture(t)
        PROVE  Unlaunched
    BY <2>9 DEF Submit, AdmitCode, Exit, Stop, CancelTask, CancelFuture
  <2>10. CASE KillSentinel \/ Shutdown \/ CancelRemaining \/ CleanedUp \/ CleanupTimesOut
    BY <2>10 DEF KillSentinel, Shutdown, CancelRemaining, CleanedUp, CleanupTimesOut
  <2>11. CASE PauseForQuota \/ ResumeFromQuota \/ SetCapacity \/ UNCHANGED vars
    BY <2>11 DEF PauseForQuota, ResumeFromQuota, SetCapacity, vars
  <2> HIDE DEF Unlaunched
  <2> QED
    BY <1>1, <2>4, <2>5, <2>6, <2>7, <2>8, <2>9, <2>10, <2>11 DEF Next, Run
<1>2. Places /\ [Next]_vars => [Unlaunched]_vars
  BY <1>1
<1> HIDE DEF Unlaunched
<1>3. Spec => [][Unlaunched]_vars
  BY <1>2, PoolInvariant, PTL DEF Spec
<1> QED
  BY <1>3 DEF NoLaunchAfterShutdown, Unlaunched

(* How a task ends: with its future settled unless it never began.           *)
EndsSettled(t) ==
  pc[t] # "done" /\ pc'[t] = "done" => future'[t] # "pending" \/ CancelUnstarted(t)

LEMMA TasksEndSettled ==
  ASSUME Places, [Next]_vars, NEW u \in Task
  PROVE  EndsSettled(u)
<1>1. /\ pc \in [Task -> Place]
      /\ future \in [Task -> {"none", "pending", "result", "exception", "cancelled"}]
  BY DEF Places
<1> USE <1>1 DEF EndsSettled, Goto, tasks, counters, pool
<1>2. ASSUME NEW t \in Task, NEW o, Unwind(t, o), o # "pending" PROVE EndsSettled(u)
  BY <1>2 DEF Unwind
<1>3. ASSUME NEW t \in Task, Acquire(t) PROVE EndsSettled(u)
  BY <1>2, <1>3 DEF Acquire
<1>4. ASSUME NEW t \in Task, EnterGate(t) \/ LeaveGate(t) \/ RetryAcquire(t) PROVE EndsSettled(u)
  BY <1>3, <1>4 DEF EnterGate, LeaveGate, RetryAcquire
<1>5. ASSUME NEW t \in Task, HostAnswers(t) \/ LaunchFails(t) PROVE EndsSettled(u)
  BY <1>2, <1>5 DEF HostAnswers, LaunchFails
<1>6. ASSUME NEW t \in Task, Complete(t) \/ StopUnanswered(t) \/ CodeEnds(t) PROVE EndsSettled(u)
  BY <1>2, <1>6 DEF Complete, StopUnanswered, CodeEnds
<1>7. ASSUME NEW t \in Task, CancelWaiting(t) \/ LateLaunch(t) PROVE EndsSettled(u)
  BY <1>2, <1>7 DEF CancelWaiting, LateLaunch
<1>8. ASSUME NEW t \in Task, Killed(t) \/ KillCutShort(t) PROVE EndsSettled(u)
  BY <1>2, <1>8 DEF Killed, KillCutShort, Ended
<1>9. ASSUME NEW t \in Task, CancelUnstarted(t) PROVE EndsSettled(u)
  BY <1>9 DEF CancelUnstarted
<1>10. ASSUME NEW t \in Task, Submit(t) \/ AdmitCode(t) PROVE EndsSettled(u)
  BY <1>10 DEF Submit, AdmitCode
<1>11. ASSUME NEW t \in Task, Launch(t) \/ Exit(t) \/ Stop(t) \/ CancelLaunching(t)
               \/ CancelRunning(t) \/ CancelTask(t) \/ CancelFuture(t)
       PROVE  EndsSettled(u)
  BY <1>11 DEF Launch, Exit, Stop, CancelLaunching, CancelRunning, CancelTask, CancelFuture
<1>12. CASE KillSentinel \/ Shutdown \/ CancelRemaining \/ CleanedUp \/ CleanupTimesOut
  BY <1>12 DEF KillSentinel, Shutdown, CancelRemaining, CleanedUp, CleanupTimesOut
<1>13. CASE PauseForQuota \/ ResumeFromQuota \/ SetCapacity \/ UNCHANGED vars
  BY <1>13 DEF PauseForQuota, ResumeFromQuota, SetCapacity, vars
<1> QED
  BY <1>4, <1>5, <1>6, <1>7, <1>8, <1>9, <1>10, <1>11, <1>12, <1>13 DEF Next, Run

(* A process that nobody has tried to kill is on its task's books and under  *)
(* its permit, whatever is cancelled and whenever.                           *)
THEOREM NoProcessForgotten == Spec => []PermitUntilKillTried
<1>1. Places /\ Polled /\ [Next]_vars => (Places /\ Polled)'
  BY PlacesStep, PolledStep
<1>2. Polled => PermitUntilKillTried
  BY DEF Polled, PermitUntilKillTried, Launched
<1> QED
  BY <1>1, <1>2, InitInv, PTL DEF Spec

(* Every task that took its first step settles its future.                   *)
THEOREM NoCallerWaitsForEver == Spec => FuturesSettled
<1> DEFINE Settled == \A t \in Task : pc'[t] = "done" =>
                        \/ future'[t] # "pending"
                        \/ pc[t] = "done"
                        \/ CancelUnstarted(t)
<1>1. ASSUME Places, [Next]_vars PROVE Settled
  BY <1>1, TasksEndSettled DEF EndsSettled
<1>2. Places /\ [Next]_vars => [Settled]_vars
  BY <1>1
<1> HIDE DEF Settled
<1>3. Spec => [][Settled]_vars
  BY <1>2, PoolInvariant, PTL DEF Spec
<1> QED
  BY <1>3 DEF FuturesSettled, Settled
=============================================================================
