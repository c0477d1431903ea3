------------------------------ MODULE SpendCap ------------------------------
(***************************************************************************)
(* The spend cap of a run and the gate of its mapped steps:                *)
(* engine/spend_cap.py, run_fan_out of engine/item_runner.py, and the       *)
(* mapped composite steps of commands/run_process.py that use them.        *)
(*                                                                         *)
(* A run is launched, stops or crashes, and is launched again, maybe with  *)
(* another cap. A launch walks the levels of its plan; the mapped steps of *)
(* a level dispatch side by side. Each task of a mapped step is a scope    *)
(* that passes the gate of its step and runs one agent leaf, which takes a *)
(* permit of the run for each of its attempts. What an attempt costs, its   *)
(* log tells, if it has come to its last event and its model has a price;  *)
(* the ledger reads it once the leaf has ended.                            *)
(*                                                                         *)
(* Everything runs on one event loop, so a check and what it decides are   *)
(* one step; a step of the walk, of a task or of an agent is an action.    *)
(***************************************************************************)
EXTENDS Integers, Sequences, FiniteSetsExt

CONSTANTS
  Step, Roster,      \* the mapped steps, and the tasks of each in the order of its items
  Plans,             \* [levels: a sequence of sets of steps, priced: steps with spend:]
  Costs, Price,      \* what an attempt of a leaf may cost; spend.per_item_usd
  Attempts,          \* the attempts of one pass of the child process of each step
  Caps, DefaultCap,  \* what --max-spend-usd may say; spend_cap.default_usd
  RunLimit,          \* --max-concurrency: the permits of the run
  DefaultScopes, StepLimit,  \* _DEFAULT_MAPPED_SCOPE_CONCURRENCY; for_each.max_concurrency or 0
  MinFinished, MaxFailed, OfFinished, \* for_each.breaker; its fraction is MaxFailed / OfFinished
  LaunchBound, FaultBound

ASSUME SpendAssumption ==
  /\ IsFiniteSet(Step) /\ Attempts \in [Step -> Nat \ {0}]
  /\ {Price, RunLimit, DefaultScopes, MinFinished} \subseteq Nat \ {0}
  /\ Caps \cup {DefaultCap} \subseteq Nat \ {0}
  /\ {MaxFailed, OfFinished, LaunchBound, FaultBound} \subseteq Nat
  /\ Costs \subseteq 0..Price /\ StepLimit \in [Step -> Nat]
  /\ \A s \in Step : Len(Roster[s]) \in Nat /\ DOMAIN Roster[s] = 1..Len(Roster[s])
  /\ \A r, s \in Step : r # s => \A i \in DOMAIN Roster[r], j \in DOMAIN Roster[s] :
       Roster[r][i] # Roster[s][j]
  /\ \A p \in Plans : p.levels \in Seq(SUBSET Step) \ {<<>>} /\ p.priced \subseteq Step

VARIABLES
  plan,      \* the run's plan
  live,      \* a launch is running
  level,     \* the level it is at
  cap,       \* max_spend_usd of run-config.yaml, and of the launch
  recorded,  \* measured_usd of .state/spend-ledger.yaml
  logs,      \* what the logs of a task on this machine tell that it cost
  leaf,      \* tasks whose agent step has completed
  step,      \* the verdict of each step: pending, dispatching, completed or failed
  task,      \* queued, held, scoped, running, ended, completed or failed
  tries,     \* attempts the leaf of a task has left
  carried, counted, \* SpendLedger.carried_usd and ._logs
  finished, failed, \* MappedDispatch: what a step finished and failed in this launch
  trip,      \* MappedDispatch._trip is set
  launches,  \* launches so far
  faults,    \* cuts, losses, failed reads and attempts whose cost no log tells, so far
  told,      \* what the run has cost, as far as logs have told
  untold,    \* what it has cost besides
  unread,    \* what the logs of a task have told in this launch and the ledger has not read
  unseen,    \* what the record lacked of the spend that was told when the last launch ended
  lost,      \* a log has been lost
  skipped,   \* a launch has opened its ledger without a log that it could not read
  together   \* a priced step passed its check while another dispatched

capVars == <<plan, live, level, cap, recorded, logs, leaf, step, task, tries, carried, counted,
             finished, failed, trip, launches, faults, told, untold, unread, unseen, lost, skipped,
             together>>
disk == <<plan, cap, launches, logs, leaf>>
gate == <<finished, failed, trip>>
ghosts == <<unseen, lost, skipped, together>>
bill == <<told, untold, unread>>

TasksOf(s) == {Roster[s][i] : i \in DOMAIN Roster[s]}
Task == UNION {TasksOf(s) : s \in Step}
StepOf(t) == CHOOSE s \in Step : t \in TasksOf(s)
Sum(cost, T) == MapThenSumSet(LAMBDA t : cost[t], T)
Actionable(s) == {t \in TasksOf(s) : task[t] # "completed"}
Open == {t \in Task : task[t] \in {"scoped", "running", "ended"}}
Level == plan.levels[level]
-----------------------------------------------------------------------------
(* The ledger *)

ScannedUsd == Sum(counted, Task)
Measured == carried + ScannedUsd
Exhausted == Measured >= cap

Faults(n) == faults + n <= FaultBound /\ faults' = faults + n

\* The ledger reads the logs of some tasks and records its total.
Unread(T) == [t \in Task |-> IF t \in T THEN 0 ELSE unread[t] + logs'[t] - logs[t]]
Read(T) ==
  /\ counted' = [t \in Task |-> IF t \in T THEN logs'[t] ELSE counted[t]]
  /\ recorded' = carried + Sum(counted', Task)
  /\ unread' = Unread(T)
NoRead == UNCHANGED <<counted, recorded>> /\ unread' = Unread({})

\* _observe_spend, in a step of n faults besides: a log that cannot be read is reported and
\* left for a later reading.
Observe(t, n) ==
  /\ UNCHANGED carried
  /\ \/ Read({t}) /\ Faults(n)
     \/ NoRead /\ Faults(n + 1) /\ counted[t] # logs'[t]

FaultyNoCarry(read) == 0

\* The spend the record holds that the logs read on this machine do not account for.
Carry(read) == Max({0, recorded - Sum(read, Task)})

\* SpendLedger.open: the scan passes over logs it cannot stat or parse.
OpenLedger ==
  \E S \in SUBSET {t \in Task : logs[t] > 0} :
    /\ Faults(Cardinality(S))
    /\ counted' = [t \in Task |-> IF t \in S THEN 0 ELSE logs[t]]
    /\ carried' = Carry(counted')
    /\ recorded' = carried' + Sum(counted', Task)
    /\ unread' = [t \in Task |-> 0]
    /\ skipped' = (skipped \/ S # {})
-----------------------------------------------------------------------------
(* A launch *)

CapInit ==
  /\ plan \in Plans
  /\ live = FALSE /\ level = 1 /\ cap = DefaultCap /\ recorded = 0
  /\ logs = [t \in Task |-> 0] /\ leaf = {} /\ counted = logs /\ carried = 0
  /\ step = [s \in Step |-> "pending"] /\ task = [t \in Task |-> "queued"]
  /\ tries = [t \in Task |-> 0]
  /\ finished = [s \in Step |-> 0] /\ failed = finished /\ trip = [s \in Step |-> FALSE]
  /\ launches = 0 /\ faults = 0
  /\ told = 0 /\ untold = 0 /\ unread = logs
  /\ unseen = 0 /\ lost = FALSE /\ skipped = FALSE /\ together = FALSE

\* run-process: the flag wins over the recorded cap. Completed tasks are reused, every
\* other one is actionable again.
RunProcess(c) ==
  /\ ~live /\ launches < LaunchBound
  /\ launches' = launches + 1
  /\ live' = TRUE /\ level' = 1 /\ cap' = c
  /\ OpenLedger
  /\ step' = [s \in Step |-> "pending"]
  /\ task' = [t \in Task |-> IF task[t] = "completed" THEN "completed" ELSE "queued"]
  /\ tries' = [t \in Task |-> 0]
  /\ finished' = [s \in Step |-> 0] /\ failed' = [s \in Step |-> 0]
  /\ trip' = [s \in Step |-> FALSE]
  /\ together' = FALSE
  /\ UNCHANGED <<plan, logs, leaf, told, untold, unseen, lost>>

\* SpendCeiling.usd
WorstCase(s) == Cardinality(Actionable(s)) * (Attempts[s] * Price)

\* check_worst_case, for the steps that declare a price
Fits(s) == s \in plan.priced => Measured + WorstCase(s) <= cap

\* _prepare_mapped_dispatch, once the reuse of the step is decided: a priced step whose
\* worst case may pass the cap is refused before any item starts.
StartStep(s) ==
  /\ live /\ s \in Level /\ step[s] = "pending"
  /\ step' = [step EXCEPT ![s] = IF Actionable(s) = {} THEN "completed"
                                 ELSE IF Fits(s) THEN "dispatching" ELSE "failed"]
  /\ together' = (together \/ (/\ step'[s] = "dispatching"
                               /\ \E r \in Level : step[r] = "dispatching"))
  /\ UNCHANGED <<disk, gate, live, level, recorded, task, tries, carried, counted, faults,
                 bill, unseen, lost, skipped>>
-----------------------------------------------------------------------------
(* The tasks of a mapped step *)

MappedScopes == Max({DefaultScopes, RunLimit})
Width(s) == IF StepLimit[s] > 0 THEN Min({MappedScopes, StepLimit[s]}) ELSE MappedScopes

FailureRate(s) == finished[s] >= MinFinished /\ failed[s] * OfFinished > finished[s] * MaxFailed

\* MappedDispatch.admit refuses: the first condition that trips is kept.
Refuses(s) == trip[s] \/ Exhausted \/ FailureRate(s)

\* The next item takes its place in the step, and the gate admits it or holds it back.
Enter(s) ==
  \E i \in DOMAIN Roster[s] :
    LET t == Roster[s][i] IN
    /\ live /\ step[s] = "dispatching"
    /\ task[t] = "queued" /\ \A j \in 1..(i - 1) : task[Roster[s][j]] # "queued"
    /\ Cardinality(Open \cap TasksOf(s)) < Width(s)
    /\ trip' = [trip EXCEPT ![s] = Refuses(s)]
    /\ task' = [task EXCEPT ![t] = IF Refuses(s) THEN "held"
                                   ELSE IF t \in leaf THEN "ended" ELSE "scoped"]
    /\ tries' = [tries EXCEPT ![t] = IF task'[t] = "scoped" THEN Attempts[s] ELSE 0]
    /\ UNCHANGED <<disk, ghosts, live, level, recorded, step, carried, counted, finished, failed,
                   faults, bill>>

FaultyHolders == Open

\* The tasks that hold a permit of the run: a scope holds none, its leaf does.
Holders == {t \in Task : task[t] = "running"}

\* The leaf takes a permit and launches its agent.
Begin(t) ==
  /\ live /\ task[t] = "scoped" /\ Cardinality(Holders) < RunLimit
  /\ task' = [task EXCEPT ![t] = "running"]
  /\ UNCHANGED <<disk, gate, ghosts, live, level, recorded, step, tries, carried, counted,
                 faults, bill>>

\* What an attempt has cost is in its log, unless the log ends before its last event, as
\* that of a killed attempt does, or names a model without a price.
Pay(t, usd, tells) ==
  /\ logs' = [logs EXCEPT ![t] = IF tells THEN @ + usd ELSE @]
  /\ told' = IF tells THEN told + usd ELSE told
  /\ untold' = IF tells THEN untold ELSE untold + usd
Untold(tells) == IF tells THEN 0 ELSE 1

\* An attempt ends and is retried, while attempts are left.
Retry(t, usd, tells) ==
  /\ live /\ task[t] = "running" /\ tries[t] > 1
  /\ Pay(t, usd, tells) /\ Faults(Untold(tells)) /\ NoRead
  /\ tries' = [tries EXCEPT ![t] = @ - 1]
  /\ task' = [task EXCEPT ![t] = "scoped"]
  /\ UNCHANGED <<plan, cap, launches, leaf, gate, ghosts, live, level, step, carried>>

\* The last attempt ends: the agent step has succeeded or failed for good, and its spend
\* is observed.
LeafEnds(t, usd, tells, ok) ==
  /\ live /\ task[t] = "running"
  /\ Pay(t, usd, tells)
  /\ leaf' = IF ok THEN leaf \cup {t} ELSE leaf
  /\ Observe(t, Untold(tells))
  /\ task' = [task EXCEPT ![t] = "ended"]
  /\ tries' = [tries EXCEPT ![t] = 0]
  /\ UNCHANGED <<plan, cap, launches, gate, ghosts, live, level, step>>

\* The scope ends: its spend is observed once more, then the gate hears the result.
ScopeEnds(t) ==
  LET s == StepOf(t)  ok == t \in leaf IN
  /\ live /\ task[t] = "ended" /\ UNCHANGED logs
  /\ Observe(t, 0)
  /\ task' = [task EXCEPT ![t] = IF ok THEN "completed" ELSE "failed"]
  /\ finished' = [finished EXCEPT ![s] = @ + 1]
  /\ failed' = [failed EXCEPT ![s] = IF ok THEN @ ELSE @ + 1]
  /\ UNCHANGED <<plan, cap, launches, leaf, ghosts, live, level, step, tries, trip, told,
                 untold>>

\* run_fan_out has gathered every item; a step that held one back has stopped.
StepEnds(s) ==
  /\ live /\ step[s] = "dispatching"
  /\ \A t \in TasksOf(s) : task[t] \in {"held", "completed", "failed"}
  /\ step' = [step EXCEPT ![s] = IF Actionable(s) = {} THEN "completed" ELSE "failed"]
  /\ UNCHANGED <<disk, gate, ghosts, live, level, recorded, task, tries, carried, counted,
                 faults, bill>>

\* What the record lacks of the spend that was told.
Lacks == Max({0, told - recorded})

\* The level is done; the walk goes on unless a step of it failed.
LevelEnds ==
  LET on == /\ level < Len(plan.levels)
            /\ \A s \in Level : step[s] = "completed" IN
  /\ live /\ \A s \in Level : step[s] \in {"completed", "failed"}
  /\ level' = IF on THEN level + 1 ELSE level
  /\ live' = on
  /\ unseen' = IF on THEN unseen ELSE Lacks
  /\ UNCHANGED <<disk, gate, recorded, step, task, tries, carried, counted, faults, bill,
                 lost, skipped, together>>
-----------------------------------------------------------------------------
(* Faults *)

\* The launch is cut, and its agents die with it. An attempt has cost anything up to its
\* price, which its log tells only if it had got its last event.
Cut ==
  /\ live /\ Faults(1)
  /\ \E T \in SUBSET Holders, usd \in [Holders -> Costs \cup {0}] :
       /\ logs' = [t \in Task |-> logs[t] + (IF t \in T THEN usd[t] ELSE 0)]
       /\ told' = told + Sum(usd, T)
       /\ untold' = untold + Sum(usd, Holders \ T)
  /\ live' = FALSE
  /\ UNCHANGED <<plan, cap, launches, leaf, gate, level, step, task, tries, carried, lost, skipped,
                 together>>

Crash == Cut /\ NoRead /\ unseen' = Lacks'

\* Ctrl-C: the tasks that are cancelled still have their spend observed.
Interrupt == Cut /\ Read(Open) /\ unseen' = Lacks'

\* The run is resumed on a machine that lacks the logs of a task.
LoseLogs(t) ==
  /\ ~live /\ logs[t] > 0 /\ Faults(1)
  /\ logs' = [logs EXCEPT ![t] = 0]
  /\ lost' = TRUE
  /\ UNCHANGED <<plan, cap, launches, leaf, gate, live, level, recorded, step, task, tries, carried,
                 counted, bill, unseen, skipped, together>>

Work ==
  \/ \E s \in Step : StartStep(s) \/ Enter(s) \/ StepEnds(s)
  \/ \E t \in Task : Begin(t) \/ ScopeEnds(t)
  \/ \E t \in Task, usd \in Costs, tells \in BOOLEAN :
       Retry(t, usd, tells) \/ \E ok \in BOOLEAN : LeafEnds(t, usd, tells, ok)
  \/ LevelEnds

CapNext ==
  \/ Work
  \/ \E c \in Caps \cup {cap} : RunProcess(c)
  \/ \E t \in Task : LoseLogs(t)
  \/ Crash
  \/ Interrupt

CapSpec == CapInit /\ [][CapNext]_capVars

\* The event loop runs what is ready, and an agent ends, at the latest by its timeout.
FairCapSpec == CapSpec /\ WF_capVars(Work)
-----------------------------------------------------------------------------
(* Properties *)

spent == told + untold

\* What the record lacked when the launch began, if logs were lost or left unread that might
\* have supplied it.
Unseen == IF lost \/ skipped THEN unseen ELSE 0

\* Spend a log has told that the ledger does not know of: a log it failed to read once its
\* task was done, and what it lacked from the start.
Unknown == Sum(unread, {t \in Task : task[t] \in {"completed", "failed"}}) + Unseen

\* What the tasks that may be in flight at once can still cost.
InFlight == Sum([s \in Step |-> Width(s) * (Attempts[s] * Price)], Level)

\* A run spends over its whole life, whatever stops, crashes and resumes it, no more
\* than the cap, but for what no log tells and what the ledger does not know of: exactly so
\* while it dispatches priced steps one at a time, since the worst case of a step is checked
\* before it starts; and otherwise by less than what was in flight when the cap was reached,
\* since the gate admits nothing more (check_worst_case, MappedDispatch.admit,
\* SpendLedger.open). Nor is a dollar counted twice, whether from a log, from the record or
\* from both, until a launch passes over a log that it cannot read.
SpendBounded ==
  [][/\ ~skipped' => Measured' <= told'
     /\ spent' > spent =>
          /\ spent' < cap + untold' + Unknown + InFlight
          /\ Level \subseteq plan.priced /\ ~together => spent' <= cap + untold' + Unknown]_capVars

\* Every launch comes to its end: scopes wait for permits of the run and hold none
\* themselves, so even with a single permit the leaves of all scopes get their turn
\* (_execute_composite_fan_out_step).
EveryLaunchEnds == live ~> ~live
=============================================================================
