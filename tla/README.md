# Formal models of metaproc

metaproc runs multi-step processes. An orchestrator resolves an authored process into a
plan, walks its DAG and executes agent, code, composite and manual steps, mapped over
items where the plan says so, through a run pool, on one host or several. Everything it
decides it writes to files, from which a later run resumes.

This directory holds TLA+ models of the parts of metaproc where order matters, TLC
configurations that check them on small instances, and TLAPS proofs that hold for every
instance. Paths below are relative to `src/metaproc/` unless they start with `tests/`.

Contents: [the system](#the-system) · [modules](#modules) · [runs](#runs) ·
[bounds](#bounds) · [fairness](#fairness) · [proofs](#proofs) ·
[disagreements](#disagreements) · [known departures](#known-departures) ·
[not modelled](#not-modelled) · [plan](#plan)

## The system

| Part | State | Operations | What must hold |
| --- | --- | --- | --- |
| execution model (`execution_model/`) | a `RunState`: rosters, task records, attempts, commits | `reduce(state, event, now)` for expansion, attempt start and end, force, tick | one commit per generation, fencing of superseded attempts, history only appended, every run drains |
| mkdir lock (`io/mkdir_lock.py`) | a directory and its mtime | acquire, release, reclaim | mutual exclusion, a left lock is got rid of |
| orchestrator lease (`io/orchestrator_lease.py`, `commands/kill.py`) | `orchestrator-lease.yaml`, a mutation lock with an owner file, remembered tokens | acquire or take over, heartbeat, release, clear | one orchestrator per run directory |
| run pool (`runpool/pool.py`, `semaphore.py`, `backend.py`) | futures, permits, pending and active counters, a pause and a shutdown event | submit, admit_code, cancel, quota pause, capacity change, kill sentinel, shutdown | no permit lost, no waiter forgotten, no process forgotten, every future settled |
| task state (`io/state_io.py`) | attempt records, `status.yaml`, anomalies, `result.yaml` | start, running, end, complete, fail, defer, invalidate, reconcile | the projection never claims more than the attempts, facts are final, a task can always be started again |
| step walk (`commands/run_process.py`) | the task files of all steps, the process-status mirror | walk a level, judge completion, invalidate, propagate failures, resume | no step runs before its dependencies or is kept over outdated ones |
| mapped agent runner (`commands/run_parallel.py`, `io/claimed_items.py`, `io/dispatch_manifest.py`, `cloud/gcp/worker_dispatch.py`) | a registry of claims per worker id, a retry heap, the manifest of worker jobs | dispatch, adopt and replace workers; claim, launch, classify, retry, promote | one worker per item, completed work left alone, no item forgotten |
| item runner, spend cap (`engine/item_runner.py`, `engine/spend_cap.py`) | gates per step, a ledger with a durable record, a breaker | run_fan_out, run_aligned_chain, with_retry, admit, record | bounded concurrency, bounded overrun, spend that no resume forgets |
| governors (`runpool/concurrency.py`, monitor loop of `pool.py`) | memory, provider and operator targets | back off, recover, restore | the target stays within every bound |
| host admission (`runpool/host_admission.py`, `scalar_admission.py`) | slot directories with a lease file | acquire, record child, release, reclaim | the host's limit, a slot for as long as its child lives, no slot lost for ever |
| credentials (`dispatch/`) | labels with status and etag, slot directories, checkpoints | select, mark, rotate, defer, resume | no lost mark, each checkpoint resumed once |
| operator overrides (`io/overrides.py`) | a YAML document | upsert, clear | no entry lost |
| plan building, validation, adapters, cloud dispatch, reports, configuration | files, none of their own | pure functions, translation to third parties | tested by example |

How they interact. `run-process` takes the **lease** and then walks the plan. For each
step the **walk** reads and writes **task state**; a mapped agent step goes to the
**mapped agent runner**, which writes task state per item and submits each launch to the
**run pool**; scalar agents and code leaves enter the same pool. The pool passes each
submission through the quota gate, its semaphore (whose capacity the **governors** set)
and **host admission**, then launches a process with **credentials** from the pool of
labels. The **execution model** is the same scheduler as a pure function; the runtime
projects its files onto it and replays traces through it. Leases, claims, labels and
checkpoints rest on the **mkdir lock**.

What is hard: steps of several processes on several hosts between two file-system calls
(locks, lease); cancellations delivered at any await of an event loop (pool); a crash
between two of the file writes of one operation (task state); facts redelivered, late or
reordered (reducer); timeouts and staleness rules that judge a process dead (locks,
lease); retries of what was already done. `PROJECT.json` lists the main hazards one by one, at
the line where each bites, with the properties that cover it.

## Modules

`X.tla` is a component, `MCX.tla` gives it instances for TLC, `XProofs.tla` its theorems
(`RunLimitsProofs` those of `HostAdmission` and `SpendCap`).
Definitions named `Faulty...` are plausible slips: no action uses them; put in the place
of the definition they precede, each makes a property of some run fail.

### ExecutionModel

`reduce` is pure, so the module is a family of operators on a record `st` with the fields
of `RunState`, one operator per handler (`ApplyExpansionClosed`, `ApplyExpansionFailed`,
`ApplyAttemptStarted`, `ApplyAttemptEnded`, `ApplyForce`, the clock), followed by
`SettleBlocked`, the loop that skips tasks until none is blocked, and `Dispatches` and
`Cancellations`, the commands returned. The loop is a recursive function over the number
of tasks left, so that it can be proved about. Each event is an action. The runtime is
the environment: it starts attempts for commands it was given, reports endings,
redelivers facts, forces tasks and lets time pass. `LateStart` distinguishes a runtime
that works beside the reducer and may act on commands of earlier batches from one that
acts on the latest only.

### MkdirLock, Mutex

One action per file-system call of `acquire_mkdir_lock` and `release_mkdir_lock`:
`Mkdir`, `JudgeStale` (the stat), `Reclaim` (the rmdir), `Timeout`, `Release`, plus `Age`,
`Crash` and `Restart`. Whether callers give a staleness rule is chosen once, as every
caller of one lock passes the same. `creator` is a history variable: the directory has no
owner. `Mutex` is the abstract lock that `ImplementsMutex` maps it to.

### ItemClaims

`claim_item` under the lock of `MkdirLock`, which it extends: the worker's own registry is
read (`ReadOwn`), the others are looked up and opened one after the other (`Look`,
`Read`), then the claim is written or refused, while a dispatcher deletes the registry of
a worker that is gone without taking the lock (`Clear`). A crash can fall between any two
of these. `raced` records that two contenders held a stale verdict at once.

### LeaseWriteLock

`_LeaseWriteLock.__enter__` and `__exit__`: the same directory lock with an owner file
beside it, written after the mkdir and unlinked before the rmdir, by which contenders on
the same host ask whether the holder lives; on another host, or without the file, they
judge by age. One action per file-system step, with crashes anywhere and failures of each
call: a reclaim whose rmdir is refused looks again (`ReclaimFails`), a release that fails at
the owner file or at the rmdir leaves the directory behind with nobody in it
(`LeaveBehind`). `raced` records that two contenders held a stale verdict at once.
`LeaseHosts` declares the processes and their hosts, which this module
and the next have in common.

### OrchestratorLease

Launches of `run-process` on two hosts and an operator's `kill`. Acquiring, beating,
releasing and clearing are each one step, because each runs under `LeaseWriteLock`. The
phases of `run_process_command` are `starting` (lease taken, heartbeat thread not yet
started), `running`, and `finalizing` (heartbeat stopped, lease not yet released).
Launches in `Forcing` were given `--force`; those in `Slow` may stay in a phase without
a heartbeat for longer than the staleness threshold.

### RunPool

Everything runs on one event loop, so an action is what a task does from one await to
the next, and `pc` names the await. A cancellation is a flag that the task's next step
delivers, as asyncio does. Waiting on an event is `woken`: set when the event is set
while the task waits. A child is `alive` until a kill of it is tried (`kill_tried`): the
kill may end it, fail (`Killed`), be cut short by a cancellation (`KillCutShort`) or
stay unanswered for the ten seconds that the pool waits (`StopUnanswered`). Descendants
of the launched process are not modelled. The semaphore (`held`, `capacity`), the
counters (`pending`, `lane`), futures and child processes are separate variables, since
the properties are that they agree.

### TaskState, TaskLog

The files of one task. An operation of `state_io.py` is a sequence of atomic file
replacements worked out when it is called (`MarkCompleted`, `MarkFailed`, `EndAttempt`,
`Reconciliation`, ...); `MakeWrite` carries them out one at a time and `Crash` can fall
between any two, those of a reconciliation included. The actions are the callers:
`Launch`, `LaunchFails`, `Succeed`, `Defer`, `Fail`, `RecordFailure`, `AwaitRetry`,
`CancelRetry`, `AbandonRetry`, `Promote`, `Invalidate` and `Restart`. `held` is the
`running_record` a runner keeps in memory across awaits.

`TaskLog` is what these files promise together, without files, pending writes or
crashes: a log of attempts whose last entry is live until it is replaced, once, by its
terminal fact, and a status and a result that say of the latest entry only what is true
of it. `ImplementsTaskLog` maps the files to it: an attempt directory without its record
is not yet an entry, anomalies count once the attempt they are staged for has ended, and
a status from before attempts were recorded names none of them (`Amend`). That facts are
final (`FactsAreFinal`) follows from it; it is stated and proved on its own, and no run
checks it a second time.

### StepWalk

`_orchestrate` from launch to launch of the same run directory: reconciliation, the
judgement of each step of a level (blocked, skipped, overridden, complete, to run), the
renames of an invalidation one at a time, the steps of a level side by side, item-aligned
chains, failures, interrupts and crashes, then edits, lost outputs and overrides before
the next launch. The files of a task are one value. What an output was computed from is a
set of steps with their versions, so that "out of date" can be said of any output.
A chain runs under the first of its stages that the walk covers: `Before(m, s)` says that
`m` is an earlier stage of it, `Members(s)` are the stages that run under `s`, and
`Reached(s)` the items that passed the stages before `s`. `excused`, `unsettled` and `owed`
are history: steps the operator vouched for or ran alone; steps whose records may vouch
for outputs out of date, because a crash cut an invalidation or a completion short, a
launch left them out, or they ran over what no record vouched for (`Unvouched`); and the
keys a step had to complete when it last ended. The module
assumes what planning refuses to go without: no cycle (`validate_step_graph`), chains of
mapped steps in which each stage needs the one before and none collects
(`item_aligned_chains`), and command lines that walk all they plan or a nested scope.

### AgentRunner

The workers of a mapped agent step, each the scheduler of `_run_agent_pool` on a host of
its own, and the dispatcher that starts, adopts and replaces them. `shared[w][i]` is where
item `i` stands at worker `w`: `queued` (not started), `checked` (taken from a queue, not
yet claimed), `submitted`, `live`, `exited`, `refused` or `killed` (futures in flight),
`waiting` (retry heap), and `ok`, `bad` or `dropped` at the end. A claim is one step
(`ItemClaims` has its parts), a task is the fact of its latest attempt (`TaskState` has
its files), and the pool is a number of submissions (`RunPool`). `disowned` records the
workers a dispatcher never listed, or whose registry was cleared while they were active;
an item is `Accounted` for when none of them was given it. A dispatch starts no more workers
than the items leave room for beside the active ones (`worker_dispatch.py` 422-424; the
wanted number itself is the operator's, and free), and deals the items out in turn
(`Partitions`). The items it counts are all of the step, as `scale` passes them, or those
not yet completed.

### HostAdmission

Launches of several pools of one host that share slot directories. One action per file
operation (mkdir, verdict, unlink, rmdir, remake, lease write, recording the child);
between two awaits a pool makes one synchronous call, so its launches interleave only
there (`Turn`), while pools interleave at every operation. Ages are three: young, past
`EMPTY_SLOT_GRACE_S`, past `UNRECORDED_LEASE_GRACE_S`; `Age` assumes that no single call
lasts as long as the shorter grace (30 s). `loose` are the launches whose child no slot
stands for, `raced` says that two contenders held a stale verdict of a slot at once.

### SpendCap

A run that is launched, stops or crashes, and is launched again: `SpendLedger`,
`check_worst_case`, `MappedDispatch` and `run_fan_out` as the mapped composite steps use
them. Everything runs on one event loop, so a check and what it decides are one step.
Tasks of a step enter in roster order and take the permits of the run for each attempt of
their agent. What was spent is `told` by logs or `untold`: the log of an attempt that is cut
has no last event and no cost, and neither has that of a model without a price (`Pay`,
`Cut`). `OpenLedger` may pass over logs that it cannot stat or parse (`skipped`), `Observe`
may fail to read one. `Unknown` is what was told and the ledger missed: logs not read in
this launch (`unread`) and, once logs have been lost or skipped, what the record lacked when
the last launch ended (`Unseen`).

## Runs

| Run | Shows |
| --- | --- |
| `reducer_async` | An edge between two tasks, commands executed late, in duplicate and redelivered: one commit per generation, success exactly when committed, history append-only. |
| `reducer_sync` | measure[k] → interpret[k] → summarize and an edge to a missing step, with a runtime that acts on the latest commands: never two live attempts of one task, skips stay justified, no success over a superseded input, retries stop at the ceiling, and the run drains. |
| `claims_lock` | Three workers claim an item, with and without a staleness rule, time out, crash anywhere and return: a directory never reclaimed is a mutex, an abandoned one is got rid of, the item has one owner until two verdicts overlap. |
| `lease_lock` | Four processes on two hosts, whose releases and reclaims may fail: exclusive until a holder dies inside or two stale verdicts overlap, and a lock left behind by a death or a failure is recovered. |
| `lease_takeover` | Five launches on two hosts and kills: one orchestrator at a time until a forced takeover or an over-long phase; no live lease removed, none of a dead orchestrator refreshed, ever. |
| `pool` | A submission and two code leaves under every cancellation, pause, capacity change, sentinel and shutdown: permits match their holders, no waiter sleeps through a permit, nothing launches after the shutdown, a process has a permit until a kill of it is tried, every future is settled, a shutdown ends. |
| `task_state` | One task with up to three attempts and two crashes: status and result claim no more than the attempts achieved, reconciliation leaves a task that can be started, invalidations and completions stand, and all the files together implement `TaskLog` (facts are final, only the latest attempt is live, what was withdrawn is not shown again). |
| `step_walk` | Two launches of a chain, a collector and a step over both, under eight command lines: no task runs over needs that do not stand, the mirror claims no more than the records, a clean walk leaves what a run from nothing would of the steps it answers for, fresh work is kept, and no walk gets stuck. |
| `agent_runner` | Two workers, two items, three dispatches, retries, credential waits and a fault: claims keep two workers off one item, no item is forgotten between them, completed work stays, no worker is stuck. |
| `agent_runner_redispatch` | Three items, four jobs, three dispatches and one lost host refute `NoDoubleRun` among listed workers (see disagreements). |
| `host_slots` | Three pools contend for a slot and die in any step: within the limit, no live slot taken, and the slot comes back. |
| `spend_cap` | Two launches with the cap kept or raised, failing and retried items, logs that tell no cost, are unreadable or are lost, a crash, a Ctrl-C: but for what no log tells and what the ledger missed, spend stays within the cap or what was in flight when it was reached, nothing is counted twice until a launch skips a log, and every launch ends with a single permit. |

## Bounds

| Bound | Value | Why it is enough |
| --- | --- | --- |
| attempts of the reducer (`AttemptId`) | 3 and 8 | two attempts of one task beside one of another; every retry and force of the chain |
| `GenerationBound` | 2 | one force; a second adds a state that only relabels the first |
| `RosterBound`, `RosterLenBound` | 0 or 1, up to 2 | a roster closed once, with the same item twice, or failed |
| `ClockBound`, backoff | 1 or 2 | before, at and after a retry time |
| lock processes | 3 and 4 | the reclaim races need a dead owner, a reclaimer and a third |
| lease launches | 5 | two per host to take over from each other, one of them forced and one slow |
| pool tasks, `MaxCapacity` | 3, 2 | a holder and two waiters; capacity below, at and above |
| `AttemptBound`, `CrashBound` | 3, 2 | a crash during the reconciliation of a crash, then a new attempt |
| `LaunchBound`, `CrashBound`, `MeddleBound` of the walk | 2, 1, 1 | a run and its resume, with one thing changed or broken between or within |
| workers, items, `DispatchBound`, `MaxRetries`, `DelayBound`, `FaultBound` | 2 (4), 2 (3), 3, 1 (0), 2 (0), 1 | a worker, one that replaces it, a third dispatch that finds both; in brackets the refuting run: a lost worker, its two successors and a third, for which the limit on new workers leaves room with three items only. Its `CONSTRAINT` leaves out other faults, which cannot make a counterexample out of none |
| pools, slots | 3, 1 | a dead owner and two that judge its slot; with 2 slots the safety properties hold too (1.5 million states) |
| plans, caps, `RunLimit`, `DefaultScopes` of the spend cap | 3, 2, 1, 2 | priced steps in sequence and side by side, and one without a price with more items than scopes; a cap of 2 that is kept or raised to 4; the step that is second or side by side has two attempts |
| `LaunchBound`, `FaultBound` of the spend cap | 2, 2 | cuts, losses, failed reads, skipped logs and attempts no log tells, two in all: a cut whose record is behind, and a log lost, unread or skipped after it |

The proofs about `StepWalk` do not depend on its three bounds. Two launches are little for
`FreshWhenClean`: without the exceptions for completions cut short, for what a launch
leaves behind and for what ran over unvouched outputs (`unsettled`) it holds within the
bounds of the run and fails with three or four launches. It is the theorem
`FreshOnceClean` that says that there are no other exceptions.

Symmetry is used for the items of `step_walk` and the jobs and items of the agent runner;
these runs have no liveness property. Deadlock is checked in `step_walk` only: elsewhere
a run ends, a pool stops, and bounded counters run out.
The proofs cover the safety properties that are marked below for every value of these
constants.

## Fairness

* `reducer_sync`: the runtime starts some attempt whenever one is called for, ends each
  it started, and time passes. Nothing is assumed of forces, rosters or redeliveries.
* `claims_lock`, `lease_lock`: a process in the loop takes its next step, a holder goes
  on unless it crashes, and the clock moves. In `lease_lock` no directory refuses its removal
  for ever (`Reclaim` is strongly fair); a release may fail every time.
* `pool`: asyncio runs every task that can go on; a launch, a code leaf and a call of
  `backend.kill` end, whatever becomes of the process; the shutdown and the pause timer go
  on. No agent ever has to exit and nobody has to cancel or shut down.
* `host_slots`: a call that has begun runs to its end, an event loop that is free takes up
  what is due (strongly, since its calls keep it busy now and then), children exit and
  time passes. No pool has to launch or to die.
* `spend_cap`: the loop runs what is ready, and an agent ends, by a timeout if need be.
* `agent_runner` states no fairness. `NeverStuck` says instead that a worker that runs can
  always take a step of its own.

## Proofs

All are checked by `tlapm` down to the last leaf.

**ExecutionModelProofs.** The inductive invariant is `Inv`: the state is `Sound` (its
type, and the relations `Commits` and `Records` between commits, attempts and task
records), and no command issued carries an epoch of the future (`IssuedInv`). The last
part is what makes late starts harmless: an attempt started from an old command carries an
epoch no greater than its task's, so a superseded one can be told by inequality. One
`...Sound` lemma per handler shows that it keeps `Sound` and only advances the state
(`SkipAdvances` and the like); `ReduceStep` composes them. From these follow type
correctness, one commit per generation, success iff commit, commits backed by attempts,
superseded attempts cancelled, append-only history and the moves of outcomes, for every
step graph, policy and number of attempts. `SettlementComplete` is separate: being
unsatisfiable is monotone in the set of settled tasks (`UnsatisfiableMonotone`,
`DeadMonotone`), so the loop ends with nobody blocked.

Its second half is about a runtime that waits for the reducer: `Waiting` says that the
commands it may execute are those the state calls for now (`issued = Dispatches(state)`),
which makes the run `Orderly`. `Serial` gives one live attempt per task; then `Rationed`
counts its attempts; and `Grounded` says that what succeeded has its clauses satisfied
and what was skipped has one that is dead. A force starts a new generation for everything
downstream (`CascadeClosed`: the cascade is closed under the dependents that have
consumed something), so what keeps its outcome keeps its clauses (`ClauseStays`); a task
that settlement skips is dead because a least set of blocked tasks without it would be
closed too (`BlockedIsDead`). These theorems assume what the code does outside the
reducer: `~ LateStart` (whoever drives `reduce`, the loops of
`tests/execution_model/test_invariants.py` for one, acts on the commands of the latest
state), `TriesAllowed` (a policy grants at least one attempt), `RosterBound <= 1` (the only emitter
of `ExpansionClosed` in `execution_model/trace.py` closes each roster once), and
`AlignedAssumption` (an aligned clause of a fan-out step has a fan-out upstream, as
`_clauses` of `trace.py` builds them).

**ItemClaimsProofs.** First the directory lock. Unless a directory may be reclaimed from a
crashed process (`NeverReclaimed`), every holder's directory exists and is its own, and a
directory that exists is somebody's; `LockIsMutex` shows every step to be a step of
`Mutex` or none. Then the claims, with crashes and reclaims: until two stale verdicts
overlap (`raced`), whoever is inside owns the directory, an old directory has nobody
inside and one verdict on it at most (`LockInv`), and a scan has seen what it has read so
far, since the other registries can only have shrunk meanwhile (`Seen`). So a write adds
an item that nobody has: `ClaimsExclusive`.

**AgentRunnerProofs.** `JobsInv` is about jobs: one that was never started is nowhere, one
that is not disowned is listed or about to be, those among them that still run have
different worker ids, an item is in one registry, and what a worker has in flight is in
its own. The ids differ because a dispatch numbers new jobs from one above the greatest
id it adopts (`GreatestId`, a least upper bound) and as many ids as jobs leave no two alike
(`NewIdsDiffer`, by cardinality). On top of it `Inv` says of an item that is accounted
for: completed, its outputs are valid and nobody has it in flight; claimed under an id, it
is completed or a worker of that id has not reported it as done. `ItemEffect`,
`LifeEffect` and `DispatchEffect` reduce the two dozen actions to what they do to one
item. `ClaimsKeepApart`, `CompletionsStay` and `EveryItemAccountedFor` follow.

**OrchestratorLeaseProofs.** First the lock: as long as nobody died inside and no two stale
verdicts overlapped, `LockInv` says that whoever is in the lock owns the directory
(`OwnsDir`), that a directory with somebody in it is young (`HeldIsYoung`) and named by
the owner file from the owner write on (`InsideNamed`), that there is one verdict at most
(`OneVerdict`), and that while it stands nobody is in the lock (`VerdictStands`). A live
lock stays young, since a lease mutation takes far less than the timeout after which a
contender judges a directory without an owner file (`AgeDir` assumes so); one that a failed
release left behind grows old, and its reclaim, alone, takes it from nobody. Then the
lease: `WorkersHoldLease` (whoever works is named by a fresh lease) is inductive until
the first forced takeover or slow phase; `OneOrchestrator` follows because a lease has
one owner. `LiveLeaseStays` and `DeadLeaseStaysStale` need only the type invariant and
hold under forced takeovers and kills too.

**RunPoolProofs.** `Places` relates where a task is to its child and its future, `Books`
the permits to the set of tasks that hold one; a counting lemma over finite sets
(`CountMove`) carries the counters through each step. `NoLostWakeup` is inductive beside
them. `Polled` gives `PermitUntilKillTried`: a child that nobody tried to kill is that of a
task that runs, because a cancelled launch is waited for and every way out of a running
task but the child's own end leads through a kill. `TasksEndSettled` gives `FuturesSettled`.
From these: type correctness (no counter below zero), no permit lost, no lost wake-up,
permits taken below the capacity only, no launch after a shutdown, no process forgotten,
no future left open.

**TaskStateProofs.** `Inv` says that some attempt `n` is the latest, that the files agree
with it (`Common`: attempts below `n` have ended, and no status, stale status or result
names one above), and where the process stands (`Point`: waiting, attending a running
attempt, backing off, dead, or in the middle of an operation with exactly these writes
left). Each operation is shown once to produce one of those points, each write to lead
from one to the next, and a crash to lead to `Dead`. That a reconciliation loses every
live attempt is an induction over a recursive function, done by the least attempt it
could have missed (`LeastElement`). `FilesAreALog` is the refinement: under the same
`Inv` each of the six kinds of pending write is one step of `TaskLog` or none
(`StartingLog`, `ShowingLog`, `FinishingLog`, `ProjectingLog`, `PublishingLog`,
`LegacyLog`), an invalidation is its `Withdraw`, and everything else, a crash and the
start of a reconciliation included, leaves the log as it was.

**StepWalkProofs.** What a walk knows is said of heads: steps on their own, and the first
walked stages of chains. Every step walked runs under one head (`HeadReached`,
`HeadUnique`). `Placed` says that the walk goes level by level, that an invalidation
renames records of its root and of what depends on it, and that what is blocked descends
from a failed step; `Walked`, that an open head has no stage complete, in memory or in the
mirror, and that one that is past has an answer for each of its stages: done, passed over
by the operator, or failed (`Doomed`), and then `propagate_failure` has been asked about
it; `RunningUnder`, that tasks run under running heads, on what the stages before have
done. `NeedsHonoured` follows: what a running task needs is past, and if it is not done
then its failure would have blocked the task, unless the task tolerates it. What an
invalidation can rename is under a head that is still open (`RenamedOpen`), so a record
that the mirror relies on stays: `MirrorHonest`. It assumes `RootScope`, that launches
walk all they plan: the mirror of a nested scope that an operator selects is marked as
partial (`selected_scope_step`). `FreshKept` needs to know why a step is to run. `Kept`
says that what is complete was computed from the document its step was last handed, and
`Decided` that an invalidation was caused by its root (forced, edited, or handed another
document), and that a step that runs has no complete output unless it is a mapped one. If
a task and all before it are up to date, every document it was computed from reported
every item done (`WholeDocuments`, by the least step, in a graph without cycles, of which
that is not so), hence none has changed.

`FreshOnceClean` rests on an invariant about the completed outputs of the steps that a
clean walk has to answer for (`Firm`). `Sources` holds of them at all times: they come from
definitions of their step and of what it descends from and from the documents last
delivered (`Contents`); from all of these, unless a document reported nothing done
(`Covered`); by a path through what else they come from (`Linked`), so that an
invalidation of anything they come from within the plan reaches them
(`DownstreamTransitive`, `DownstreamMore`); and every definition they come from is the
present one, or its step has no record of the present one left and will be found edited
(`Versions`). Under a walk, `Standing` holds too: what they come from is the present
definition wherever the walk has reused or runs the step, no collector about to run has
other documents than theirs, and nothing that they come from is being invalidated.
Judging a step reused rules out the second case of `Versions`; judging it edited renames
all that comes from it. `Ledger` ties the exceptions to what is on disk. When a whole walk
ends clean every step is ruled on, every document reports every item, and the output is
the set that `Fresh` names.

**RunLimitsProofs** is about what a run may use: agents on its host, and dollars. The two
are separate theories in one module.

*The slots of a host.* Until two verdicts on a slot overlap, a slot has at most one
launch that may change it (`Alone`), the directory a launch works on is what it takes it
for (`Stands`), and the recorded child of a pool that died still has its lease
(`Survives`). `WithinLimit` counts: the leased
slots map onto the children that run, so there are no more children than slots.

*The spend of a run.* `SpendNeverPasses` is about sums over sets of tasks, so the laws of
sums come first: a fold takes out elements in an order of its own, and that the order does
not matter is shown by a least set for which it would (`LeastSubset`, `SumWithout`), all
other laws by adding one element at a time (`OneByOne`). `SpendBounded` is not inductive,
because it speaks of what is spent and not of what will be. `CapInv` adds what is owed:
`Owes` is what an open task has told unread plus the price of the attempts it has left,
`Reserve` counts the items that have not entered as well. `Booked` relates what was told,
less what is unread (`Known`), to logs, record and ledger, across launches and lost or
skipped logs; what no log tells is never part of it and comes on top. `Tasks` and
`Steps` bound what a task owes and how many of a step are open; `Gated` says that with
anything open, what is measured and owed is below the cap plus what may be in flight;
`Prepared`, that a priced step that dispatches alone keeps measured spend plus reserve
within the cap. An attempt that ends only moves dollars from owed to measured
(`TaskSettles`); an item is admitted below the cap, when what is open cannot owe more
than `InFlight` (`OpenFits`); a step starts with its worst case within the cap, and its
reserve is no more (`ReserveFits`). What was spent is then measured, owed, unknown or
untold: `SpendsWithin` says so of any step that adds to the logs of running tasks, each
no more than a price, be it one attempt that ends or a cut. TLC checked `CapInv` on the
instance of `spend_cap` before it was proved.
It rests on `Costs` being within `Price`: an attempt costs no more than its step declares.

Assumptions are the named `ASSUME`s of the modules: disjointness of sentinel values,
finiteness of sets that are counted, and positive bounds.

Model-checked only: every liveness property (`Drains`, `StaleLockRecovers`,
`LeftLockRecovers`, `ShutdownCompletes`, `SlotsComeBack`, `EveryLaunchEnds`), which needs
fairness; and `NeverStuck`, which is about `ENABLED`. Every other property of a passing run
is a theorem.
`FencedMeansCancelled`, `OutcomesSettle`, `CommitHasAttempt`, `SettlementComplete`, the
`TypeCorrect` theorems, `CapacityRespected` and a few more are theorems only: no run
spends time on them.

## Disagreements

* `agent_runner_redispatch`: `claim_item` says "Claim an item for one worker unless another
  worker already owns it." The manifest keeps the rows of workers that ended, and a new
  worker gets the highest active id plus one, so it can have the id of an ended one. The
  next reconciliation clears the registries of all ended rows, the active worker's among
  them, and may hand its items to a third worker, whose boot declares the attempt lost and
  runs it a second time. In the trace worker 0 has all three items and loses its host; two
  workers replace it, numbered 0 and 1; a third dispatch finds both active and has room for
  one more, since there are three items (`worker_dispatch.py` 422-424; with two items there
  is none), and clears the registry of id 0 because of the lost worker's row.

## Known departures

Behaviour of the code that a stronger property would refute. The properties that are
checked state the part that holds.

* **Order of reaping.** Two attempts of one generation that end unsuccessfully settle the
  task by the order of their reports, although the module docstring of
  `execution_model/reducer.py` says that the same facts in any order that respects
  causality land on the same state (`tests/execution_model/test_invariants.py` checks it
  with a success among them, which `OutcomeMoves` covers).
* **One live attempt per key.** `RunState.live_attempt` keeps one attempt per task. With
  several alive at once a superseded one can hide a current one, and a task that can
  still commit is taken for dead. `SingleLiveAttempt` holds only when the runtime acts on
  the latest commands.
* **A force beside a dispatch in flight.** `execution_model/reducer.py` says that a dependent
  with no record never consumed anything. One whose dispatch is in flight has no record
  either; its attempt then starts under the current epoch and commits over the superseded
  upstream (`SucceededOverCurrentWorld` fails in `reducer_async`).
* **A roster closed again.** With a second generation of a roster, consumers that had
  succeeded over the first keep their commits (`SucceededOverCurrentWorld` fails in
  `reducer_sync` with `RosterBound = 2`). The code closes each roster once.
* **Reclaiming a directory lock.** Between the stat that judges a lock stale and the
  rmdir another contender may reclaim and re-make it; the slower rmdir removes a live
  lock. Exclusion is therefore stated for locks that are never reclaimed, and for claims
  and slots until two verdicts overlap.
* **A dead owner's file.** `_LeaseWriteLock` says that it serializes lease mutations across
  hosts. Reclaiming a dead owner's directory leaves the owner file, so the next contender
  judges the fresh directory by the dead owner, removes it too, and two are inside
  (`ExclusiveUntilDeath` without `NobodyDied` fails in `lease_lock`).
* **A release that fails.** `_LeaseWriteLock.__exit__` (256-275) leaves the directory and
  warns that "stale-after will reclaim it". Two contenders can then both judge it stale, and
  the slower rmdir removes the lock that the quicker one has re-made: two are inside with
  nobody dead (`ExclusiveUntilDeath` without `raced` fails in `lease_lock`). If it fails
  before the unlink, the owner file names a process that lives: nobody on its host may
  reclaim the directory until that process ends, though one on another host may once it
  is old enough. `OrchestratorLease`, whose mutations are single steps, assumes the lock.
* **Claims.** A registry deleted between its lookup and its read makes the claim raise, and
  a claim lock that times out aborts the worker.
* **Phases without a heartbeat.** Start-up and finalization have none. If either outlasts
  the staleness threshold a second orchestrator takes over while the first works on.
* **The quota gate is not asked twice.** A pause that begins while a submission waits for
  a permit or a host slot does not hold it back.
* **A permit given back over a live process.** `pool.py` says "Admission must remain held
  until the child is reaped". It is not when a kill is refused or the process survives it
  (logged in `backend.py`, and errors of it in `_launch_and_monitor`), when
  `_poll_until_exit` has waited ten seconds for a process it stopped (1717-1736), and when a
  cancellation reaches `backend.kill` between SIGTERM and SIGKILL and abandons the
  escalation. `PermitUntilKillTried` is what is left of it: before a kill has been tried the
  permit stays.
* **Cancelled before the first step.** `RunPool.submit` promises a future that resolves on
  completion. A task cancelled before its first step never enters the body that settles
  the future and lowers the pending count (`CancelUnstarted`, which `FuturesSettled`
  leaves out); a caller waits for ever.
* **An attempt directory without a record.** It is made before its `attempt.yaml` is
  renamed in. A crash between leaves a directory that `read_attempt_history_at` refuses
  (as `tests/test_io.py` asserts), so that a resume stops until it is removed by hand.
  `TaskState` has that state, and its `Restart` is disabled there (`Readable`).
* **A completion without a result.** A crash between status and result leaves a completed
  task whose result is missing or older; later runs treat it as a legacy completion, and
  do not notice an edit made since.
* **What a clean walk does not answer for.** An edited member of a chain that the chain
  absorbed is never noticed, although `run_process.py` says that editing a runbook and
  rerunning re-executes the step (without its exception for such steps `FreshWhenClean`
  fails with `Editable = {interpret}`);
  an invalidation a crash tore hides the changed fingerprint, a completion that a crash
  cut between status and result hides the fingerprint it ran with, a step that ran over
  outputs no record vouches for (`--only` or `--from` where the mirror calls a stage
  complete although some items never reached it) is not run again when they come, and what
  `--from` or `--only` leaves out of its plan keeps its records over what they ran
  (`unsettled`); overriding or
  skipping the head of a chain skips its members, and a blocked head leaves them pending;
  a member's failure is reported as its head's, and the mirror calls a member completed
  although some items never reached it, and still does when `--only` on an earlier stage
  has let more of them through (`owed`); a failed item with an older hash makes a resume
  redo finished items; a rollup (`on_failure: continue`) is not run again after its inputs
  were repaired; an override's entry in the mirror outlives its clearing; `--only` runs a
  step without invalidating what is downstream, as documented.
* **Workers that boot.** `reconcile_stale_running` at the boot of a worker declares the live
  attempts of other workers lost; a worker that lost one aborts on
  `AttemptTerminalConflictError`.
* **Unlisted workers.** A dispatcher that dies between submitting jobs and listing them
  leaves workers whose ids and items are given out again. Such a worker, or one whose
  registry was cleared, can launch over an item another one completed, fail, and then skip
  it as claimed elsewhere: every worker reports it as done and it is not (`NothingForgotten`
  without `Accounted` fails with three workers and one retry).
* **Refused outputs.** A cancelled or permanently failed attempt with valid outputs is
  refused on every later dispatch. The claims of a worker that died make others skip its
  items until the next dispatch. Steps without declared outputs are not modelled.
* **Host slots.** Two overlapping stale verdicts remove a live slot. A child whose pool dies
  before recording it, and every scalar launch, which is never recorded, lose their slot
  after the grace. A kill that fails frees the slot with the permit, although the child
  lives. A slot that a live pool
  cannot remove stays as long as the pool. A pool that stalls for more than 30 s between
  mkdir and lease write loses its directory. PID reuse is told by creation time and is
  not modelled.
* **The spend cap.** Priced steps of one level are each checked against the same
  measured spend and reserve nothing, so together they can pass the cap (`together`).
  Without a price the overshoot is what was in flight, and scopes follow the larger of
  32 and the run's ceiling, even with `max_concurrency` 1. The cap is said to be
  cumulative over the run's life, but a log has a cost only after its last event and
  with a known price (`spend_cap.py` 164-168 counts nothing else): what attempts that
  were cut or killed have cost is never counted, and a resumed run spends it again
  (`untold`). The larger of record and rescan counts too little when logs were lost and
  a crash left other spend unrecorded; a log that cannot be read is not counted until it
  can. One that could not be read when a launch opened its ledger (151-154, 161-163) is
  carried from the record and counted again when it is read later, whereas `SpendLedger`
  says that "a rescan never double counts" (`SpendBounded` without `skipped` fails in
  `spend_cap`). Agents that outlive a killed orchestrator spend on, and mapped or scalar
  agent steps do not pass `MappedDispatch`; neither is modelled. A price may be the
  average of measured runs (`StepSpend.source`); what an attempt costs above it comes on
  top of the bound.

## Not modelled

`PROJECT.json` lists every part with the reason. In short: what decides the order of
things and is left out is in the plan below; plan building, validation, parsing, log
analysis, reports, configuration and rendering are pure or sequential and tested by
example; adapters, authentication and cloud dispatch translate to programs and services
whose behaviour is not in this repository. Within the modelled parts, the governors of
the run pool appear as capacity changes at any time, and retry classification, output
validation and the operating system as free choices.

## Plan

In order of weight. A new run or module with theorems takes the place of one that says
less, so that the whole remains small enough to be read and rerun.

1. `Governor`: targets within every bound, one cut per burst, manual mode.
2. `CredentialPool` with the resume daemon: no mark lost against a younger one, an expired
   label never revived, each checkpoint resumed once. A reading of the code suggests what
   to look at: a slot is filled from a blob read before the label lock is taken; a
   rotation is written back against the pool's present fingerprint, so a stale slot rolls
   it back; it is lost after three conflicts and on cooling, expired or unknown outcomes;
   marking a disabled label as cooling enables it again; an item whose labels are all
   excluded waits for ever; and the lock's staleness is shorter than long leases.
