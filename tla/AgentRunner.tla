---------------------------- MODULE AgentRunner ----------------------------
(***************************************************************************)
(* A mapped agent step run by several workers, each a job on a host of its *)
(* own: the scheduler of run-parallel (_run_agent_pool in commands/        *)
(* run_parallel.py), the claims it takes (io/claimed_items.py) and the     *)
(* dispatch that starts workers and replaces them (cloud/gcp/              *)
(* worker_dispatch.py).  They share a file system: task records, outputs,  *)
(* one registry of claims per worker id, and the manifest of jobs.         *)
(*                                                                         *)
(* Abstractions: a task is the fact of its latest attempt (the two files   *)
(* behind it are TaskState) and an item's outputs validate or not; the     *)
(* claim lock is held for one step (ItemClaims); the pool is a count of    *)
(* submissions (RunPool); when a retry is due is left open, and so is the  *)
(* order of first-pass items; the classifier's verdict is any of those it  *)
(* gives.  Workers are jobs, never reused; worker ids are.                 *)
(* Faulty... definitions are the bugs of the runs' mutants.                *)
(***************************************************************************)
EXTENDS Integers, FiniteSetsExt

CONSTANTS
  Item, Worker, Nobody,
  MaxRetries,      \* retry_policy.max_retries
  Capacity,        \* submissions a worker keeps in flight
  DelayBound,      \* bound on entries of the retry heaps, over the run
  DispatchBound,   \* bound on dispatches of the step
  FaultBound       \* bound on deaths of workers and dispatchers, interrupts, shutdowns and
                   \* failures to return a credential

ASSUME RunnerAssumption ==
  /\ IsFiniteSet(Item) /\ IsFiniteSet(Worker) /\ Worker # {} /\ Nobody \notin Worker
  /\ MaxRetries \in Nat /\ Capacity \in Nat \ {0}
  /\ DelayBound \in Nat /\ DispatchBound \in Nat
  /\ FaultBound \in Nat

WorkerId == 0..(Cardinality(Worker) - 1)

\* A future the scheduler waits for: submitted, its process running, or done; "refused"
\* failed to launch after the task was marked running.  A submission cancelled or failed
\* before that has left no trace, and is processed in the step that ends it.
Active == {"submitted", "live", "exited", "refused", "killed"}
\* "queued" is in not_started, "waiting" in retry_heap, "ok" and "bad" in all_results.
Fresh(s) == [at |-> s, number |-> 1]
Stage == Active \cup {"none", "queued", "checked", "waiting", "ok", "bad", "dropped"}

VARIABLES
  task,        \* the latest attempt of each item: its disposition, and whose it is
  valid,       \* the items whose outputs on disk validate
  claims,      \* worker id -> items of its registry
  listed,      \* the jobs of the dispatch manifest
  pending,     \* jobs submitted by a dispatcher that has not listed them yet
  dispatches,
  pc, id, given,            \* of each worker: its state, worker id and items
  shared,      \* of each worker and item: where it stands, attempt_number, and how many
               \* sessions were started under that number (history)
  delays,      \* entries pushed on retry heaps so far
  faults,      \* crashes, interrupts and shutdowns so far
  disowned     \* history: workers never listed, or whose claims were cleared while active

disk == <<task, valid, claims>>
jobs == <<listed, pending, dispatches, id, given, disowned>>
runner == <<pc, shared, delays>>
vars == <<disk, jobs, runner, faults>>

At(w, i) == shared[w][i].at
Fault == faults < FaultBound /\ faults' = faults + 1

Completed == {i \in Item : task[i].disposition = "succeeded"}

-----------------------------------------------------------------------------
(* The dispatcher: an orchestrator, a resumed one, or the scale command. *)

\* _inspect_worker_jobs: a job that ended, or whose host is gone.
Terminal(w) == pc[w] \in {"ended", "dead"}
Running(w) == pc[w] \in {"running", "shutting", "unwinding"}

\* Every terminal row of the manifest, which keeps the rows of earlier dispatches.
Released == {w \in listed : Terminal(w)}
ClearedClaims == [n \in WorkerId |-> IF \E w \in Released : id[w] = n THEN {} ELSE claims[n]]

\* The claims of the active workers or, if they have none, the items they were given.
Adopted(active) ==
  LET claimed == UNION {ClearedClaims[id[w]] : w \in active}
  IN  IF claimed # {} THEN claimed ELSE UNION {given[w] : w \in active}

FirstNewId(active) == IF active = {} THEN 0 ELSE Max({id[w] : w \in active}) + 1

\* partition_items deals the items out to the new jobs in turn, none without one.
Partitions(items, new) ==
  IF new = {} THEN {[w \in Worker |-> {}]} ELSE
  {p \in [Worker -> SUBSET items] :
     /\ UNION {p[w] : w \in new} = items
     /\ \A w \in Worker : w \notin new => p[w] = {}
     /\ \A w \in new : p[w] # {} /\ \A v \in new \ {w} :
          p[w] \cap p[v] = {} /\ Cardinality(p[w]) <= Cardinality(p[v]) + 1}

\* reconcile_dispatched_workers, and dispatch_to_workers when there is no manifest: the
\* latter is the case of no listed job.  The items it is called with are those a run's
\* discovery leaves, or all of them: the scale command does not look at the records.
\* The desired topology is any of one worker or more, so there are at most as many new
\* ones as bring the active up to the number of items.
Dispatch(new) == \E actionable \in {Item, Item \ Completed} :
  LET active == {w \in listed : ~ Terminal(w)}
      items == actionable \ Adopted(active)
      first == FirstNewId(active)
  IN
  /\ actionable # {}
  /\ active = {} => new # {}
  /\ new # {} => Cardinality(active) + Cardinality(new) <= Cardinality(actionable)
  /\ pending = {} /\ dispatches < DispatchBound
  /\ \A w \in new : pc[w] = "off"
  /\ first + Cardinality(new) - 1 \in WorkerId \cup {-1}
  /\ \E p \in Partitions(items, new), ids \in [new -> WorkerId] :
       /\ {ids[w] : w \in new} = first..(first + Cardinality(new) - 1)
       /\ id' = [w \in Worker |-> IF w \in new THEN ids[w] ELSE id[w]]
       /\ given' = [w \in Worker |-> IF w \in new THEN p[w] ELSE given[w]]
       /\ shared' = [w \in Worker |-> [i \in Item |->
                       IF w \in new /\ i \in p[w] THEN Fresh("queued") ELSE shared[w][i]]]
  /\ pc' = [w \in Worker |-> IF w \in new THEN "booting" ELSE pc[w]]
  /\ claims' = ClearedClaims
  /\ disowned' = disowned \cup {w \in Worker : pc[w] # "off" /\ ~ Terminal(w)
                                               /\ \E t \in Released : id[t] = id[w]}
  /\ pending' = new /\ dispatches' = dispatches + 1
  /\ UNCHANGED <<task, valid, listed, delays, faults>>

\* write_dispatch_manifest or append_dispatch_manifest, once every job is submitted.
ListJobs ==
  /\ pending # {}
  /\ listed' = listed \cup pending /\ pending' = {}
  /\ UNCHANGED <<disk, dispatches, id, given, disowned, runner, faults>>

DispatcherDies ==
  /\ pending # {} /\ Fault
  /\ pending' = {} /\ disowned' = disowned \cup pending
  /\ UNCHANGED <<disk, listed, dispatches, id, given, runner>>

-----------------------------------------------------------------------------
(* Task records. *)

Fact(d, w) == [disposition |-> d, by |-> w]
Owns(w, i) == task[i] = Fact("live", w)

\* mark_running_at and mark_failed_synthetic_at refuse to start over a live attempt.
Startable(i) == task[i].disposition # "live"

FaultyEnds(w, i, d) ==
  task' = IF Owns(w, i) THEN [task EXCEPT ![i].disposition = d] ELSE task
\* end_attempt_at: a terminal attempt accepts only the fact it has.
Ends(w, i, d) ==
  \/ Owns(w, i) /\ task' = [task EXCEPT ![i].disposition = d]
  \/ ~ Owns(w, i) /\ d = "lost" /\ UNCHANGED task
Conflict(w, i) == ~ Owns(w, i)

\* reconcile_stale_running: no run-level or step-level pool status names a worker's pool,
\* so every live attempt is taken for an orphan.
Reconciled ==
  [i \in Item |-> IF task[i].disposition = "live" THEN Fact("lost", task[i].by) ELSE task[i]]

-----------------------------------------------------------------------------
(* The scheduler of one worker. *)

Boot(w) ==
  /\ pc[w] = "booting"
  /\ pc' = [pc EXCEPT ![w] = "running"]
  /\ task' = Reconciled
  /\ UNCHANGED <<valid, claims, jobs, shared, delays, faults>>

Filling(w) == {i \in Item : At(w, i) = "checked"}
InFlight(w) == {i \in Item : At(w, i) \in Active}
CanFill(w) ==
  /\ pc[w] \in {"running", "shutting"}
  /\ Filling(w) = {} /\ Cardinality(InFlight(w)) < Capacity

To(w, i, s) == shared' = [shared EXCEPT ![w][i].at = s]
\* An entry that leaves the queues takes its attempt_number along.
Settle(w, i, s) == shared' = [shared EXCEPT ![w][i] = Fresh(s)]

\* _fill_pool, a first-pass item: a completed task is skipped before it is claimed.
Take(w, i) ==
  /\ CanFill(w) /\ At(w, i) = "queued"
  /\ To(w, i, IF task[i].disposition = "succeeded" THEN "ok" ELSE "checked")
  /\ UNCHANGED <<disk, jobs, pc, delays, faults>>

FaultyTakeRetry(w, i) ==
  /\ CanFill(w) /\ At(w, i) = "waiting" /\ InFlight(w) # {}
  /\ To(w, i, "checked")
  /\ UNCHANGED <<disk, jobs, pc, delays, faults>>

\* _fill_pool, a retry that is due.
TakeRetry(w, i) ==
  /\ CanFill(w) /\ At(w, i) = "waiting"
  /\ To(w, i, "checked")
  /\ UNCHANGED <<disk, jobs, pc, delays, faults>>

FaultyClaimedElsewhere(w, i) == FALSE
\* claim_item: its own registry first, then those of the other ids.
ClaimedElsewhere(w, i) ==
  i \notin claims[id[w]] /\ \E n \in WorkerId \ {id[w]} : i \in claims[n]

SkipClaimed(w, i) ==
  /\ At(w, i) = "checked" /\ pc[w] \in {"running", "shutting"}
  /\ ClaimedElsewhere(w, i)
  /\ Settle(w, i, "ok")
  /\ UNCHANGED <<disk, jobs, pc, delays, faults>>

FaultyPromoted(i) == FALSE
\* _submit_item over outputs that validate: the attempt that made them is completed, or
\* they are refused, unless they are to be made again.
Promoted(i) == i \in valid /\ task[i].disposition \in {"live", "succeeded"}
Refused(i) == i \in valid /\ task[i].disposition \in {"permanent", "cancelled"}

Submit(w, i) ==
  /\ At(w, i) = "checked" /\ pc[w] \in {"running", "shutting"}
  /\ ~ ClaimedElsewhere(w, i)
  /\ claims' = [claims EXCEPT ![id[w]] = @ \cup {i}]
  /\ \/ /\ Promoted(i)
        /\ task' = [task EXCEPT ![i].disposition = "succeeded"]
        /\ Settle(w, i, "ok")
     \/ /\ Refused(i) /\ UNCHANGED task
        /\ Settle(w, i, "bad")
     \/ /\ ~ Promoted(i) /\ ~ Refused(i) /\ UNCHANGED task
        /\ To(w, i, "submitted")
  /\ UNCHANGED <<valid, jobs, pc, delays, faults>>

\* _prepare in a thread of the pool: old outputs are removed and the task marked running,
\* then a credential is leased and the process started.
Launch(w, i) ==
  /\ pc[w] = "running" /\ At(w, i) = "submitted" /\ Startable(i)
  /\ task' = [task EXCEPT ![i] = Fact("live", w)]
  /\ valid' = valid \ {i}
  /\ To(w, i, "live") \/ To(w, i, "refused")
  /\ UNCHANGED <<claims, jobs, pc, delays, faults>>

\* The process ends by itself, or by a timeout or a stall.
Exit(w, i) ==
  /\ Running(w) /\ At(w, i) = "live"
  /\ To(w, i, "exited")
  /\ valid' \in {valid \ {i}, valid \cup {i}}
  /\ UNCHANGED <<task, claims, jobs, pc, delays, faults>>

-----------------------------------------------------------------------------
(* _process_completion: one completion at a time, off the loop. *)

CanProcess(w) == Running(w) /\ Filling(w) = {}

\* An exception in a completion ends the main loop; while unwinding it is logged.
Raise(w, i) ==
  /\ Settle(w, i, "dropped")
  /\ pc' = [pc EXCEPT ![w] = "unwinding"]

\* Valid outputs count whatever the exit code and the reason of a kill.  Returning the
\* credential may raise once the completion is recorded.
Succeed(w, i) ==
  /\ CanProcess(w) /\ At(w, i) = "exited" /\ i \in valid
  /\ Ends(w, i, "succeeded")
  /\ Settle(w, i, "ok")
  /\ \/ UNCHANGED <<pc, faults>>
     \/ Fault /\ pc' = [pc EXCEPT ![w] = "unwinding"]
  /\ UNCHANGED <<valid, claims, jobs, delays>>

\* The last: prepare_step or the marking raised, or submit itself did.
Failed == {"exited", "refused", "submitted"}

\* A failure without a running record gets a synthetic attempt.
EndsFailed(w, i, d) ==
  IF At(w, i) = "submitted"
  THEN Startable(i) /\ task' = [task EXCEPT ![i] = Fact(d, w)]
  ELSE Ends(w, i, d)

\* _classify_and_maybe_retry: a retryable failure, or a quota with a known reset.
Retry(w, i) ==
  /\ CanProcess(w) /\ At(w, i) \in Failed /\ shared[w][i].number <= MaxRetries
  /\ EndsFailed(w, i, "retryable")
  /\ delays < DelayBound /\ delays' = delays + 1
  /\ shared' = [shared EXCEPT ![w][i] = [at |-> "waiting", number |-> @.number + 1]]
  /\ UNCHANGED <<valid, claims, jobs, pc, faults>>

\* No credential is eligible: nothing was launched, and the wait is not an attempt.
AwaitCredential(w, i) ==
  /\ CanProcess(w) /\ At(w, i) = "refused" /\ delays < DelayBound
  /\ Ends(w, i, "lost")
  /\ To(w, i, "waiting")
  /\ delays' = delays + 1
  /\ UNCHANGED <<valid, claims, jobs, pc, faults>>

\* A permanent verdict, an authentication abort, or a retryable one over its budget.
GiveUp(w, i) ==
  /\ CanProcess(w) /\ At(w, i) \in Failed
  /\ \E d \in {"retryable", "permanent"} : EndsFailed(w, i, d)
  /\ Settle(w, i, "bad")
  /\ UNCHANGED <<valid, claims, jobs, pc, delays, faults>>

\* The attempt ended in another way meanwhile, a synthetic one cannot start, or returning
\* the credential raises and the attempt is kept as lost.
CompletionRaises(w, i) ==
  /\ CanProcess(w) /\ At(w, i) \in Failed
  /\ \/ At(w, i) = "submitted" /\ ~ Startable(i) /\ UNCHANGED <<task, faults>>
     \/ At(w, i) # "submitted" /\ Conflict(w, i) /\ UNCHANGED <<task, faults>>
     \/ EndsFailed(w, i, "lost") /\ Fault
  /\ Raise(w, i)
  /\ UNCHANGED <<valid, claims, jobs, delays>>

\* _cancel_item: a shutdown of the pool cancelled the future, before or after the launch.
Cancel(w, i) ==
  /\ CanProcess(w)
  /\ \/ At(w, i) = "killed"
     \/ At(w, i) = "submitted" /\ pc[w] \in {"shutting", "unwinding"}
  /\ \/ /\ EndsFailed(w, i, "cancelled")
        /\ Settle(w, i, "bad") /\ UNCHANGED pc
     \/ /\ IF At(w, i) = "killed" THEN Conflict(w, i) ELSE ~ Startable(i)
        /\ UNCHANGED task /\ Raise(w, i)
  /\ UNCHANGED <<valid, claims, jobs, delays, faults>>

-----------------------------------------------------------------------------
(* The end of a worker. *)

\* The pool shuts down while the loop goes on: what it submits is cancelled.
Shutdown(w) ==
  /\ Fault /\ pc[w] = "running" /\ pc' = [pc EXCEPT ![w] = "shutting"]
  /\ UNCHANGED <<disk, jobs, shared, delays>>

\* The scheduler itself is cancelled, at an await.
Interrupt(w) ==
  /\ Fault /\ pc[w] \in {"running", "shutting"} /\ Filling(w) = {}
  /\ pc' = [pc EXCEPT ![w] = "unwinding"]
  /\ UNCHANGED <<disk, jobs, shared, delays>>

\* pool.shutdown kills the processes, whatever they wrote.
Kill(w, i) ==
  /\ pc[w] \in {"shutting", "unwinding"} /\ At(w, i) = "live"
  /\ To(w, i, "killed")
  /\ valid' \in {valid \ {i}, valid \cup {i}}
  /\ UNCHANGED <<task, claims, jobs, pc, delays, faults>>

Left == {"none", "ok", "bad", "dropped"}

\* What a worker that is gone had not settled is dropped.
Gone(w) ==
  [shared EXCEPT ![w] = [i \in Item |-> IF @[i].at \in Left THEN @[i] ELSE Fresh("dropped")]]

\* while not_started or active or retry_heap
Finish(w) ==
  /\ pc[w] \in {"running", "shutting"}
  /\ \A i \in Item : At(w, i) \in Left
  /\ pc' = [pc EXCEPT ![w] = "ended"]
  /\ UNCHANGED <<disk, jobs, shared, delays, faults>>

Unwind(w) ==
  /\ pc[w] = "unwinding" /\ InFlight(w) = {}
  /\ pc' = [pc EXCEPT ![w] = "ended"] /\ shared' = Gone(w)
  /\ UNCHANGED <<disk, jobs, delays, faults>>

\* The host is preempted or lost, with its processes.
Crash(w) ==
  /\ Fault /\ (Running(w) \/ pc[w] = "booting")
  /\ pc' = [pc EXCEPT ![w] = "dead"] /\ shared' = Gone(w)
  /\ UNCHANGED <<disk, jobs, delays>>

Init ==
  /\ task = [i \in Item |-> Fact("none", Nobody)] /\ valid = {}
  /\ claims = [n \in WorkerId |-> {}]
  /\ listed = {} /\ pending = {} /\ dispatches = 0 /\ disowned = {} /\ faults = 0
  /\ pc = [w \in Worker |-> "off"] /\ id = [w \in Worker |-> 0]
  /\ given = [w \in Worker |-> {}]
  /\ shared = [w \in Worker |-> [i \in Item |-> Fresh("none")]]
  /\ delays = 0

Fill(w, i) == Take(w, i) \/ TakeRetry(w, i) \/ SkipClaimed(w, i) \/ Submit(w, i)
Process(w, i) ==
  Launch(w, i) \/ Exit(w, i) \/ Kill(w, i)
Complete(w, i) ==
  \/ Succeed(w, i) \/ Retry(w, i) \/ AwaitCredential(w, i) \/ GiveUp(w, i)
  \/ CompletionRaises(w, i) \/ Cancel(w, i)

\* What a worker does unless it crashes.
WorkerStep(w) ==
  \/ Boot(w) \/ Finish(w) \/ Unwind(w)
  \/ \E i \in Item : Fill(w, i) \/ Process(w, i) \/ Complete(w, i)

Next ==
  \/ \E new \in SUBSET Worker : Dispatch(new)
  \/ ListJobs \/ DispatcherDies
  \/ \E w \in Worker : WorkerStep(w) \/ Shutdown(w) \/ Interrupt(w) \/ Crash(w)

Spec == Init /\ [][Next]_vars

-----------------------------------------------------------------------------
(* Properties. *)

(* Records, registries and queues have the shape of the code's. *)
TypeOK ==
  /\ task \in [Item -> [disposition : {"none", "live", "succeeded", "retryable", "permanent",
                                       "cancelled", "lost"}, by : Worker \cup {Nobody}]]
  /\ valid \subseteq Item /\ claims \in [WorkerId -> SUBSET Item]
  /\ listed \subseteq Worker /\ pending \subseteq Worker /\ disowned \subseteq Worker
  /\ dispatches \in 0..DispatchBound /\ faults \in 0..FaultBound
  /\ pc \in [Worker -> {"off", "booting", "running", "shutting", "unwinding", "ended", "dead"}]
  /\ id \in [Worker -> WorkerId] /\ given \in [Worker -> SUBSET Item]
  /\ shared \in [Worker -> [Item -> [at : Stage, number : 1..(MaxRetries + 1)]]]
  /\ delays \in 0..DelayBound

DoubleRun(v, w, i) == v # w /\ At(v, i) = "live" /\ At(w, i) = "live"

(* No item has agent processes of two workers that the manifest lists, or    *)
(* whose dispatcher is about to list them, whatever was adopted, replaced or *)
(* scaled (claim_item, reconcile_dispatched_workers).                        *)
NoDoubleRun == \A v, w \in listed \cup pending, i \in Item : ~ DoubleRun(v, w, i)

(* The same of workers whose registry stands for them: listed, and never     *)
(* cleared while they were active.                                           *)
NoDoubleRunUnderClaims ==
  \A v, w \in Worker \ disowned, i \in Item : ~ DoubleRun(v, w, i)

\* Whoever was given the item is known by its registry: no disowned worker was.
Accounted(i) == \A w \in disowned : i \notin given[w]

(* An item is not forgotten between workers that each report it as done, or  *)
(* as another's: if none reports a failure or dies with it, it is completed. *)
NothingForgotten ==
  \A i \in Item :
    LET with == {w \in Worker : i \in given[w]}
    IN  Accounted(i) /\ with # {} /\ (\A w \in with : At(w, i) = "ok") => i \in Completed

(* Completed work is not started again, however stale the status a worker    *)
(* read before it waited for the claim, or the list it was given.            *)
CompletedStays ==
  [][\A i \in Completed : Accounted(i) => task'[i] = task[i]]_vars

(* A worker is never stuck: something of it can always step until it ends,   *)
(* whatever other workers and dispatchers did to the records, registries and *)
(* attempts it shares with them (the loop of _run_agent_pool).               *)
NeverStuck == \A w \in Worker : Running(w) => ENABLED WorkerStep(w)
=============================================================================
