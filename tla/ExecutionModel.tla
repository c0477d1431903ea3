--------------------------- MODULE ExecutionModel ---------------------------
(***************************************************************************)
(* The scheduler core of execution_model/: reduce(state, event, now).      *)
(*                                                                         *)
(* The reducer is a pure function over the durable facts of a run, so it   *)
(* is a family of operators on a record st (RunState).  The state machine  *)
(* feeds it the facts a runtime can report, in every order, with starts    *)
(* delayed, duplicated and redelivered.                                    *)
(*                                                                         *)
(* Abstractions: scope_path is always empty (RunState.materialized never   *)
(* builds another one); a roster is kept as a set once its sequence has    *)
(* been checked for duplicates; skip_reason, manifest, failure_category    *)
(* and the started/ended timestamps are dropped; retry_at = None is 0,     *)
(* which task_state cannot tell apart because no clock is below 0.         *)
(*                                                                         *)
(* A definition whose name starts with Faulty is a slip the code could     *)
(* have had; no action uses it.  Put in place of the definition after it,  *)
(* it makes a property fail, which shows that the property has teeth.      *)
(***************************************************************************)
EXTENDS Naturals, Sequences, FiniteSets

CONSTANTS
  Step,          \* step ids that have a StepTemplate
  Item,          \* item keys a roster may contain
  NoItem,        \* item_key = None
  AttemptId,     \* attempt ids, in sort order
  Expanding,     \* steps whose template has expands_over
  Clause,        \* Clause[s]: the dependency clauses of step s
  MaxAttempts,   \* MaxAttempts[s]: RetryPolicy.max_attempts
  BaseSeconds, Multiplier, MaxSeconds,   \* the backoff curve
  LateStart      \* does the runtime work beside the reducer, acting on old commands too?

(* Bounds on counters the code leaves unbounded. *)
CONSTANTS GenerationBound, RosterBound, RosterLenBound, ClockBound

Mapping == {"same_key", "broadcast", "collect_all"}
Requirement == {"succeeded", "finished"}
Arity == {"all", "any"}
Outcome == {"succeeded", "failed", "cancelled", "skipped"}
Ending == {"succeeded", "retryable", "permanent", "cancelled", "lost"}

ASSUME ConstantsAssumption ==
  /\ Expanding \subseteq Step
  /\ NoItem \notin Item
  /\ AttemptId \subseteq Nat /\ IsFiniteSet(AttemptId)
  /\ MaxAttempts \in [Step -> Nat]
  /\ BaseSeconds \in Nat \ {0} /\ Multiplier \in Nat \ {0} /\ MaxSeconds \in Nat \ {0}
  /\ GenerationBound \in Nat /\ RosterBound \in Nat
  /\ RosterLenBound \in Nat /\ ClockBound \in Nat
  /\ LateStart \in BOOLEAN

\* Only members of one fan-out chain are aligned by key (trace.py, _clauses).
ASSUME AlignedAssumption ==
  \A s \in Expanding : \A c \in Clause[s] :
    c.mapping = "same_key" /\ c.upstream \in Step => c.upstream \in Expanding

\* An item key is part of the address exactly when the step fans out.
TaskKey ==
  {k \in [step : Step, item : Item \cup {NoItem}] : k.item = NoItem <=> k.step \notin Expanding}

TaskRecord ==
  [desired_generation : Nat \ {0}, fence_epoch : Nat,
   outcome : Outcome \cup {"none"}, outcome_generation : Nat, retry_at : Nat]

NewTask ==
  [desired_generation |-> 1, fence_epoch |-> 0,
   outcome |-> "none", outcome_generation |-> 0, retry_at |-> 0]

AttemptRecord ==
  [task : TaskKey, generation : Nat, fence_epoch : Nat, disposition : Ending \cup {"live"}]

Unstarted == [disposition |-> "unstarted"]     \* an id state.attempt answers None for

CommitRecord == [task : TaskKey, generation : Nat, attempt : AttemptId]

ExpansionRecord ==
  [generation : Nat, state : {"unmaterialized", "closed", "failed"}, keys : SUBSET Item]

DispatchAttempt == [task : TaskKey, generation : Nat, fence_epoch : Nat]

-----------------------------------------------------------------------------
(* RunState lookups and functional updates (model.py). *)

InitialRun ==
  [expansion |-> [s \in Step |-> [generation |-> 0, state |-> "unmaterialized", keys |-> {}]],
   task      |-> [k \in TaskKey |-> NewTask],
   recorded  |-> {},                          \* keys state.task(key) answers for
   attempts  |-> [i \in AttemptId |-> Unstarted],
   commits   |-> {},
   now       |-> 0]

\* Only the latest generation is ever read; an older one is kept but never seen.
WithExpansion(st, s, rec) ==
  IF rec.generation >= st.expansion[s].generation
  THEN [st EXCEPT !.expansion[s] = rec] ELSE st

WithTask(st, k, rec) ==
  [st EXCEPT !.task[k] = rec, !.recorded = @ \cup {k}]

WithAttempt(st, i, rec) == [st EXCEPT !.attempts[i] = rec]

Started(st) == {i \in AttemptId : st.attempts[i] # Unstarted}

IsTerminal(rec) == rec.outcome # "none" /\ rec.outcome_generation = rec.desired_generation

Committed(st, k, g) == \E c \in st.commits : c.task = k /\ c.generation = g

Live(st, k) ==
  {i \in Started(st) : st.attempts[i].task = k /\ st.attempts[i].disposition = "live"}

\* live_attempt keeps one entry per key, so of several the last in sort order.
LiveAttempt(st, k) ==
  st.attempts[CHOOSE i \in Live(st, k) : \A j \in Live(st, k) : j <= i]

IsClosed(st, s) == st.expansion[s].state = "closed"

IsMaterialized(st, k) ==
  k.step \in Expanding => IsClosed(st, k.step) /\ k.item \in st.expansion[k.step].keys

Materialized(st) == {k \in TaskKey : IsMaterialized(st, k)}

-----------------------------------------------------------------------------
(* Clause evaluation (reducer.py). *)

\* related_keys answers None while the upstream roster is open.
RosterKnown(st, k, c) ==
  \/ c.upstream \notin Expanding
  \/ IsClosed(st, c.upstream) /\ (c.mapping = "same_key" => k.item # NoItem)

RelatedKeys(st, k, c) ==
  IF c.upstream \notin Expanding THEN {[step |-> c.upstream, item |-> NoItem]}
  ELSE LET keys == st.expansion[c.upstream].keys
       IN  {[step |-> c.upstream, item |-> i] :
              i \in {i \in keys : CASE c.mapping = "same_key"    -> i = k.item
                                    [] c.mapping = "broadcast"   -> keys = {i}
                                    [] c.mapping = "collect_all" -> TRUE}}

Superseded(attempt, rec) ==
  \/ attempt.fence_epoch # rec.fence_epoch
  \/ attempt.generation # rec.desired_generation

Satisfies(st, u, requirement) ==
  /\ IsTerminal(st.task[u])
  /\ requirement = "succeeded" => st.task[u].outcome = "succeeded"

PermanentlyUnsatisfiable(st, u, requirement) ==
  /\ IsTerminal(st.task[u])
  /\ requirement = "succeeded"
  /\ st.task[u].outcome # "succeeded"
  /\ Live(st, u) = {} \/ Superseded(LiveAttempt(st, u), st.task[u])

\* Nothing to collect satisfies ALL; a missing counterpart or "the one" kills.
FaultyEmptyIsDead(c) == c.mapping # "collect_all"
EmptyIsDead(c) == c.mapping # "collect_all" \/ c.cardinality = "any"

ClauseDead(st, k, c) ==
  \/ c.upstream \notin Step
  \/ /\ RosterKnown(st, k, c)
     /\ LET related == RelatedKeys(st, k, c) IN
        IF related = {} THEN EmptyIsDead(c)
        ELSE IF c.cardinality = "all"
        THEN \E u \in related : PermanentlyUnsatisfiable(st, u, c.requirement)
        ELSE \A u \in related : PermanentlyUnsatisfiable(st, u, c.requirement)

ClauseSatisfied(st, k, c) ==
  /\ c.upstream \in Step
  /\ RosterKnown(st, k, c)
  /\ ~ ClauseDead(st, k, c)
  /\ LET related == RelatedKeys(st, k, c) IN
     IF c.cardinality = "all" THEN \A u \in related : Satisfies(st, u, c.requirement)
                              ELSE \E u \in related : Satisfies(st, u, c.requirement)

TaskState(st, k) ==
  IF ~ IsMaterialized(st, k) THEN "unmaterialized"
  ELSE IF IsTerminal(st.task[k]) THEN st.task[k].outcome
  ELSE IF Committed(st, k, st.task[k].desired_generation) THEN "succeeded"
  ELSE IF Live(st, k) # {} THEN "running"
  ELSE IF \E c \in Clause[k.step] : ClauseDead(st, k, c) THEN "blocked"
  ELSE IF \E c \in Clause[k.step] : ~ ClauseSatisfied(st, k, c) THEN "waiting_dependencies"
  ELSE IF st.task[k].retry_at > st.now THEN "retry_wait"
  ELSE "ready"

-----------------------------------------------------------------------------
(* RetryPolicy.delay_for, without jitter. *)

DelayFor(n) ==
  LET delay == BaseSeconds * Multiplier^(IF n > 1 THEN n - 1 ELSE 0)
  IN  IF delay < MaxSeconds THEN delay ELSE MaxSeconds

ASSUME DelayAssumption == \A n \in 0..Cardinality(AttemptId) : DelayFor(n) \in Nat \ {0}

AttemptCount(st, k, g) ==
  Cardinality({i \in Started(st) :
                 st.attempts[i].task = k /\ st.attempts[i].generation = g})

-----------------------------------------------------------------------------
(* The facts, each applied to the state by its _apply_ function. *)

\* A roster that repeats a key fails the expansion instead of closing it.
ApplyExpansionClosed(st, s, g, keys) ==
  IF Cardinality({keys[n] : n \in DOMAIN keys}) # Len(keys)
  THEN WithExpansion(st, s, [generation |-> g, state |-> "failed", keys |-> {}])
  ELSE WithExpansion(st, s, [generation |-> g, state |-> "closed",
                             keys |-> {keys[n] : n \in DOMAIN keys}])

ApplyExpansionFailed(st, s, g) ==
  WithExpansion(st, s, [generation |-> g, state |-> "failed", keys |-> {}])

FaultyApplyAttemptStarted(st, i, start) ==
  WithAttempt(WithTask(st, start.task, [st.task[start.task] EXCEPT !.retry_at = 0]), i,
    [task |-> start.task, generation |-> start.generation,
     fence_epoch |-> start.fence_epoch, disposition |-> "live"])

ApplyAttemptStarted(st, i, start) ==
  IF i \in Started(st) /\ st.attempts[i].disposition # "live" THEN st
  ELSE LET cleared == IF st.task[start.task].fence_epoch = start.fence_epoch
                      THEN WithTask(st, start.task, [st.task[start.task] EXCEPT !.retry_at = 0])
                      ELSE st
       IN  WithAttempt(cleared, i,
             [task |-> start.task, generation |-> start.generation,
              fence_epoch |-> start.fence_epoch, disposition |-> "live"])

Settled(rec, outcome, g) == [rec EXCEPT !.outcome = outcome, !.outcome_generation = g]

FaultyOutOfTries(st, k, g) == AttemptCount(st, k, g) > MaxAttempts[k.step]
OutOfTries(st, k, g) == AttemptCount(st, k, g) >= MaxAttempts[k.step]

\* What an ending that still speaks for its task does to the task record.
EndedRecord(st, attempt, d) ==
  LET rec   == st.task[attempt.task]
      tries == AttemptCount(st, attempt.task, attempt.generation)
  IN  CASE d = "succeeded" -> [Settled(rec, "succeeded", attempt.generation) EXCEPT !.retry_at = 0]
        [] d = "cancelled" -> Settled(rec, "cancelled", attempt.generation)
        [] d = "permanent" -> Settled(rec, "failed", attempt.generation)
        [] d \in {"retryable", "lost"} ->
             IF OutOfTries(st, attempt.task, attempt.generation)
             THEN Settled(rec, "failed", attempt.generation)
             ELSE [rec EXCEPT !.retry_at = st.now + DelayFor(tries)]

FaultyCommitGuard(st, attempt, d) ==
  ~ Superseded(attempt, st.task[attempt.task])

FaultySettledGuard(st, attempt, d) ==
  LET rec == st.task[attempt.task] IN
  /\ ~ Superseded(attempt, rec)
  /\ d = "succeeded" => ~ Committed(st, attempt.task, rec.desired_generation)

\* An ending that is superseded, or that comes after its task settled, is history only.
EndingCounts(st, attempt, d) ==
  LET rec == st.task[attempt.task] IN
  /\ ~ Superseded(attempt, rec)
  /\ ~ Committed(st, attempt.task, rec.desired_generation)
  /\ d # "succeeded" => ~ IsTerminal(rec)

ApplyAttemptEnded(st, i, d) ==
  IF i \notin Started(st) \/ st.attempts[i].disposition # "live" THEN st
  ELSE LET attempt == st.attempts[i]
           ended   == WithAttempt(st, i, [attempt EXCEPT !.disposition = d])
           commit  == [task |-> attempt.task, generation |-> attempt.generation, attempt |-> i]
           marked  == WithTask(ended, attempt.task, EndedRecord(ended, attempt, d))
       IN  IF ~ EndingCounts(ended, attempt, d) THEN ended
           ELSE IF d = "succeeded" THEN [marked EXCEPT !.commits = @ \cup {commit}]
           ELSE marked

FaultyDependents(st, k) ==
  {d \in st.recorded :
     /\ IsMaterialized(st, d) /\ st.task[d].outcome # "skipped"
     /\ \E c \in Clause[d.step] :
          c.upstream = k.step /\ (c.mapping = "same_key" => d.item = k.item)}

\* Materialized tasks with a record that a clause makes depend on k.
Dependents(st, k) ==
  {d \in st.recorded :
     /\ IsMaterialized(st, d)
     /\ \E c \in Clause[d.step] :
          c.upstream = k.step /\ (c.mapping = "same_key" => d.item = k.item)}

FaultyCascade(st, k) == {k} \cup Dependents(st, k)

\* The breadth-first walk visits the least set with k that is closed under Dependents.
Cascade(st, k) ==
  {t \in st.recorded \cup {k} :
     \A C \in SUBSET (st.recorded \cup {k}) :
       (k \in C /\ \A x \in C : Dependents(st, x) \subseteq C) => t \in C}

ApplyForce(st, k) ==
  LET hit == Cascade(st, k) IN
  [st EXCEPT
     !.recorded = @ \cup hit,
     !.task = [t \in TaskKey |->
                 IF t \in hit
                 THEN [desired_generation |-> st.task[t].desired_generation + 1,
                       fence_epoch |-> st.task[t].fence_epoch + 1,
                       outcome |-> "none", outcome_generation |-> 0, retry_at |-> 0]
                 ELSE st.task[t]]]

-----------------------------------------------------------------------------
(* _settle_blocked: tasks with a dead clause become skipped, to a fixpoint. *)

Open(st) ==
  {k \in Materialized(st) : /\ ~ IsTerminal(st.task[k])
                            /\ ~ Committed(st, k, st.task[k].desired_generation)
                            /\ Live(st, k) = {}}

SkipAll(st, D) ==
  [st EXCEPT
     !.recorded = @ \cup D,
     !.task = [k \in TaskKey |->
                 IF k \in D
                 THEN Settled(st.task[k], "skipped", st.task[k].desired_generation)
                 ELSE st.task[k]]]

\* Every open task that is blocked once D is skipped is already in D.
ClosedUnderBlocking(st, D) ==
  LET skipped == SkipAll(st, D) IN
  \A k \in Open(st) \ D : \A c \in Clause[k.step] : ~ ClauseDead(skipped, k, c)

\* Skipping one task never revives a clause, so the loop ends at the least such set,
\* whatever order it visits the keys in.
BlockedSet(st) ==
  {k \in Open(st) : \A D \in SUBSET Open(st) : ClosedUnderBlocking(st, D) => k \in D}

SettleBlocked(st) == SkipAll(st, BlockedSet(st))

-----------------------------------------------------------------------------
(* _commands: what the runtime is asked to do next. *)

FaultyDispatches(st) ==
  {[task |-> k, generation |-> st.task[k].desired_generation,
    fence_epoch |-> st.task[k].fence_epoch] :
       k \in {k \in TaskKey : TaskState(st, k) \in {"ready", "running"}}}

Dispatches(st) ==
  {[task |-> k, generation |-> st.task[k].desired_generation,
    fence_epoch |-> st.task[k].fence_epoch] :
       k \in {k \in TaskKey : TaskState(st, k) = "ready"}}

Cancellations(st) ==
  {i \in Started(st) : /\ st.attempts[i].disposition = "live"
                       /\ st.attempts[i].task \in st.recorded
                       /\ Superseded(st.attempts[i], st.task[st.attempts[i].task])}

-----------------------------------------------------------------------------
(* The state machine: a runtime reports facts, the reducer answers commands. *)

VARIABLES
  state,    \* the RunState
  issued    \* the DispatchAttempt commands the runtime may still act on

vars == <<state, issued>>

\* The first commands come from reducing a Tick over the bare templates.
Init == state = SettleBlocked(InitialRun) /\ issued = Dispatches(state)

\* A runtime that works beside the reducer may act on a command of any batch so far,
\* one that waits for it only on the latest.
Reduce(st) ==
  /\ state' = SettleBlocked(st)
  /\ issued' = Dispatches(state') \cup IF LateStart THEN issued ELSE {}

\* A closed generation is final: it may be announced again, never with other keys.
ExpansionClosed(s, g, keys) ==
  /\ g = state.expansion[s].generation => state.expansion[s].state = "unmaterialized"
  /\ Reduce(ApplyExpansionClosed(state, s, g, keys))

ExpansionFailed(s, g) ==
  /\ g = state.expansion[s].generation => state.expansion[s].state = "unmaterialized"
  /\ Reduce(ApplyExpansionFailed(state, s, g))

\* The runtime starts an attempt for a command.  The order of the ids only matters
\* between attempts of one task that are live together, so without late starts the
\* ids are taken in order.
AttemptStarted(i, start) ==
  /\ i \notin Started(state)
  /\ LateStart \/ \A j \in AttemptId : j < i => j \in Started(state)
  /\ start \in issued
  /\ Reduce(ApplyAttemptStarted(state, i, start))

StartRedelivered(i) ==
  /\ i \in Started(state)
  /\ Reduce(ApplyAttemptStarted(state, i,
       [task |-> state.attempts[i].task, generation |-> state.attempts[i].generation,
        fence_epoch |-> state.attempts[i].fence_epoch]))

\* Facts respect causality, but an ending may be delivered again.
AttemptEnded(i, d) ==
  /\ state.attempts[i].disposition \in {"live", d}
  /\ Reduce(ApplyAttemptEnded(state, i, d))

ForceIssued(k) ==
  /\ \A t \in TaskKey : state.task[t].desired_generation < GenerationBound
  /\ Reduce(ApplyForce(state, k))

\* A clock reading is only ever compared with a retry_at, so time need only pass
\* while some retry lies in the future.
Tick ==
  /\ state.now < ClockBound
  /\ \E k \in TaskKey : state.task[k].retry_at > state.now
  /\ Reduce([state EXCEPT !.now = @ + 1])

Rosters == UNION {[1..n -> Item] : n \in 0..RosterLenBound}

Next ==
  \/ \E s \in Expanding, g \in 1..RosterBound :
       \/ \E keys \in Rosters : ExpansionClosed(s, g, keys)
       \/ ExpansionFailed(s, g)
  \/ \E i \in AttemptId :
       \/ \E start \in issued : AttemptStarted(i, start)
       \/ StartRedelivered(i)
       \/ \E d \in Ending : AttemptEnded(i, d)
  \/ \E k \in TaskKey : ForceIssued(k)
  \/ Tick

Spec == Init /\ [][Next]_vars

\* The runtime carries out what the commands ask for, its attempts end one way or
\* another (a worker that never reports is declared lost), and time passes.
Fairness ==
  /\ WF_vars(\E i \in AttemptId, start \in issued : AttemptStarted(i, start))
  /\ \A i \in AttemptId :
       WF_vars(state.attempts[i].disposition = "live" /\ \E d \in Ending : AttemptEnded(i, d))
  /\ WF_vars(Tick)

FairSpec == Spec /\ Fairness

-----------------------------------------------------------------------------
(* Properties. *)

(* Every part of the RunState and every command issued has the shape of its  *)
(* dataclass in model.py and reducer.py.                                     *)
RunStateType ==
  [expansion : [Step -> ExpansionRecord], task : [TaskKey -> TaskRecord],
   recorded : SUBSET TaskKey,
   attempts : [AttemptId -> AttemptRecord \cup {Unstarted}],
   commits : SUBSET CommitRecord, now : Nat]

TypeOK == state \in RunStateType /\ issued \subseteq DispatchAttempt

(* A task generation has at most one commit, however many duplicate, stale   *)
(* or redelivered attempts of it end in success (_apply_attempt_ended).      *)
OneCommitPerGeneration ==
  \A c, d \in state.commits : c.task = d.task /\ c.generation = d.generation => c = d

(* The two places that say a task succeeded agree: its record says so        *)
(* exactly when its desired generation has a commit.  A force must leave the *)
(* commit of the old generation behind, and a sibling's failure, a late      *)
(* cancellation or a settled skip must never hide or invent one.             *)
SucceededIffCommitted ==
  \A k \in TaskKey : state.task[k].outcome = "succeeded"
                       <=> Committed(state, k, state.task[k].desired_generation)

(* A commit is published by an attempt that ran for that task and generation *)
(* and ended in success, and never ahead of what the operator asked for.     *)
CommitBacked ==
  \A c \in state.commits :
    /\ c.attempt \in Started(state)
    /\ state.attempts[c.attempt].disposition = "succeeded"
    /\ state.attempts[c.attempt].task = c.task
    /\ state.attempts[c.attempt].generation = c.generation
    /\ c.generation <= state.task[c.task].desired_generation

(* Settlement reaches its fixpoint: between events no task is left blocked   *)
(* behind a clause that can never be satisfied (_settle_blocked).            *)
NothingLeftBlocked == \A k \in TaskKey : TaskState(state, k) # "blocked"

(* Fencing and cancellation agree: an attempt whose ending would be thrown   *)
(* away is one the runtime is being told to cancel.                          *)
SupersededIsCancelled ==
  \A i \in Started(state) :
    /\ state.attempts[i].disposition = "live"
    /\ Superseded(state.attempts[i], state.task[state.attempts[i].task])
    => i \in Cancellations(state)

(* Attempt history and commits are append-only: no event reopens or rewrites *)
(* an attempt that ended, re-addresses a running one, or withdraws a commit. *)
HistoryAppendOnly ==
  [][/\ state.commits \subseteq state'.commits
     /\ \A i \in Started(state) :
          /\ i \in Started(state')
          /\ state.attempts[i].disposition # "live" => state'.attempts[i] = state.attempts[i]
          /\ state'.attempts[i].task = state.attempts[i].task
          /\ state'.attempts[i].generation = state.attempts[i].generation]_vars

(* A settled outcome moves only in two ways: a force starts a new            *)
(* generation, or a success overtakes another outcome of the same one.       *)
OutcomeMoves ==
  [][\A k \in TaskKey :
       LET old == state.task[k]
           new == state'.task[k]
       IN  IsTerminal(old) =>
             \/ new.outcome = old.outcome /\ new.desired_generation = old.desired_generation
             \/ new.desired_generation = old.desired_generation + 1 /\ new.fence_epoch > old.fence_epoch
             \/ new.outcome = "succeeded" /\ new.desired_generation = old.desired_generation]_vars

(* When the runtime acts on the latest commands only, a task never has two   *)
(* attempts at once, across forces too: live_attempt can answer "the one".   *)
SingleLiveAttempt ==
  \A k \in TaskKey : \A i, j \in Live(state, k) : i = j

(* ... a skip is never left behind by a success: a skipped task still has a  *)
(* clause that cannot be satisfied.                                          *)
SkipStaysJustified ==
  \A k \in Materialized(state) :
    state.task[k].outcome = "skipped" => \E c \in Clause[k.step] : ClauseDead(state, k, c)

(* ... a committed task was computed over the world as it is now: every      *)
(* clause of a succeeded task is satisfied by its upstreams' desired         *)
(* generations, so no force leaves a result over superseded inputs behind.   *)
SucceededOverCurrentWorld ==
  \A k \in Materialized(state) :
    state.task[k].outcome = "succeeded" => \A c \in Clause[k.step] : ClauseSatisfied(state, k, c)

(* ... and retries stop at the ceiling of the step's policy, lost attempts   *)
(* included.                                                                 *)
RetryCeiling ==
  \A k \in TaskKey :
    AttemptCount(state, k, state.task[k].desired_generation) <= MaxAttempts[k.step]

(* Once every roster is closed the run drains: each task reaches an outcome  *)
(* of its desired generation and none is left waiting, ready or running.     *)
Drains ==
  (\A s \in Expanding : IsClosed(state, s))
    ~> (\A k \in Materialized(state) : IsTerminal(state.task[k]))
=============================================================================
