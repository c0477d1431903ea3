------------------------------ MODULE StepWalk ------------------------------
(***************************************************************************)
(* The level walk of run-process (commands/run_process.py, _orchestrate)   *)
(* over the steps of one process scope, from launch to launch of the same  *)
(* run: reconciliation, ancestor verification, the judgement of each step  *)
(* (blocked, skipped, overridden, complete, to run), the invalidations     *)
(* that --force, an edited step or a changed fan-in document cause, the    *)
(* concurrent execution of a level, item-aligned chains, and what a crash  *)
(* or an interrupt leaves behind.                                          *)
(*                                                                         *)
(* Records of one task (TaskState.tla models their files) are one value    *)
(* here.  What an output was computed from is a set of <<step, version,    *)
(* items>>: the step's own definition, those of everything it consumed, and *)
(* for a collected document (version 0) the items that had succeeded.      *)
(***************************************************************************)
EXTENDS Integers, FiniteSets, Sequences

CONSTANTS Step,         \* the steps of the plan
          Needs,        \* Needs[s]: the steps s needs
          Mapped,       \* steps with a fan-out, one task per item
          Item,         \* the items every mapped step maps over
          Whole,        \* the key of the only task of a step that is not mapped
          Collects,     \* Collects[s]: the needs s collects with require: finished
          Rollup,       \* steps with on_failure: continue
          Chain,        \* the item-aligned chains, sequences of mapped code steps
          Option,       \* the command lines a launch may be given
          LaunchBound,  \* how many launches there are
          CrashBound,   \* how many of them may crash
          MeddleBound,  \* how often something changes between launches
          Editable      \* the steps whose definition may be edited

ASSUME StepAssumption ==
  /\ IsFiniteSet(Step) /\ IsFiniteSet(Item) /\ Item # {} /\ Whole \notin Item
  /\ Needs \in [Step -> SUBSET Step] /\ Collects \in [Step -> SUBSET Step]
  /\ Mapped \subseteq Step /\ Rollup \subseteq Step /\ Editable \subseteq Step
  /\ \A s \in Step : Collects[s] \subseteq Needs[s] \cap Mapped
  /\ LaunchBound \in Nat /\ CrashBound \in Nat /\ MeddleBound \in Nat

(* validate_step_graph refuses a plan with a cycle: of some steps, one needs *)
(* none of the others.                                                     *)
ASSUME GraphAssumption ==
  \A S \in SUBSET Step : S # {} => \E s \in S : Needs[s] \cap S = {}

(* A chain's stages are mapped, each needs the one before it and nothing    *)
(* else, and none collects (a chain is handed no document); chains are     *)
(* disjoint.                                                               *)
ASSUME ChainAssumption ==
  \A c \in Chain :
    /\ c \in Seq(Mapped)
    /\ \A i, j \in DOMAIN c : c[i] = c[j] => i = j
    /\ \A i \in DOMAIN c : Collects[c[i]] = {}
    /\ \A i \in DOMAIN c : i > 1 => Needs[c[i]] = {c[i - 1]}
    /\ \A d \in Chain : \A i \in DOMAIN c, j \in DOMAIN d : c[i] = d[j] => c = d

(* A launch plans some steps and walks all of these, or, in the scope that  *)
(* --only-scope-step selects, a step with all that depends on it or with   *)
(* all it needs.                                                           *)
ASSUME OptionAssumption ==
  \A o \in Option :
    /\ o \in [plan : SUBSET Step, walk : SUBSET Step, forced : SUBSET Step,
              failFast : BOOLEAN, skip : SUBSET Step]
    /\ o.walk \subseteq o.plan
    /\ \/ \A s \in o.plan : Needs[s] \cap o.walk # {} => s \in o.walk
       \/ \A s \in o.walk : Needs[s] \cap o.plan \subseteq o.walk

VARIABLES
  version,    \* the fingerprint of each step as authored now
  overridden, \* steps recorded as satisfied by an operator
  rec,        \* status.yaml of each task; "stale": renamed to status.yaml.stale
  hash,       \* the step_hash of each task's result.yaml, 0 if there is none
  made,       \* what each task's output was computed from, {} if it has none
  delivered,  \* collected-inputs.yaml of each step
  mirror,     \* process-status.yaml, per step
  st,         \* step_states of the walk under way
  prior,      \* process-status.yaml as it was when the walk began
  phase,      \* "idle" (no orchestrator), "judging" or "running" a level
  launch,     \* the command line of the walk under way
  left,       \* steps of this level and later ones
  judged,     \* steps of this level the walk has decided on
  runnable,   \* those of them it will run
  cascade,    \* an invalidation under way: its root, the tasks still to rename
  blocked,    \* blocked_steps
  tried,      \* tasks this walk has run or refused
  outcome,    \* how the last walk ended, until something is changed
  excused,    \* ghost: steps the operator ever overrode, skipped or ran alone
  unsettled,  \* ghost: steps whose records may vouch for outputs out of date
  owed,       \* ghost: the keys each step had to complete when it last ended
  count       \* ghost: launches, crashes, changes so far

disk  == <<version, overridden, rec, hash, made, delivered>>
walk  == <<prior, launch, left, judged, runnable, cascade, blocked, tried>>
ghost == <<excused, unsettled, owed, count>>
vars  == <<disk, mirror, st, phase, walk, outcome, ghost>>

-----------------------------------------------------------------------------
(* The graph *)

Keys(s) == IF s \in Mapped THEN Item ELSE {Whole}
Task    == UNION {{<<s, k>> : k \in Keys(s)} : s \in Step}
Tasks(s) == {t \in Task : t[1] = s}

Dependents(S, plan) == {d \in plan : Needs[d] \cap S # {}}

(* All that depends on s within the plan: the least set with its dependents *)
(* and theirs.                                                             *)
Downstream(s, plan) ==
  {d \in plan : \A D \in SUBSET plan : Dependents({s} \cup D, plan) \subseteq D => d \in D}

Ancestors(s) == {a \in Step : s \in Downstream(a, Step)}

(* The steps of the current level: topo_sort over the steps walked. *)
Level == {s \in left : Needs[s] \cap left = {}}

ToleratesOnly(d, failed, plan) ==
  LET affected == Needs[d] \cap ({failed} \cup Downstream(failed, plan))
  IN  affected # {} /\ affected \subseteq Collects[d]

FaultyPropagateFailure(failed, plan) ==
  {d \in Dependents({failed}, plan) :
     d \notin Rollup /\ ~ToleratesOnly(d, failed, plan)}

PropagateFailure(failed, plan) ==
  {d \in Downstream(failed, plan) :
     d \notin Rollup /\ ~ToleratesOnly(d, failed, plan)}

(* m comes before s in a chain, and the walk covers all from m to s.       *)
Before(m, s) ==
  \E c \in Chain : \E i, j \in DOMAIN c :
    i < j /\ c[i] = m /\ c[j] = s /\ \A k \in i .. j : c[k] \in launch.walk

(* A chain runs under its first step walked. *)
Absorbed(s) == \E m \in Step : Before(m, s)
Heads(s)    == ~Absorbed(s) /\ \E m \in Step : Before(s, m)
Members(s)  == {s} \cup {m \in Step : Before(s, m)}

-----------------------------------------------------------------------------
(* What was done before *)

(* recorded_step_hash: the mirror's, else one of those in the results of   *)
(* the tasks that have a status.yaml, in the order the directory has them. *)
RecordedHashes(s) ==
  LET found == {hash[t] : t \in {u \in Tasks(s) : rec[u] \notin {"none", "stale"}}} \ {0}
  IN  IF mirror[s].hash # 0 THEN {mirror[s].hash}
      ELSE IF found = {} THEN {0} ELSE found

(* status.yaml says completed, or process-status.yaml does. *)
Vouched(s) ==
  \/ s \notin Mapped /\ rec[<<s, Whole>>] = "completed"
  \/ mirror[s].state = "completed"

IsStepCompleted(s, recorded) ==
  /\ Vouched(s)
  /\ s \notin Mapped => made[<<s, Whole>>] # {}
  /\ recorded \in {0, version[s]}

(* The outcome digest of the documents s collects. *)
Digest(s) == {<<u, [k \in Item |-> rec[<<u, k>>]]>> : u \in Collects[s]}

FaultyCollectedChanged(s) == FALSE

(* A document delivered before reports other outcomes than it would now. *)
CollectedChanged(s) == delivered[s] \notin {{}, Digest(s)}

(* What _invalidate_downstream renames for a root.  For a changed document  *)
(* it keeps the items of mapped steps further down.                        *)
ToInvalidate(root, keepItems) ==
  {t \in Task :
     /\ rec[t] \notin {"none", "stale"}
     /\ \/ t[1] = root
        \/ /\ t[1] \in Downstream(root, launch.plan)
           /\ ~(keepItems /\ t[1] \in Mapped)}

(* What task t computes from when it runs now: its own definition and what  *)
(* it is handed.  In a chain an item is handed that item only.             *)
Handed(t) ==
  {i \in Task :
     /\ i[1] \in Needs[t[1]]
     /\ Before(i[1], t[1]) => i[2] = t[2]
     /\ i[1] \in Collects[t[1]] => rec[i] = "completed"}

Outcomes(u) == {k \in Item : rec[<<u, k>>] = "completed"}

Consumed(t) ==
  {<<t[1], version[t[1]], {}>>}
    \cup (UNION {made[i] : i \in Handed(t)})
    \cup {<<u, 0, Outcomes(u)>> : u \in Collects[t[1]]}

-----------------------------------------------------------------------------
(* Entering and leaving a walk *)

States == {"none", "pending", "running", "completed", "failed", "cancelled",
           "skipped", "blocked"}
Entry(state) == [state |-> state, hash |-> 0]

NoCascade == [root |-> Whole, tasks |-> {}]
NoLaunch == [plan |-> {}, walk |-> {}, forced |-> {}, failFast |-> FALSE, skip |-> {}]

Init ==
  /\ version = [s \in Step |-> 1]
  /\ overridden = {}
  /\ rec = [t \in Task |-> "none"]
  /\ hash = [t \in Task |-> 0]
  /\ made = [t \in Task |-> {}]
  /\ delivered = [s \in Step |-> {}]
  /\ mirror = [s \in Step |-> Entry("none")]
  /\ st = mirror /\ prior = mirror
  /\ phase = "idle" /\ launch = NoLaunch
  /\ left = {} /\ judged = {} /\ runnable = {} /\ cascade = NoCascade /\ blocked = {} /\ tried = {}
  /\ outcome = "none"
  /\ excused = {} /\ unsettled = {} /\ owed = [s \in Step |-> Keys(s)]
  /\ count = [launches |-> 0, crashes |-> 0, meddles |-> 0]

(* _verify_ancestors: every need left out of the walk is complete, or       *)
(* recorded as satisfied.  A forced launch does not ask.                   *)
AncestorsVerified(o) ==
  \/ o.walk = Step
  \/ o.forced = o.plan
  \/ \A n \in (UNION {Needs[s] : s \in o.walk}) \ o.walk :
       \/ n \in overridden
       \/ \A h \in RecordedHashes(n) : IsStepCompleted(n, h)

(* Every step walked is pending, the others keep what they have. *)
Entered(o) == [s \in Step |-> IF s \in o.walk THEN Entry("pending") ELSE mirror[s]]

FaultyEntryWrite(o) == mirror

(* process-status.yaml is written before anything is judged. *)
EntryWrite(o) == Entered(o)

(* reconcile_stale_running: tasks of a dead orchestrator are failed. *)
Reconciled == [t \in Task |-> IF rec[t] = "running" THEN "failed" ELSE rec[t]]

(* Steps whose records this launch leaves, though they may come to vouch for *)
(* outputs out of date: the plan leaves them out, and they depend on what   *)
(* it runs.                                                                *)
LeftBehind(o) ==
  {s \in Step \ o.plan : /\ \E a \in o.walk : s \in Downstream(a, Step)
                         /\ \E t \in Tasks(s) : rec[t] \notin {"none", "stale"}}

Launch(o) ==
  /\ phase = "idle" /\ count.launches < LaunchBound
  /\ AncestorsVerified(o)
  /\ rec' = Reconciled
  /\ prior' = mirror
  /\ st' = Entered(o)
  /\ mirror' = EntryWrite(o)
  /\ launch' = o /\ left' = o.walk
  /\ phase' = "judging"
  /\ judged' = {} /\ runnable' = {} /\ cascade' = NoCascade /\ blocked' = {} /\ tried' = {}
  /\ outcome' = "none"
  /\ excused' = excused \cup o.skip
                 \cup (IF o.walk # Step /\ o.forced = o.plan THEN o.walk ELSE {})
  /\ unsettled' = unsettled \cup LeftBehind(o)
  /\ count' = [count EXCEPT !.launches = @ + 1]
  /\ UNCHANGED <<version, overridden, hash, made, delivered, owed>>

Leave(how) ==
  /\ phase' = "idle"
  /\ outcome' = how
  /\ st' = [s \in Step |-> Entry("none")] /\ prior' = st'
  /\ launch' = NoLaunch /\ left' = {}
  /\ judged' = {} /\ runnable' = {} /\ cascade' = NoCascade /\ blocked' = {} /\ tried' = {}

-----------------------------------------------------------------------------
(* Judging the steps of a level *)

Judged(s, state) ==
  /\ judged' = judged \cup {s}
  /\ st' = [st EXCEPT ![s] = state]
  /\ UNCHANGED <<runnable, cascade>>

WillRun(s, tasks) ==
  /\ judged' = judged \cup {s}
  /\ runnable' = runnable \cup {s}
  /\ cascade' = [root |-> s, tasks |-> tasks]
  /\ UNCHANGED st

CanJudge(s) ==
  /\ phase = "judging" /\ cascade.tasks = {}
  /\ s \in Level \ judged

(* Steps the walk does not consider running: members of a chain that runs   *)
(* under its head, blocked, skipped and overridden ones.                   *)
PassOver(s) ==
  /\ CanJudge(s)
  /\ \/ /\ Absorbed(s)
        /\ judged' = judged \cup {s}
        /\ UNCHANGED <<st, runnable, cascade>>
     \/ /\ ~Absorbed(s) /\ s \in blocked
        /\ Judged(s, Entry("blocked"))
     \/ /\ ~Absorbed(s) /\ s \notin blocked /\ s \in launch.skip
        /\ Judged(s, Entry("skipped"))
     \/ /\ ~Absorbed(s) /\ s \notin blocked \cup launch.skip \cup launch.forced
        /\ s \in overridden
        /\ Judged(s, Entry("completed"))
  /\ UNCHANGED <<disk, mirror, phase, prior, launch, left, blocked, tried, outcome, ghost>>

Considered(s) ==
  /\ CanJudge(s)
  /\ ~Absorbed(s) /\ s \notin blocked \cup launch.skip
  /\ s \in launch.forced \/ s \notin overridden

(* The rest of the judgement: reuse the step, or run it, after invalidating *)
(* what depends on it when it is forced, its fan-in documents changed or    *)
(* its fingerprint did.  A chain head is never reused as a whole.          *)
Consider(s) ==
  /\ Considered(s)
  /\ \/ s \in launch.forced /\ WillRun(s, ToInvalidate(s, FALSE))
     \/ /\ s \notin launch.forced /\ ~Heads(s) /\ CollectedChanged(s)
        /\ WillRun(s, ToInvalidate(s, TRUE))
     \/ /\ s \notin launch.forced /\ (Heads(s) \/ ~CollectedChanged(s))
        /\ \E h \in RecordedHashes(s) :
             IF ~Heads(s) /\ IsStepCompleted(s, h)
             THEN Judged(s, [state |-> "completed", hash |-> prior[s].hash])
             ELSE WillRun(s, IF h \in {0, version[s]} THEN {} ELSE ToInvalidate(s, FALSE))
  /\ UNCHANGED <<disk, mirror, phase, prior, launch, left, blocked, tried, outcome, ghost>>

(* One rename of an invalidation: those of the root go first. *)
Rename(t) ==
  /\ t \in cascade.tasks
  /\ t[1] = cascade.root \/ \A u \in cascade.tasks : u[1] # cascade.root
  /\ rec' = [rec EXCEPT ![t] = "stale"]
  /\ cascade' = [cascade EXCEPT !.tasks = @ \ {t}]
  /\ UNCHANGED <<version, overridden, hash, made, delivered, mirror, st, phase, prior,
                 launch, left, judged, runnable, blocked, tried, outcome, ghost>>

(* Every step of the level is judged: gather the runnable ones, or go on. *)
Gather ==
  /\ phase = "judging" /\ cascade.tasks = {} /\ left # {} /\ judged = Level
  /\ IF runnable # {}
     THEN phase' = "running" /\ UNCHANGED <<left, judged>>
     ELSE left' = left \ Level /\ judged' = {} /\ UNCHANGED phase
  /\ UNCHANGED <<disk, mirror, st, prior, launch, runnable, cascade, blocked, tried,
                 outcome, ghost>>

-----------------------------------------------------------------------------
(* Running the steps of a level *)

Running(s) == phase = "running" /\ s \in runnable /\ st[s].state = "running"

(* _run_one_step: announce the step, deliver its collected documents. *)
StartStep(s) ==
  /\ phase = "running" /\ s \in runnable /\ st[s].state = "pending"
  /\ st' = [st EXCEPT ![s] = Entry("running")]
  /\ mirror' = st'
  /\ delivered' = [delivered EXCEPT ![s] = Digest(s)]
  /\ UNCHANGED <<version, overridden, rec, hash, made, phase, walk, outcome, ghost>>

Done(t) == rec[t] = "completed" /\ made[t] # {}

(* The keys that have passed the stages before s: all, outside a chain. *)
Reached(s) == {k \in Keys(s) : \A m \in Step : Before(m, s) => Done(<<m, k>>)}

FaultyDue(t) ==
  /\ \E h \in Step : Running(h) /\ t[1] \in Members(h)
  /\ t \notin tried
  /\ t[2] \in Reached(t[1])

(* The task its walker comes to next: the only one of a step, an item not   *)
(* done of a mapped one, in a chain the first not done if all before are.  *)
Due(t) ==
  /\ \E h \in Step : Running(h) /\ t[1] \in Members(h)
  /\ t \notin tried
  /\ t[1] \in Mapped => ~Done(t)
  /\ t[2] \in Reached(t[1])

(* What t is handed and cannot find.  (A rollup binds nothing: it reports   *)
(* on what there is.)  Where the operator skips a step, overrides it or     *)
(* runs one alone, its outputs may have come otherwise.                    *)
Missing(t) ==
  {i \in Handed(t) : t[1] \notin Rollup /\ i[1] \notin Collects[t[1]] /\ made[i] = {}}

Record(t, state, output, h) ==
  /\ rec' = [rec EXCEPT ![t] = state]
  /\ made' = [made EXCEPT ![t] = output]
  /\ hash' = [hash EXCEPT ![t] = h]
  /\ UNCHANGED <<version, overridden, delivered, mirror, st, phase, prior, launch, left,
                 judged, runnable, cascade, blocked, outcome, excused, owed, count>>

StartTask(t) ==
  /\ Due(t)
  /\ \A i \in Missing(t) : i[1] \in excused
  /\ tried' = tried \cup {t}
  /\ Record(t, "running", {}, hash[t])
  /\ UNCHANGED unsettled

(* validate_step_inputs_exist refuses.  That fails the item of a mapped     *)
(* step, and leaves a single task's record as it was.                      *)
RefuseTask(t) ==
  /\ Due(t) /\ Missing(t) # {}
  /\ tried' = tried \cup {t}
  /\ Record(t, IF t[1] \in Mapped THEN "failed" ELSE rec[t], made[t], hash[t])
  /\ UNCHANGED unsettled

(* It was handed something that no record vouches for: an output of an      *)
(* earlier run, or none where one was reported.                            *)
Unvouched(t) == \E i \in Handed(t) : ~Done(i)

(* The task ends, well (status.yaml, then result.yaml) or badly. *)
EndTask(t) ==
  /\ phase = "running" /\ rec[t] = "running"
  /\ \/ /\ Record(t, "completed", Consumed(t), version[t[1]])
        /\ unsettled' = IF Unvouched(t) THEN unsettled \cup {t[1]} ELSE unsettled
     \/ Record(t, "failed", {}, hash[t]) /\ UNCHANGED unsettled
  /\ UNCHANGED tried

StepSucceeded(s) == Reached(s) # {} /\ \A k \in Reached(s) : Done(<<s, k>>)

Ended(s) ==
  IF ~StepSucceeded(s) THEN Entry("failed")
  ELSE IF Absorbed(s) \/ Heads(s) THEN Entry("completed")
  ELSE [state |-> "completed", hash |-> version[s]]

(* The step has run all it can.  A chain writes process-status.yaml, and so *)
(* does a refusal; another ending is written with the next change.         *)
EndStep(s) ==
  /\ Running(s)
  /\ \A m \in Members(s) : \A t \in Tasks(m) : rec[t] # "running" /\ ~Due(t)
  /\ st' = [m \in Step |-> IF m \in Members(s) THEN Ended(m) ELSE st[m]]
  /\ \/ mirror' = st' /\ (Heads(s) \/ ~StepSucceeded(s))
     \/ UNCHANGED mirror /\ ~Heads(s)
  /\ owed' = [m \in Step |-> IF m \in Members(s) THEN Reached(m) ELSE owed[m]]
  /\ UNCHANGED <<disk, phase, walk, outcome, excused, unsettled, count>>

(* A chain reports the failure of any member as its head's. *)
FailedSteps == {s \in runnable : \E m \in Members(s) : st[m].state = "failed"}

(* Every step of the level has ended: block what depends on the failed ones, *)
(* and abandon the walk there if it is to fail fast.                       *)
EndLevel ==
  /\ phase = "running"
  /\ \A s \in runnable : st[s].state \in {"completed", "failed"}
  /\ mirror' = st
  /\ IF FailedSteps # {} /\ launch.failFast
     THEN Leave("failed")
     ELSE /\ blocked' = blocked \cup UNION {PropagateFailure(f, launch.plan) : f \in FailedSteps}
          /\ left' = left \ Level
          /\ judged' = {} /\ runnable' = {}
          /\ phase' = "judging"
          /\ UNCHANGED <<st, prior, launch, cascade, tried, outcome>>
  /\ UNCHANGED <<disk, ghost>>

(* The walk is over.  "clean": the whole process, every step completed. *)
EndWalk ==
  /\ phase = "judging" /\ left = {}
  /\ mirror' = st
  /\ Leave(IF \E s \in Step : st[s].state = "failed" THEN "failed"
           ELSE IF launch.walk = Step /\ \A s \in Step : st[s].state = "completed" THEN "clean"
           ELSE "partial")
  /\ UNCHANGED <<disk, ghost>>

-----------------------------------------------------------------------------
(* Interrupts, crashes, and what changes between two launches *)

(* Ctrl-C while a level runs: its tasks fail, its steps are cancelled. *)
Interrupt ==
  /\ phase = "running" /\ count.crashes < CrashBound
  /\ rec' = Reconciled
  /\ mirror' = [s \in Step |-> IF st[s].state = "running" THEN Entry("cancelled") ELSE st[s]]
  /\ Leave("failed")
  /\ count' = [count EXCEPT !.crashes = @ + 1]
  /\ UNCHANGED <<version, overridden, hash, made, delivered, excused, unsettled, owed>>

(* The orchestrator dies, perhaps between the status and the result of the  *)
(* tasks in cut, or in the middle of an invalidation.                       *)
Crash(cut) ==
  /\ phase # "idle" /\ count.crashes < CrashBound
  /\ \A t \in cut : rec[t] = "running"
  /\ rec' = [t \in Task |-> IF t \in cut THEN "completed" ELSE rec[t]]
  /\ made' = [t \in Task |-> IF t \in cut THEN Consumed(t) ELSE made[t]]
  /\ Leave("crashed")
  /\ count' = [count EXCEPT !.crashes = @ + 1]
  /\ unsettled' = unsettled \cup {t[1] : t \in cascade.tasks \cup cut}
  /\ UNCHANGED <<version, overridden, hash, delivered, mirror, excused, owed>>

Between ==
  /\ phase = "idle" /\ count.launches < LaunchBound
  /\ count.meddles < MeddleBound
  /\ count' = [count EXCEPT !.meddles = @ + 1]
  /\ outcome' = "none"
  /\ UNCHANGED <<rec, hash, delivered, mirror, st, phase, walk, unsettled, owed>>

Edit(s) ==
  /\ Between /\ s \in Editable
  /\ version' = [version EXCEPT ![s] = @ + 1]
  /\ UNCHANGED <<overridden, made, excused>>

LoseOutput(t) ==
  /\ Between
  /\ made[t] # {}
  /\ made' = [made EXCEPT ![t] = {}]
  /\ UNCHANGED <<version, overridden, excused>>

(* The operator records a step as satisfied, or clears that. *)
Override(s) ==
  /\ Between
  /\ overridden' = IF s \in overridden THEN overridden \ {s} ELSE overridden \cup {s}
  /\ excused' = excused \cup {s}
  /\ UNCHANGED <<version, made>>

Judgement == \E s \in Step : PassOver(s) \/ Consider(s)
Renaming  == \E t \in Task : Rename(t)
Work      == \/ \E s \in Step : StartStep(s) \/ EndStep(s)
             \/ \E t \in Task : StartTask(t) \/ RefuseTask(t) \/ EndTask(t)
Turn      == Gather \/ EndLevel \/ EndWalk

(* The operator leaves it at that.  (So TLC's deadlock check is a check that *)
(* no walk gets stuck.)                                                    *)
Rest == phase = "idle" /\ UNCHANGED vars

Next ==
  \/ Rest
  \/ \E o \in Option : Launch(o)
  \/ Judgement \/ Renaming \/ Work \/ Turn
  \/ Interrupt
  \/ \E cut \in {{}} \cup {{t} : t \in Task} : Crash(cut)
  \/ \E s \in Step : Edit(s) \/ Override(s)
  \/ \E t \in Task : LoseOutput(t)

Spec == Init /\ [][Next]_vars

-----------------------------------------------------------------------------
(* Properties *)

Entries == [Step -> [state : States, hash : Nat]]
Records == {"none", "running", "completed", "failed", "stale"}

(* Each variable holds values of its kind: what the files and the memory of *)
(* the walk can be.                                                        *)
TypeOK ==
  /\ version \in [Step -> Nat \ {0}] /\ overridden \subseteq Step
  /\ rec \in [Task -> Records] /\ hash \in [Task -> Nat]
  /\ DOMAIN made = Task /\ DOMAIN delivered = Step
  /\ mirror \in Entries /\ st \in Entries /\ prior \in Entries
  /\ phase \in {"idle", "judging", "running"}
  /\ left \subseteq launch.walk /\ judged \subseteq Level /\ runnable \subseteq judged
  /\ cascade \in [root : Step \cup {Whole}, tasks : SUBSET Task]
  /\ blocked \subseteq launch.plan /\ tried \subseteq Task
  /\ outcome \in {"none", "clean", "partial", "failed", "crashed"}
  /\ excused \subseteq Step /\ unsettled \subseteq Step
  /\ owed \in [Step -> SUBSET (Item \cup {Whole})]

(* While a task runs, every need of its step that this walk covers has      *)
(* completed with its output in place, was skipped or overridden by the     *)
(* operator, or failed where the step tolerates it; in a chain the same     *)
(* item has passed the stages before.  (Level order, blocked_steps and     *)
(* propagate_failure together.)                                            *)
NeedsStand ==
  \A t \in Task : rec[t] = "running" /\ phase = "running" =>
    \A n \in Needs[t[1]] \cap launch.walk :
      \/ t[1] \in Rollup
      \/ n \in Collects[t[1]] \ left
      \/ Before(n, t[1]) /\ Done(<<n, t[2]>>)
      \/ \E h \in launch.skip \cup (overridden \ launch.forced) : n \in Members(h) /\ ~Absorbed(h)
      \/ st[n].state = "completed" /\ \A i \in Tasks(n) : Done(i)

(* process-status.yaml vouches for a step only if its task records do (in a *)
(* chain, of the items that had reached it when it ended), whatever was    *)
(* invalidated, interrupted or crashed since it was written.               *)
MirrorBacked ==
  \A s \in Step : mirror[s].state = "completed" /\ s \notin excused =>
    \A k \in owed[s] : rec[<<s, k>>] = "completed"

(* Steps whose outputs a clean walk does not answer for: those an operator  *)
(* overrode, skipped or forced alone; unsettled ones (an invalidation or a  *)
(* completion a crash cut short, a launch that left them out, a run over   *)
(* what no record vouched for); rollups, which are not run again; items    *)
(* kept on purpose below a changed document; edited stages of a chain,     *)
(* which only its head is judged for; and what depends on these.           *)
NotAnswered ==
  excused \cup unsettled \cup Rollup
    \cup {s \in Mapped : \E a \in Ancestors(s) : Collects[a] # {}}
    \cup {s \in Editable : \E c \in Chain : \E i \in DOMAIN c : i > 1 /\ c[i] = s}

Fresh(s) ==
  LET up == {s} \cup Ancestors(s)
  IN  {<<a, version[a], {}>> : a \in up} \cup UNION {{<<u, 0, Item>> : u \in Collects[a]} : a \in up}

(* When a whole walk reports every step completed, every output is what the *)
(* current definitions give over the current outputs of its needs: resuming *)
(* after edits, failures, lost outputs, partial walks, interrupts and      *)
(* crashes ends where a run from nothing would.                            *)
FreshWhenClean ==
  outcome = "clean" =>
    \A s \in Step : ({s} \cup Ancestors(s)) \cap NotAnswered = {} =>
      \A t \in Tasks(s) : made[t] = Fresh(s)

(* Running again, s would compute what it has, and so would all before it. *)
UpToDate(s) ==
  \A t \in UNION {Tasks(r) : r \in {s} \cup Ancestors(s)} :
    rec[t] = "completed" /\ made[t] = Consumed(t) /\ hash[t] = version[t[1]]

(* A walk that is not forced neither invalidates nor repeats a completed    *)
(* task that would compute what it has already.                            *)
FreshWorkKept ==
  [][\A t \in Task :
       rec[t] = "completed" /\ rec'[t] # "completed" /\ launch.forced = {}
       => ~UpToDate(t[1])]_vars
=============================================================================
