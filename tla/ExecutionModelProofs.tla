------------------------ MODULE ExecutionModelProofs ------------------------
(* Proofs about the reducer of execution_model/, for every step graph, item  *)
(* set, attempt set and retry policy.                                        *)
EXTENDS ExecutionModel, FiniteSetTheorems, TLAPS

-----------------------------------------------------------------------------
(* The inductive invariant, as a predicate on a RunState. *)

Commits(st) ==
  /\ \A c, d \in st.commits : c.task = d.task /\ c.generation = d.generation => c = d
  /\ \A k \in TaskKey : st.task[k].outcome = "succeeded"
                          <=> Committed(st, k, st.task[k].desired_generation)
  /\ \A c \in st.commits :
       /\ c.attempt \in Started(st)
       /\ st.attempts[c.attempt].disposition = "succeeded"
       /\ st.attempts[c.attempt].task = c.task
       /\ st.attempts[c.attempt].generation = c.generation
       /\ c.generation <= st.task[c.task].desired_generation

(* A task that was ever started or forced has a record. *)
Records(st) ==
  /\ \A i \in Started(st) : st.attempts[i].task \in st.recorded
  /\ \A k \in TaskKey : st.task[k].fence_epoch > 0 => k \in st.recorded

Sound(st) == st \in RunStateType /\ Commits(st) /\ Records(st)

(* A command was issued under an epoch its task has reached. *)
IssuedInv == \A cmd \in issued : cmd.fence_epoch <= state.task[cmd.task].fence_epoch

Inv == Sound(state) /\ issued \subseteq DispatchAttempt /\ IssuedInv

(* What one event may do to the run state: the history only grows, epochs    *)
(* only rise, and a settled outcome is kept, overtaken by a success, or      *)
(* dropped with its generation.                                              *)
Advances(st, new) ==
  /\ st.commits \subseteq new.commits
  /\ \A i \in Started(st) :
       /\ i \in Started(new)
       /\ st.attempts[i].disposition # "live" => new.attempts[i] = st.attempts[i]
       /\ new.attempts[i].task = st.attempts[i].task
       /\ new.attempts[i].generation = st.attempts[i].generation
  /\ \A k \in TaskKey : st.task[k].fence_epoch <= new.task[k].fence_epoch
  /\ \A k \in TaskKey : IsTerminal(st.task[k]) =>
       \/ /\ IsTerminal(new.task[k])
          /\ new.task[k].desired_generation = st.task[k].desired_generation
          /\ new.task[k].outcome \in {st.task[k].outcome, "succeeded"}
       \/ /\ new.task[k].desired_generation = st.task[k].desired_generation + 1
          /\ new.task[k].fence_epoch > st.task[k].fence_epoch

-----------------------------------------------------------------------------
(* What the record updates produce. *)

LEMMA SettledType ==
  ASSUME NEW rec \in TaskRecord, NEW o \in Outcome, NEW g \in Nat
  PROVE  /\ Settled(rec, o, g) \in TaskRecord
         /\ Settled(rec, o, g).outcome = o
         /\ Settled(rec, o, g).outcome_generation = g
         /\ Settled(rec, o, g).desired_generation = rec.desired_generation
         /\ Settled(rec, o, g).fence_epoch = rec.fence_epoch
         /\ Settled(rec, o, g).retry_at = rec.retry_at
  BY DEF Settled, TaskRecord

LEMMA TaskUpdate ==
  ASSUME NEW st \in RunStateType, NEW k \in TaskKey, NEW rec \in TaskRecord
  PROVE  LET new == WithTask(st, k, rec) IN
         /\ new \in RunStateType
         /\ new.task = [st.task EXCEPT ![k] = rec]
         /\ new.recorded = st.recorded \cup {k}
         /\ new.attempts = st.attempts
         /\ new.commits = st.commits
         /\ new.expansion = st.expansion
         /\ new.now = st.now
  BY DEF WithTask, RunStateType

LEMMA AttemptUpdate ==
  ASSUME NEW st \in RunStateType, NEW i \in AttemptId, NEW rec \in AttemptRecord
  PROVE  LET new == WithAttempt(st, i, rec) IN
         /\ new \in RunStateType
         /\ new.attempts = [st.attempts EXCEPT ![i] = rec]
         /\ new.task = st.task
         /\ new.recorded = st.recorded
         /\ new.commits = st.commits
         /\ new.expansion = st.expansion
         /\ new.now = st.now
  BY DEF WithAttempt, RunStateType

LEMMA StartedMeans ==
  ASSUME NEW st \in RunStateType, NEW i \in AttemptId
  PROVE  /\ i \in Started(st) <=> st.attempts[i].disposition # "unstarted"
         /\ i \in Started(st) <=> st.attempts[i] \in AttemptRecord
  BY DEF Started, RunStateType, AttemptRecord, Unstarted, Ending

-----------------------------------------------------------------------------
(* Skipping the blocked tasks keeps the run state sound. *)
LEMMA SkipSound ==
  ASSUME NEW st, Sound(st), NEW D \in SUBSET Open(st)
  PROVE  /\ Sound(SkipAll(st, D))
         /\ SkipAll(st, D).attempts = st.attempts
         /\ SkipAll(st, D).commits = st.commits
         /\ st.recorded \subseteq SkipAll(st, D).recorded
         /\ \A k \in TaskKey :
              /\ SkipAll(st, D).task[k].fence_epoch = st.task[k].fence_epoch
              /\ SkipAll(st, D).task[k].desired_generation = st.task[k].desired_generation
              /\ \/ SkipAll(st, D).task[k] = st.task[k]
                 \/ ~ IsTerminal(st.task[k]) /\ ~ Committed(st, k, st.task[k].desired_generation)
<1> DEFINE new == SkipAll(st, D)
<1>1. D \subseteq TaskKey
  BY DEF Open, Materialized
<1> DEFINE recs == [k \in TaskKey |->
                     IF k \in D THEN Settled(st.task[k], "skipped", st.task[k].desired_generation)
                     ELSE st.task[k]]
<1>1a. recs \in [TaskKey -> TaskRecord]
  <2> SUFFICES ASSUME NEW k \in TaskKey
               PROVE  recs[k] \in TaskRecord
    OBVIOUS
  <2>1. st.task[k] \in TaskRecord
    BY DEF Sound, RunStateType
  <2>2. st.task[k].desired_generation \in Nat
    BY <2>1 DEF TaskRecord
  <2> QED
    BY <2>1, <2>2, SettledType DEF Outcome
<1>2. new \in RunStateType
  <2> HIDE DEF recs
  <2> QED
    BY <1>1, <1>1a DEF SkipAll, RunStateType, Sound, recs
<1>3. /\ new.attempts = st.attempts
      /\ new.commits = st.commits
      /\ st.recorded \subseteq new.recorded
  BY DEF SkipAll, RunStateType, Sound
<1>4. \A k \in TaskKey :
        /\ new.task[k].fence_epoch = st.task[k].fence_epoch
        /\ new.task[k].desired_generation = st.task[k].desired_generation
        /\ \/ new.task[k] = st.task[k]
           \/ /\ ~ IsTerminal(st.task[k])
              /\ ~ Committed(st, k, st.task[k].desired_generation)
              /\ new.task[k].outcome = "skipped"
  BY DEF SkipAll, RunStateType, Sound, Settled, TaskRecord, Open
<1>5. Commits(new)
  BY <1>3, <1>4 DEF Commits, Sound, Committed, Started, RunStateType, CommitRecord
<1>6. Records(new)
  BY <1>3, <1>4 DEF Records, Sound, Started
<1> QED
  BY <1>2, <1>3, <1>4, <1>5, <1>6 DEF Sound

(* An event followed by settlement advances the run state if the event does. *)
LEMMA SkipAdvances ==
  ASSUME NEW st, Sound(st), NEW mid, Sound(mid), Advances(st, mid),
         NEW D \in SUBSET Open(mid)
  PROVE  Advances(st, SkipAll(mid, D))
<1> DEFINE new == SkipAll(mid, D)
<1>1. /\ new.attempts = mid.attempts
      /\ new.commits = mid.commits
      /\ \A k \in TaskKey :
           /\ new.task[k].fence_epoch = mid.task[k].fence_epoch
           /\ new.task[k].desired_generation = mid.task[k].desired_generation
           /\ new.task[k] = mid.task[k] \/ ~ IsTerminal(mid.task[k])
  BY SkipSound
<1> HIDE DEF new
<1>2. Advances(st, new)
  BY <1>1 DEF Advances, Started
<1> QED
  BY <1>2 DEF new

-----------------------------------------------------------------------------
(* Each event keeps the run state sound and advances it. *)

LEMMA ExpansionSound ==
  ASSUME NEW st, Sound(st), NEW s \in Step, NEW rec \in ExpansionRecord
  PROVE  LET new == WithExpansion(st, s, rec) IN Sound(new) /\ Advances(st, new)
<1> DEFINE new == WithExpansion(st, s, rec)
<1>1. /\ new \in RunStateType
      /\ new.task = st.task
      /\ new.recorded = st.recorded
      /\ new.attempts = st.attempts
      /\ new.commits = st.commits
  BY DEF WithExpansion, Sound, RunStateType
<1> HIDE DEF new
<1>2. Sound(new)
  BY <1>1 DEF Sound, Commits, Records, Committed, Started
<1>3. \A k \in TaskKey : st.task[k].fence_epoch \in Nat
  BY DEF Sound, RunStateType, TaskRecord
<1>4. Advances(st, new)
  BY <1>1, <1>3 DEF Advances, Started
<1> QED
  BY <1>2, <1>4 DEF new

LEMMA TickSound ==
  ASSUME NEW st, Sound(st)
  PROVE  LET new == [st EXCEPT !.now = st.now + 1] IN Sound(new) /\ Advances(st, new)
<1> DEFINE new == [st EXCEPT !.now = st.now + 1]
<1>1. /\ new \in RunStateType
      /\ new.task = st.task
      /\ new.recorded = st.recorded
      /\ new.attempts = st.attempts
      /\ new.commits = st.commits
  BY DEF Sound, RunStateType
<1> HIDE DEF new
<1>2. Sound(new)
  BY <1>1 DEF Sound, Commits, Records, Committed, Started
<1>3. \A k \in TaskKey : st.task[k].fence_epoch \in Nat
  BY DEF Sound, RunStateType, TaskRecord
<1>4. Advances(st, new)
  BY <1>1, <1>3 DEF Advances, Started
<1> QED
  BY <1>2, <1>4 DEF new

LEMMA StartSound ==
  ASSUME NEW st, Sound(st), NEW i \in AttemptId, NEW start \in DispatchAttempt,
         start.fence_epoch = st.task[start.task].fence_epoch \/ start.task \in st.recorded,
         i \in Started(st) => /\ start.task = st.attempts[i].task
                              /\ start.generation = st.attempts[i].generation
  PROVE  LET new == ApplyAttemptStarted(st, i, start) IN Sound(new) /\ Advances(st, new)
<1> DEFINE new == ApplyAttemptStarted(st, i, start)
           k == start.task
           kept == [st.task[k] EXCEPT !.retry_at = 0]
           cleared == IF st.task[k].fence_epoch = start.fence_epoch
                      THEN WithTask(st, k, kept) ELSE st
           rec == [task |-> k, generation |-> start.generation,
                   fence_epoch |-> start.fence_epoch, disposition |-> "live"]
<1>0. \A t \in TaskKey : st.task[t].fence_epoch \in Nat /\ st.task[t] \in TaskRecord
  BY DEF Sound, RunStateType, TaskRecord
<1>1. CASE i \in Started(st) /\ st.attempts[i].disposition # "live"
  <2>1. new = st
    BY <1>1 DEF ApplyAttemptStarted
  <2> QED
    BY <2>1, <1>0 DEF Advances
<1>2. CASE ~ (i \in Started(st) /\ st.attempts[i].disposition # "live")
  <2>1. k \in TaskKey /\ rec \in AttemptRecord
    BY DEF DispatchAttempt, AttemptRecord
  <2>2. /\ kept \in TaskRecord
        /\ kept.outcome = st.task[k].outcome
        /\ kept.outcome_generation = st.task[k].outcome_generation
        /\ kept.desired_generation = st.task[k].desired_generation
        /\ kept.fence_epoch = st.task[k].fence_epoch
    BY <1>0, <2>1 DEF TaskRecord
  <2> HIDE DEF kept
  <2>3. /\ cleared \in RunStateType
        /\ cleared.attempts = st.attempts
        /\ cleared.commits = st.commits
        /\ cleared.recorded = st.recorded \cup {k}
        /\ \A t \in TaskKey : /\ cleared.task[t].outcome = st.task[t].outcome
                              /\ cleared.task[t].outcome_generation = st.task[t].outcome_generation
                              /\ cleared.task[t].desired_generation = st.task[t].desired_generation
                              /\ cleared.task[t].fence_epoch = st.task[t].fence_epoch
    <3>1. CASE st.task[k].fence_epoch = start.fence_epoch
      <4>1. st.task \in [TaskKey -> TaskRecord]
        BY DEF Sound, RunStateType
      <4>2. /\ cleared \in RunStateType
            /\ cleared.task = [st.task EXCEPT ![k] = kept]
            /\ cleared.recorded = st.recorded \cup {k}
            /\ cleared.attempts = st.attempts
            /\ cleared.commits = st.commits
        BY <3>1, <2>1, <2>2, TaskUpdate DEF Sound
      <4> QED
        BY <4>1, <4>2, <2>2
    <3>2. CASE st.task[k].fence_epoch # start.fence_epoch
      BY <3>2 DEF Sound
    <3> QED
      BY <3>1, <3>2
  <2>4. new = WithAttempt(cleared, i, rec)
    BY <1>2 DEF ApplyAttemptStarted, kept
  <2> HIDE DEF cleared, new
  <2>5. /\ new \in RunStateType
        /\ new.attempts = [st.attempts EXCEPT ![i] = rec]
        /\ new.commits = st.commits
        /\ new.recorded = st.recorded \cup {k}
        /\ new.task = cleared.task
    BY <2>1, <2>3, <2>4, AttemptUpdate
  <2>6. /\ st.attempts \in [AttemptId -> AttemptRecord \cup {Unstarted}]
        /\ st.commits \subseteq CommitRecord
    BY DEF Sound, RunStateType
  <2>7. Started(new) = Started(st) \cup {i}
    BY <2>1, <2>5, <2>6 DEF Started, AttemptRecord, Unstarted
  <2>8. Commits(new)
    <3>1. \A c \in st.commits : c.attempt # i
      BY <1>2, StartedMeans DEF Sound, Commits
    <3> QED
      BY <2>3, <2>5, <2>6, <2>7, <3>1 DEF Commits, Committed, Sound, CommitRecord
  <2>9. Records(new)
    BY <2>1, <2>3, <2>5, <2>6, <2>7 DEF Records, Sound
  <2>10. Advances(st, new)
    BY <1>0, <1>2, <2>1, <2>3, <2>5, <2>6, <2>7 DEF Advances, IsTerminal, Started
  <2> QED
    BY <2>5, <2>8, <2>9, <2>10 DEF Sound, new
<1> QED
  BY <1>1, <1>2

(* The number of tries is within the attempt ids, so the backoff is defined. *)
LEMMA CountType ==
  ASSUME NEW st, NEW k, NEW g
  PROVE  AttemptCount(st, k, g) \in 0..Cardinality(AttemptId)
<1> DEFINE S == {i \in Started(st) : st.attempts[i].task = k /\ st.attempts[i].generation = g}
<1>1. S \subseteq AttemptId
  BY DEF Started
<1>2. IsFiniteSet(AttemptId)
  BY ConstantsAssumption
<1>3. /\ IsFiniteSet(S)
      /\ Cardinality(S) \in Nat
      /\ Cardinality(AttemptId) \in Nat
      /\ Cardinality(S) <= Cardinality(AttemptId)
  BY <1>1, <1>2, FS_Subset, FS_CardinalityType
<1> QED
  BY <1>3 DEF AttemptCount

LEMMA EndedType ==
  ASSUME NEW st \in RunStateType, NEW attempt \in AttemptRecord, NEW d \in Ending
  PROVE  LET rec == st.task[attempt.task]
             new == EndedRecord(st, attempt, d)
         IN  /\ new \in TaskRecord
             /\ new.desired_generation = rec.desired_generation
             /\ new.fence_epoch = rec.fence_epoch
             /\ d = "succeeded" => /\ new.outcome = "succeeded"
                                   /\ new.outcome_generation = attempt.generation
             /\ d # "succeeded" => new.outcome \in {rec.outcome, "cancelled", "failed"}
             /\ \/ /\ new.outcome = rec.outcome
                   /\ new.outcome_generation = rec.outcome_generation
                   /\ ~ OutOfTries(st, attempt.task, attempt.generation)
                \/ /\ new.outcome \in {"succeeded", "cancelled", "failed"}
                   /\ new.outcome_generation = attempt.generation
<1> DEFINE rec == st.task[attempt.task]
           tries == AttemptCount(st, attempt.task, attempt.generation)
           delayed == [rec EXCEPT !.retry_at = st.now + DelayFor(tries)]
<1>1. rec \in TaskRecord /\ attempt.generation \in Nat /\ st.now \in Nat
  BY DEF RunStateType, AttemptRecord
<1>2. tries \in 0..Cardinality(AttemptId)
  BY CountType
<1> HIDE DEF tries
<1>3. DelayFor(tries) \in Nat
  BY <1>2, DelayAssumption
<1>4. /\ delayed \in TaskRecord
      /\ delayed.desired_generation = rec.desired_generation
      /\ delayed.fence_epoch = rec.fence_epoch
      /\ delayed.outcome = rec.outcome
      /\ delayed.outcome_generation = rec.outcome_generation
  <2> DEFINE at == st.now + DelayFor(tries)
  <2>1. at \in Nat
    BY <1>1, <1>3
  <2> HIDE DEF at
  <2>2. [rec EXCEPT !.retry_at = at] \in TaskRecord
    BY <1>1, <2>1 DEF TaskRecord
  <2>3. /\ [rec EXCEPT !.retry_at = at].desired_generation = rec.desired_generation
        /\ [rec EXCEPT !.retry_at = at].fence_epoch = rec.fence_epoch
        /\ [rec EXCEPT !.retry_at = at].outcome = rec.outcome
        /\ [rec EXCEPT !.retry_at = at].outcome_generation = rec.outcome_generation
    BY <1>1 DEF TaskRecord
  <2> QED
    BY <2>2, <2>3 DEF at
<1>4a. \A o \in {"succeeded", "cancelled", "failed"} :
        LET done == Settled(rec, o, attempt.generation) IN
        /\ done \in TaskRecord
        /\ done.outcome = o
        /\ done.outcome_generation = attempt.generation
        /\ done.desired_generation = rec.desired_generation
        /\ done.fence_epoch = rec.fence_epoch
  <2> HIDE DEF rec
  <2> SUFFICES ASSUME NEW o \in Outcome
               PROVE  LET done == Settled(rec, o, attempt.generation) IN
                      /\ done \in TaskRecord
                      /\ done.outcome = o
                      /\ done.outcome_generation = attempt.generation
                      /\ done.desired_generation = rec.desired_generation
                      /\ done.fence_epoch = rec.fence_epoch
    BY DEF Outcome
  <2> QED
    BY <1>1, SettledType
<1>5. CASE d = "succeeded"
  <2> DEFINE done == Settled(rec, "succeeded", attempt.generation)
  <2>1. /\ done \in TaskRecord
        /\ done.outcome = "succeeded"
        /\ done.outcome_generation = attempt.generation
        /\ done.desired_generation = rec.desired_generation
        /\ done.fence_epoch = rec.fence_epoch
    BY <1>4a
  <2>2. EndedRecord(st, attempt, d) = [done EXCEPT !.retry_at = 0]
    BY <1>5 DEF EndedRecord
  <2> HIDE DEF done
  <2> QED
    BY <1>5, <2>1, <2>2 DEF TaskRecord
<1>6. CASE d = "cancelled"
  <2>1. EndedRecord(st, attempt, d) = Settled(rec, "cancelled", attempt.generation)
    BY <1>6 DEF EndedRecord
  <2> QED
    BY <1>1, <1>6, <2>1, <1>4a
<1>7. CASE d = "permanent"
  <2>1. EndedRecord(st, attempt, d) = Settled(rec, "failed", attempt.generation)
    BY <1>7 DEF EndedRecord
  <2> QED
    BY <1>1, <1>7, <2>1, <1>4a
<1>8. CASE d \in {"retryable", "lost"}
  <2>1. EndedRecord(st, attempt, d) = IF OutOfTries(st, attempt.task, attempt.generation)
                                      THEN Settled(rec, "failed", attempt.generation)
                                      ELSE delayed
    BY <1>8 DEF EndedRecord, tries
  <2> HIDE DEF delayed
  <2> QED
    BY <1>1, <1>4, <1>8, <2>1, <1>4a
<1> QED
  BY <1>5, <1>6, <1>7, <1>8 DEF Ending

LEMMA EndSound ==
  ASSUME NEW st, Sound(st), NEW i \in AttemptId, NEW d \in Ending
  PROVE  LET new == ApplyAttemptEnded(st, i, d) IN Sound(new) /\ Advances(st, new)
<1> DEFINE new     == ApplyAttemptEnded(st, i, d)
           attempt == st.attempts[i]
           k       == attempt.task
           over    == [attempt EXCEPT !.disposition = d]
           ended   == WithAttempt(st, i, over)
           commit  == [task |-> k, generation |-> attempt.generation, attempt |-> i]
           rec     == EndedRecord(ended, attempt, d)
           marked  == WithTask(ended, k, rec)
<1>0. /\ \A t \in TaskKey : /\ st.task[t].fence_epoch \in Nat
                            /\ st.task[t].desired_generation \in Nat
                            /\ st.task[t] \in TaskRecord
      /\ st.attempts \in [AttemptId -> AttemptRecord \cup {Unstarted}]
      /\ st.task \in [TaskKey -> TaskRecord]
      /\ st.commits \subseteq CommitRecord
  BY DEF Sound, RunStateType, TaskRecord
<1>1. CASE i \notin Started(st) \/ attempt.disposition # "live"
  <2>1. new = st
    BY <1>1 DEF ApplyAttemptEnded
  <2> QED
    BY <2>1, <1>0 DEF Advances
<1>2. CASE ~ (i \notin Started(st) \/ attempt.disposition # "live")
  <2>1. attempt \in AttemptRecord /\ k \in TaskKey
    BY <1>2, StartedMeans DEF Sound, AttemptRecord
  <2>2. /\ over \in AttemptRecord
        /\ over.task = k
        /\ over.generation = attempt.generation
        /\ over.disposition = d
    BY <2>1 DEF AttemptRecord
  <2> HIDE DEF over
  <2>3. /\ ended \in RunStateType
        /\ ended.attempts = [st.attempts EXCEPT ![i] = over]
        /\ ended.task = st.task
        /\ ended.recorded = st.recorded
        /\ ended.commits = st.commits
    BY <2>2, AttemptUpdate DEF Sound
  <2>4. Started(ended) = Started(st)
    BY <1>0, <1>2, <2>2, <2>3 DEF Started, AttemptRecord, Unstarted
  <2>5. /\ \A c \in st.commits : c.attempt # i
        /\ k \in st.recorded
    BY <1>2 DEF Sound, Commits, Records
  <2>6. Sound(ended)
    <3>1. Commits(ended)
      BY <1>0, <2>3, <2>4, <2>5 DEF Sound, Commits, Committed, CommitRecord
    <3>2. Records(ended)
      BY <1>0, <2>2, <2>3, <2>4 DEF Sound, Records
    <3> QED
      BY <2>3, <3>1, <3>2 DEF Sound
  <2>7. Advances(st, ended)
    BY <1>0, <1>2, <2>2, <2>3, <2>4 DEF Advances
  <2>8. CASE ~ EndingCounts(ended, attempt, d)
    <3>1. new = ended
      BY <1>2, <2>8 DEF ApplyAttemptEnded, over
    <3> QED
      BY <3>1, <2>6, <2>7
  <2>9. CASE EndingCounts(ended, attempt, d)
    <3>1. /\ attempt.generation = st.task[k].desired_generation
          /\ ~ Committed(st, k, st.task[k].desired_generation)
          /\ d # "succeeded" => ~ IsTerminal(st.task[k])
      BY <2>3, <2>9 DEF EndingCounts, Superseded, Committed
    <3>2. /\ rec \in TaskRecord
          /\ rec.desired_generation = st.task[k].desired_generation
          /\ rec.fence_epoch = st.task[k].fence_epoch
          /\ d = "succeeded" => /\ rec.outcome = "succeeded"
                                /\ rec.outcome_generation = attempt.generation
          /\ d # "succeeded" => rec.outcome \in {st.task[k].outcome, "cancelled", "failed"}
      BY <2>1, <2>3, EndedType
    <3> HIDE DEF rec, ended
    <3>3. /\ marked \in RunStateType
          /\ marked.task = [st.task EXCEPT ![k] = rec]
          /\ marked.recorded = st.recorded
          /\ marked.attempts = ended.attempts
          /\ marked.commits = st.commits
      <4> HIDE DEF k
      <4>1. /\ marked \in RunStateType
            /\ marked.task = [ended.task EXCEPT ![k] = rec]
            /\ marked.recorded = ended.recorded \cup {k}
            /\ marked.attempts = ended.attempts
            /\ marked.commits = ended.commits
        BY <2>1, <2>3, <3>2, TaskUpdate
      <4> QED
        BY <2>3, <2>5, <4>1
    <3>4. st.task[k].outcome # "succeeded"
      BY <2>1, <3>1 DEF Sound, Commits
    <3>7. \A t \in TaskKey : marked.task[t] = IF t = k THEN rec ELSE st.task[t]
      BY <1>0, <3>3
    <3> HIDE DEF marked
    <3>5. CASE d # "succeeded"
      <4>1. new = marked
        BY <1>2, <2>9, <3>5 DEF ApplyAttemptEnded, over, ended, rec, marked
      <4>2. Started(marked) = Started(st)
        BY <2>4, <3>3 DEF Started
      <4>3. rec.outcome # "succeeded"
        BY <3>2, <3>4, <3>5
      <4>4. Commits(marked)
        <5> HIDE DEF k, attempt
        <5>1. \A t \in TaskKey :
                /\ marked.task[t].outcome = "succeeded" <=> st.task[t].outcome = "succeeded"
                /\ marked.task[t].desired_generation = st.task[t].desired_generation
          BY <3>2, <3>4, <3>7, <4>3
        <5>2. Commits(ended)
          BY <2>6 DEF Sound
        <5> QED
          BY <1>0, <2>3, <2>4, <3>3, <4>2, <5>1, <5>2 DEF Commits, Committed, CommitRecord
      <4>5. Records(marked)
        BY <1>0, <2>1, <2>3, <2>4, <2>5, <2>6, <3>2, <3>3, <4>2 DEF Sound, Records
      <4>6. Advances(st, marked)
        <5> HIDE DEF k, attempt
        <5>1. \A t \in TaskKey :
                /\ marked.task[t].fence_epoch = st.task[t].fence_epoch
                /\ IsTerminal(st.task[t]) => marked.task[t] = st.task[t]
          BY <3>1, <3>2, <3>5, <3>7
        <5> QED
          BY <1>0, <2>3, <2>4, <2>7, <3>3, <4>2, <5>1 DEF Advances
      <4> QED
        BY <3>3, <4>1, <4>4, <4>5, <4>6 DEF Sound
    <3>6. CASE d = "succeeded"
      <4>1. new = [marked EXCEPT !.commits = marked.commits \cup {commit}]
        BY <1>2, <2>9, <3>6 DEF ApplyAttemptEnded, over, ended, rec, marked
      <4>2. commit \in CommitRecord
        BY <2>1 DEF CommitRecord, AttemptRecord
      <4> HIDE DEF new, commit
      <4>3. /\ new \in RunStateType
            /\ new.task = [st.task EXCEPT ![k] = rec]
            /\ new.recorded = st.recorded
            /\ new.attempts = ended.attempts
            /\ new.commits = st.commits \cup {commit}
        BY <3>3, <4>1, <4>2 DEF RunStateType
      <4>4. Started(new) = Started(st)
        BY <2>4, <4>3 DEF Started
      <4>5. /\ commit.task = k /\ commit.generation = attempt.generation
            /\ commit.attempt = i
        BY DEF commit
      <4>6. Commits(new)
        <5>1. \A c \in st.commits : ~ (c.task = k /\ c.generation = attempt.generation)
          BY <3>1 DEF Committed
        <5>2. \A c, e \in new.commits : c.task = e.task /\ c.generation = e.generation => c = e
          BY <4>3, <4>5, <5>1 DEF Sound, Commits
        <5>3. \A t \in TaskKey : new.task[t].outcome = "succeeded"
                                   <=> Committed(new, t, new.task[t].desired_generation)
          BY <1>0, <2>1, <3>1, <3>2, <3>6, <4>3, <4>5 DEF Sound, Commits, Committed
        <5>4. \A c \in new.commits :
                /\ c.attempt \in Started(new)
                /\ new.attempts[c.attempt].disposition = "succeeded"
                /\ new.attempts[c.attempt].task = c.task
                /\ new.attempts[c.attempt].generation = c.generation
                /\ c.generation <= new.task[c.task].desired_generation
          BY <1>0, <1>2, <2>1, <2>2, <2>3, <2>5, <3>1, <3>2, <3>6, <4>3, <4>4, <4>5
             DEF Sound, Commits, CommitRecord
        <5> QED
          BY <5>2, <5>3, <5>4 DEF Commits
      <4>7. Records(new)
        BY <1>0, <2>1, <2>3, <2>4, <2>5, <2>6, <3>2, <4>3, <4>4 DEF Sound, Records
      <4>8. Advances(st, new)
        <5>1. IsTerminal(rec)
          BY <3>1, <3>2, <3>6 DEF IsTerminal
        <5> QED
          <6> HIDE DEF k, attempt
          <6>1. \A t \in TaskKey :
                  /\ new.task[t].fence_epoch = st.task[t].fence_epoch
                  /\ new.task[t].desired_generation = st.task[t].desired_generation
                  /\ IsTerminal(st.task[t]) => /\ IsTerminal(new.task[t])
                                               /\ new.task[t].outcome \in {st.task[t].outcome, "succeeded"}
            BY <1>0, <3>2, <3>6, <4>3, <5>1
          <6> QED
            BY <1>0, <2>3, <2>4, <2>7, <4>3, <4>4, <6>1 DEF Advances
      <4> QED
        BY <4>3, <4>6, <4>7, <4>8 DEF Sound, new
    <3> QED
      BY <3>5, <3>6
  <2> QED
    BY <2>8, <2>9
<1> QED
  BY <1>1, <1>2

LEMMA ForceSound ==
  ASSUME NEW st, Sound(st), NEW k \in TaskKey
  PROVE  LET new == ApplyForce(st, k) IN Sound(new) /\ Advances(st, new)
<1> DEFINE hit  == Cascade(st, k)
           new  == ApplyForce(st, k)
           Bumped(t) == [desired_generation |-> st.task[t].desired_generation + 1,
                         fence_epoch |-> st.task[t].fence_epoch + 1,
                         outcome |-> "none", outcome_generation |-> 0, retry_at |-> 0]
           recs == [t \in TaskKey |-> IF t \in hit THEN Bumped(t) ELSE st.task[t]]
<1>0. /\ st.task \in [TaskKey -> TaskRecord]
      /\ st.recorded \subseteq TaskKey
      /\ st.commits \subseteq CommitRecord
      /\ \A t \in TaskKey : /\ st.task[t].fence_epoch \in Nat
                            /\ st.task[t].desired_generation \in Nat \ {0}
  BY DEF Sound, RunStateType, TaskRecord
<1>1. hit \subseteq TaskKey
  BY <1>0 DEF Cascade
<1> HIDE DEF hit
<1>2. \A t \in TaskKey : Bumped(t) \in TaskRecord
  BY <1>0 DEF TaskRecord
<1>3. recs \in [TaskKey -> TaskRecord]
  BY <1>0, <1>2
<1>4. \A t \in TaskKey :
        /\ t \notin hit => recs[t] = st.task[t]
        /\ t \in hit => /\ recs[t].desired_generation = st.task[t].desired_generation + 1
                        /\ recs[t].fence_epoch = st.task[t].fence_epoch + 1
                        /\ recs[t].outcome = "none"
  OBVIOUS
<1>5. new = [st EXCEPT !.recorded = st.recorded \cup hit, !.task = recs]
  BY DEF ApplyForce, hit
<1> HIDE DEF recs, new
<1>6. /\ new \in RunStateType
      /\ new.task = recs
      /\ new.recorded = st.recorded \cup hit
      /\ new.attempts = st.attempts
      /\ new.commits = st.commits
  BY <1>0, <1>1, <1>3, <1>5 DEF Sound, RunStateType
<1>7. Commits(new)
  <2>1. \A t \in TaskKey : t \in hit => ~ Committed(st, t, recs[t].desired_generation)
    BY <1>0, <1>4 DEF Sound, Commits, Committed, CommitRecord
  <2>2. \A t \in TaskKey : new.task[t].outcome = "succeeded"
                             <=> Committed(new, t, new.task[t].desired_generation)
    BY <1>4, <1>6, <2>1 DEF Sound, Commits, Committed
  <2>3. \A c \in new.commits : c.generation <= new.task[c.task].desired_generation
    BY <1>0, <1>4, <1>6 DEF Sound, Commits, CommitRecord
  <2> QED
    BY <1>6, <2>2, <2>3 DEF Sound, Commits, Started
<1>8. Records(new)
  BY <1>0, <1>4, <1>6 DEF Sound, Records, Started
<1>9. Advances(st, new)
  BY <1>0, <1>4, <1>6 DEF Advances, Started
<1> QED
  BY <1>6, <1>7, <1>8, <1>9 DEF Sound, new

-----------------------------------------------------------------------------
(* Settlement: BlockedSet is the least set closed under blocking, and being  *)
(* the intersection of the closed sets it is closed itself, because skipping *)
(* more tasks can only kill more clauses.                                    *)

(* Skipping more tasks makes no upstream satisfiable again. *)
LEMMA UnsatisfiableMonotone ==
  ASSUME NEW st, Sound(st), NEW D \in SUBSET Open(st), NEW E \in SUBSET Open(st), D \subseteq E,
         NEW u \in TaskKey, NEW requirement,
         PermanentlyUnsatisfiable(SkipAll(st, D), u, requirement)
  PROVE  PermanentlyUnsatisfiable(SkipAll(st, E), u, requirement)
<1>1. /\ SkipAll(st, D).attempts = st.attempts
      /\ SkipAll(st, E).attempts = st.attempts
  BY SkipSound
<1>2. /\ Live(SkipAll(st, D), u) = Live(st, u)
      /\ Live(SkipAll(st, E), u) = Live(st, u)
      /\ LiveAttempt(SkipAll(st, D), u) = LiveAttempt(st, u)
      /\ LiveAttempt(SkipAll(st, E), u) = LiveAttempt(st, u)
  BY <1>1 DEF Live, LiveAttempt, Started
<1>3. /\ SkipAll(st, E).task[u] =
             IF u \in E THEN Settled(st.task[u], "skipped", st.task[u].desired_generation)
             ELSE st.task[u]
      /\ SkipAll(st, D).task[u] =
             IF u \in D THEN Settled(st.task[u], "skipped", st.task[u].desired_generation)
             ELSE st.task[u]
  BY DEF SkipAll, Sound, RunStateType
<1>4. CASE u \in E
  <2>1. Live(st, u) = {} /\ ~ IsTerminal(st.task[u])
    BY <1>4 DEF Open
  <2>2. st.task[u] \in TaskRecord /\ st.task[u].desired_generation \in Nat
    BY DEF Sound, RunStateType, TaskRecord
  <2>3. /\ SkipAll(st, E).task[u].outcome = "skipped"
        /\ SkipAll(st, E).task[u].outcome_generation = SkipAll(st, E).task[u].desired_generation
    <3>1. SkipAll(st, E).task[u] = Settled(st.task[u], "skipped", st.task[u].desired_generation)
      BY <1>3, <1>4
    <3>2. "skipped" \in Outcome
      BY DEF Outcome
    <3> QED
      BY <2>2, <3>1, <3>2, SettledType
  <2> QED
    BY <1>2, <2>1, <2>3 DEF PermanentlyUnsatisfiable, IsTerminal
<1>5. CASE u \notin E
  BY <1>2, <1>3, <1>5 DEF PermanentlyUnsatisfiable
<1> QED
  BY <1>4, <1>5

LEMMA DeadMonotone ==
  ASSUME NEW st, Sound(st), NEW D \in SUBSET Open(st), NEW E \in SUBSET Open(st), D \subseteq E,
         NEW k \in TaskKey, NEW c,
         ClauseDead(SkipAll(st, D), k, c)
  PROVE  ClauseDead(SkipAll(st, E), k, c)
<1>1. /\ SkipAll(st, D).expansion = st.expansion
      /\ SkipAll(st, E).expansion = st.expansion
  BY DEF SkipAll, Sound, RunStateType
<1>2. /\ RosterKnown(SkipAll(st, D), k, c) <=> RosterKnown(SkipAll(st, E), k, c)
      /\ RelatedKeys(SkipAll(st, D), k, c) = RelatedKeys(SkipAll(st, E), k, c)
  BY <1>1 DEF RosterKnown, RelatedKeys, IsClosed
<1>3. CASE c.upstream \notin Step
  BY <1>3 DEF ClauseDead
<1>4. CASE c.upstream \in Step
  <2>1. RelatedKeys(st, k, c) \subseteq TaskKey
    <3>1. CASE c.upstream \in Expanding
      <4>1. st.expansion[c.upstream].keys \subseteq Item
        BY <1>4 DEF Sound, RunStateType, ExpansionRecord
      <4> SUFFICES ASSUME NEW u \in RelatedKeys(st, k, c)
                   PROVE  u \in TaskKey
        OBVIOUS
      <4>2. PICK i \in st.expansion[c.upstream].keys : u = [step |-> c.upstream, item |-> i]
        BY <3>1 DEF RelatedKeys
      <4>3. i \in Item /\ i # NoItem
        BY <4>1, ConstantsAssumption
      <4> QED
        BY <1>4, <3>1, <4>2, <4>3 DEF TaskKey
    <3>2. CASE c.upstream \notin Expanding
      BY <1>4, <3>2 DEF RelatedKeys, TaskKey
    <3> QED
      BY <3>1, <3>2
  <2>2. RelatedKeys(SkipAll(st, D), k, c) = RelatedKeys(st, k, c)
    BY <1>1 DEF RelatedKeys
  <2>3. \A u \in RelatedKeys(st, k, c) :
          PermanentlyUnsatisfiable(SkipAll(st, D), u, c.requirement)
            => PermanentlyUnsatisfiable(SkipAll(st, E), u, c.requirement)
    BY <2>1, UnsatisfiableMonotone
  <2> QED
    BY <1>2, <1>4, <2>2, <2>3 DEF ClauseDead
<1> QED
  BY <1>3, <1>4

LEMMA BlockedSetClosed ==
  ASSUME NEW st, Sound(st)
  PROVE  ClosedUnderBlocking(st, BlockedSet(st))
<1> DEFINE B == BlockedSet(st)
<1>1. B \in SUBSET Open(st)
  BY DEF BlockedSet
<1> SUFFICES ASSUME NEW k \in Open(st) \ B, NEW c \in Clause[k.step],
                    ClauseDead(SkipAll(st, B), k, c)
             PROVE  FALSE
  BY DEF ClosedUnderBlocking
<1>2. PICK D \in SUBSET Open(st) : ClosedUnderBlocking(st, D) /\ k \notin D
  BY DEF BlockedSet
<1>3. B \subseteq D
  BY <1>2 DEF BlockedSet
<1>4. k \in TaskKey
  BY DEF Open, Materialized
<1>5. ClauseDead(SkipAll(st, D), k, c)
  BY <1>1, <1>2, <1>3, <1>4, DeadMonotone
<1> QED
  BY <1>2, <1>5 DEF ClosedUnderBlocking

LEMMA SettleLeavesNoneBlocked ==
  ASSUME NEW st, Sound(st)
  PROVE  \A k \in TaskKey : TaskState(SettleBlocked(st), k) # "blocked"
<1> DEFINE B == BlockedSet(st)
           new == SkipAll(st, B)
<1>1. B \in SUBSET Open(st)
  BY DEF BlockedSet
<1>2. /\ new.attempts = st.attempts
      /\ new.commits = st.commits
      /\ new.expansion = st.expansion
      /\ \A k \in TaskKey :
           /\ new.task[k].desired_generation = st.task[k].desired_generation
           /\ k \notin B => new.task[k] = st.task[k]
           /\ k \in B => new.task[k].outcome = "skipped" /\ IsTerminal(new.task[k])
  <2>1. /\ new.attempts = st.attempts
        /\ new.commits = st.commits
        /\ \A k \in TaskKey : new.task[k].desired_generation = st.task[k].desired_generation
    BY <1>1, SkipSound
  <2>2. new.expansion = st.expansion
    BY DEF SkipAll, Sound, RunStateType
  <2>3. \A k \in TaskKey :
          new.task[k] = IF k \in B THEN Settled(st.task[k], "skipped", st.task[k].desired_generation)
                        ELSE st.task[k]
    BY DEF SkipAll, Sound, RunStateType
  <2>4. \A k \in TaskKey : st.task[k] \in TaskRecord /\ st.task[k].desired_generation \in Nat
    BY DEF Sound, RunStateType, TaskRecord
  <2>5. "skipped" \in Outcome /\ "skipped" # "none"
    BY DEF Outcome
  <2> HIDE DEF new, B
  <2>6. ASSUME NEW k \in TaskKey, k \in B
        PROVE  new.task[k].outcome = "skipped" /\ IsTerminal(new.task[k])
    <3>1. new.task[k] = Settled(st.task[k], "skipped", st.task[k].desired_generation)
      BY <2>3, <2>6
    <3>2. /\ new.task[k].outcome = "skipped"
          /\ new.task[k].outcome_generation = st.task[k].desired_generation
      BY <2>4, <2>5, <3>1, SettledType
    <3> QED
      BY <2>1, <2>5, <3>2 DEF IsTerminal
  <2> QED
    BY <2>1, <2>2, <2>3, <2>6
<1>3. ClosedUnderBlocking(st, B)
  BY BlockedSetClosed
<1>4. SettleBlocked(st) = new
  BY DEF SettleBlocked
<1> HIDE DEF new, B
<1> SUFFICES ASSUME NEW k \in TaskKey
             PROVE  TaskState(new, k) # "blocked"
  BY <1>4
<1>5. CASE k \in B
  BY <1>2, <1>5 DEF TaskState
<1>6. CASE k \notin B
  <2>1. CASE k \in Open(st)
    <3>1. \A c \in Clause[k.step] : ~ ClauseDead(new, k, c)
      BY <1>3, <1>6, <2>1 DEF ClosedUnderBlocking, new
    <3>2. ~ IsTerminal(new.task[k])
      BY <1>2, <1>6, <2>1 DEF Open
    <3> QED
      BY <3>1, <3>2 DEF TaskState
  <2>2. CASE k \notin Open(st)
    <3>1. \/ ~ IsMaterialized(new, k)
          \/ IsTerminal(new.task[k])
          \/ Committed(new, k, new.task[k].desired_generation)
          \/ Live(new, k) # {}
      BY <1>2, <1>6, <2>2 DEF Open, Materialized, IsMaterialized, IsClosed, Committed, Live, Started
    <3>2. IsTerminal(new.task[k]) => new.task[k].outcome # "blocked"
      BY <1>2, <1>6 DEF Sound, RunStateType, TaskRecord, Outcome
    <3> QED
      BY <3>1, <3>2 DEF TaskState
  <2> QED
    BY <2>1, <2>2
<1> QED
  BY <1>5, <1>6

-----------------------------------------------------------------------------
(* The whole step: an event, then settlement, then the commands. *)

LEMMA DispatchType ==
  ASSUME NEW st, Sound(st)
  PROVE  /\ Dispatches(st) \subseteq DispatchAttempt
         /\ \A cmd \in Dispatches(st) : cmd.fence_epoch = st.task[cmd.task].fence_epoch
  BY DEF Dispatches, DispatchAttempt, Sound, RunStateType, TaskRecord

LEMMA ReduceStep ==
  ASSUME Inv, NEW st, Sound(st), Advances(state, st), Reduce(st)
  PROVE  Inv' /\ Advances(state, state') /\ NothingLeftBlocked'
<1>1. BlockedSet(st) \in SUBSET Open(st)
  BY DEF BlockedSet
<1>2. state' = SkipAll(st, BlockedSet(st))
  BY DEF Reduce, SettleBlocked
<1>3. Sound(state')
  BY <1>1, <1>2, SkipSound
<1>4. Advances(state, state')
  BY <1>1, <1>2, SkipAdvances DEF Inv
<1>5. \A cmd \in issued' : cmd \in issued \/ cmd \in Dispatches(state')
  BY DEF Reduce
<1>6. /\ Dispatches(state') \subseteq DispatchAttempt
      /\ \A cmd \in Dispatches(state') : cmd.fence_epoch = state'.task[cmd.task].fence_epoch
  BY <1>3, DispatchType
<1>7. \A k \in TaskKey : state.task[k].fence_epoch \in Nat /\ state'.task[k].fence_epoch \in Nat
  BY <1>3 DEF Inv, Sound, RunStateType, TaskRecord
<1>8. issued' \subseteq DispatchAttempt
  BY <1>5, <1>6 DEF Inv
<1>9. \A cmd \in issued' : cmd.fence_epoch <= state'.task[cmd.task].fence_epoch
  BY <1>4, <1>5, <1>6, <1>7, <1>8 DEF Inv, IssuedInv, Advances, DispatchAttempt
<1>10. Inv'
  BY <1>3, <1>8, <1>9 DEF Inv, IssuedInv, Sound, Commits, Records, Committed, Started
<1>11. NothingLeftBlocked'
  BY SettleLeavesNoneBlocked DEF Reduce, NothingLeftBlocked
<1> QED
  BY <1>4, <1>10, <1>11

LEMMA InitialSound == Sound(InitialRun)
<1>1. InitialRun \in RunStateType
  BY DEF InitialRun, RunStateType, NewTask, TaskRecord, ExpansionRecord
<1> QED
  BY <1>1 DEF Sound, Commits, Records, Committed, Started, InitialRun, NewTask

LEMMA InitInv == Init => Inv
<1> SUFFICES ASSUME Init PROVE Inv
  OBVIOUS
<1>2. Sound(InitialRun)
  BY InitialSound
<1>3. BlockedSet(InitialRun) \in SUBSET Open(InitialRun)
  BY DEF BlockedSet
<1>4. Sound(state)
  BY <1>2, <1>3, SkipSound DEF Init, SettleBlocked
<1>5. \A k \in TaskKey : state.task[k].fence_epoch \in Nat
  BY <1>4 DEF Sound, RunStateType, TaskRecord
<1> QED
  BY <1>4, <1>5, DispatchType DEF Init, Inv, IssuedInv, DispatchAttempt

LEMMA NextStep ==
  ASSUME Inv, Next
  PROVE  Inv' /\ Advances(state, state') /\ NothingLeftBlocked'
<1>0. Sound(state)
  BY DEF Inv
<1>1. ASSUME NEW s \in Expanding, NEW g \in 1..RosterBound, NEW keys \in Rosters,
             ExpansionClosed(s, g, keys)
      PROVE  Inv' /\ Advances(state, state') /\ NothingLeftBlocked'
  <2> DEFINE rec == IF Cardinality({keys[n] : n \in DOMAIN keys}) # Len(keys)
                    THEN [generation |-> g, state |-> "failed", keys |-> {}]
                    ELSE [generation |-> g, state |-> "closed", keys |-> {keys[n] : n \in DOMAIN keys}]
  <2>1. g \in Nat /\ s \in Step
    BY ConstantsAssumption
  <2>2. {keys[n] : n \in DOMAIN keys} \subseteq Item
    BY DEF Rosters
  <2>3. rec \in ExpansionRecord
    BY <2>1, <2>2 DEF ExpansionRecord
  <2>4. ApplyExpansionClosed(state, s, g, keys) = WithExpansion(state, s, rec)
    BY DEF ApplyExpansionClosed
  <2> HIDE DEF rec
  <2>5. Reduce(WithExpansion(state, s, rec))
    BY <1>1, <2>4 DEF ExpansionClosed
  <2> QED
    BY <1>0, <2>1, <2>3, <2>5, ExpansionSound, ReduceStep
<1>2. ASSUME NEW s \in Expanding, NEW g \in 1..RosterBound, ExpansionFailed(s, g)
      PROVE  Inv' /\ Advances(state, state') /\ NothingLeftBlocked'
  <2> DEFINE rec == [generation |-> g, state |-> "failed", keys |-> {}]
  <2>1. g \in Nat /\ s \in Step
    BY ConstantsAssumption
  <2>2. rec \in ExpansionRecord
    BY <2>1 DEF ExpansionRecord
  <2>3. Reduce(WithExpansion(state, s, rec))
    BY <1>2 DEF ExpansionFailed, ApplyExpansionFailed
  <2> HIDE DEF rec
  <2> QED
    BY <1>0, <2>1, <2>2, <2>3, ExpansionSound, ReduceStep
<1>3. ASSUME NEW i \in AttemptId, NEW start \in issued, AttemptStarted(i, start)
      PROVE  Inv' /\ Advances(state, state') /\ NothingLeftBlocked'
  <2>1. start \in DispatchAttempt /\ start.fence_epoch <= state.task[start.task].fence_epoch
    BY DEF Inv, IssuedInv
  <2>2. start.fence_epoch \in Nat /\ start.task \in TaskKey
    BY <2>1 DEF DispatchAttempt
  <2>3. state.task[start.task].fence_epoch \in Nat
    BY <1>0, <2>2 DEF Sound, RunStateType, TaskRecord
  <2>4. start.fence_epoch = state.task[start.task].fence_epoch \/ start.task \in state.recorded
    BY <1>0, <2>1, <2>2, <2>3 DEF Sound, Records
  <2>5. i \notin Started(state) /\ Reduce(ApplyAttemptStarted(state, i, start))
    BY <1>3 DEF AttemptStarted
  <2> QED
    BY <1>0, <2>1, <2>4, <2>5, StartSound, ReduceStep
<1>4. ASSUME NEW i \in AttemptId, StartRedelivered(i)
      PROVE  Inv' /\ Advances(state, state') /\ NothingLeftBlocked'
  <2> DEFINE start == [task |-> state.attempts[i].task, generation |-> state.attempts[i].generation,
                       fence_epoch |-> state.attempts[i].fence_epoch]
  <2>1. i \in Started(state) /\ Reduce(ApplyAttemptStarted(state, i, start))
    BY <1>4 DEF StartRedelivered
  <2>2. state.attempts[i] \in AttemptRecord
    BY <1>0, <2>1, StartedMeans DEF Sound
  <2>3. start \in DispatchAttempt
    BY <2>2 DEF AttemptRecord, DispatchAttempt
  <2>4. /\ start.task = state.attempts[i].task
        /\ start.generation = state.attempts[i].generation
        /\ start.task \in state.recorded
    BY <1>0, <2>1 DEF Sound, Records
  <2> HIDE DEF start
  <2> QED
    BY <1>0, <2>1, <2>3, <2>4, StartSound, ReduceStep
<1>5. ASSUME NEW i \in AttemptId, NEW d \in Ending, AttemptEnded(i, d)
      PROVE  Inv' /\ Advances(state, state') /\ NothingLeftBlocked'
  BY <1>0, <1>5, EndSound, ReduceStep DEF AttemptEnded
<1>6. ASSUME NEW k \in TaskKey, ForceIssued(k)
      PROVE  Inv' /\ Advances(state, state') /\ NothingLeftBlocked'
  BY <1>0, <1>6, ForceSound, ReduceStep DEF ForceIssued
<1>7. ASSUME Tick
      PROVE  Inv' /\ Advances(state, state') /\ NothingLeftBlocked'
  BY <1>0, <1>7, TickSound, ReduceStep DEF Tick
<1> QED
  BY <1>1, <1>2, <1>3, <1>4, <1>5, <1>6, <1>7 DEF Next

-----------------------------------------------------------------------------
(* The inductive invariant holds in every reachable state, for every step    *)
(* graph and however starts are delayed, duplicated or redelivered.          *)
THEOREM Invariance == Spec => []Inv
<1>1. Inv /\ UNCHANGED vars => Inv'
  BY DEF Inv, IssuedInv, Sound, Commits, Records, Committed, Started, vars
<1> QED
  BY <1>1, InitInv, NextStep, PTL DEF Spec

(* Every record keeps the shape of its dataclass. *)
THEOREM TypeCorrect == Spec => []TypeOK
<1>1. Inv => TypeOK
  BY DEF Inv, Sound, TypeOK
<1> QED
  BY <1>1, Invariance, PTL

(* A task generation publishes at most one commit. *)
THEOREM CommitLinearized == Spec => []OneCommitPerGeneration
<1>1. Inv => OneCommitPerGeneration
  BY DEF Inv, Sound, Commits, OneCommitPerGeneration
<1> QED
  BY <1>1, Invariance, PTL

(* The record of a task and its commits never disagree on success. *)
THEOREM SuccessIsCommit == Spec => []SucceededIffCommitted
<1>1. Inv => SucceededIffCommitted
  BY DEF Inv, Sound, Commits, SucceededIffCommitted
<1> QED
  BY <1>1, Invariance, PTL

(* Every commit comes from an attempt of that generation that succeeded. *)
THEOREM CommitHasAttempt == Spec => []CommitBacked
<1>1. Inv => CommitBacked
  BY DEF Inv, Sound, Commits, CommitBacked
<1> QED
  BY <1>1, Invariance, PTL

(* An attempt whose ending would be discarded is always proposed for         *)
(* cancellation.                                                             *)
THEOREM FencedMeansCancelled == Spec => []SupersededIsCancelled
<1>1. Inv => SupersededIsCancelled
  BY DEF Inv, Sound, Records, SupersededIsCancelled, Cancellations, Started
<1> QED
  BY <1>1, Invariance, PTL

(* No event rewrites an attempt that ended or withdraws a commit. *)
THEOREM AppendOnly == Spec => HistoryAppendOnly
<1>1. Inv /\ [Next]_vars =>
        [/\ state.commits \subseteq state'.commits
         /\ \A i \in Started(state) :
              /\ i \in Started(state')
              /\ state.attempts[i].disposition # "live" => state'.attempts[i] = state.attempts[i]
              /\ state'.attempts[i].task = state.attempts[i].task
              /\ state'.attempts[i].generation = state.attempts[i].generation]_vars
  BY NextStep DEF Advances
<1> QED
  BY <1>1, Invariance, PTL DEF Spec, HistoryAppendOnly

(* A settled outcome is kept, overtaken by a success of its own generation,  *)
(* or given up with that generation.                                         *)
THEOREM OutcomesSettle == Spec => OutcomeMoves
<1> DEFINE Move(k) ==
      LET old == state.task[k]
          new == state'.task[k]
      IN  IsTerminal(old) =>
            \/ new.outcome = old.outcome /\ new.desired_generation = old.desired_generation
            \/ new.desired_generation = old.desired_generation + 1 /\ new.fence_epoch > old.fence_epoch
            \/ new.outcome = "succeeded" /\ new.desired_generation = old.desired_generation
<1>1. Inv /\ [Next]_vars => [\A k \in TaskKey : Move(k)]_vars
  BY NextStep DEF Advances
<1> QED
  BY <1>1, Invariance, PTL DEF Spec, OutcomeMoves

(* Between events no task is blocked behind a clause that is already dead:   *)
(* settlement reaches its fixpoint on every step graph, in one pass.         *)
THEOREM SettlementComplete == Spec => []NothingLeftBlocked
<1>1. Init => NothingLeftBlocked
  BY InitialSound, SettleLeavesNoneBlocked DEF Init, NothingLeftBlocked
<1>2. Inv /\ NothingLeftBlocked /\ [Next]_vars => NothingLeftBlocked'
  <2>1. NothingLeftBlocked /\ UNCHANGED vars => NothingLeftBlocked'
    BY Zenon DEF NothingLeftBlocked, vars
  <2> QED
    BY <2>1, NextStep
<1> QED
  BY <1>1, <1>2, Invariance, PTL DEF Spec

-----------------------------------------------------------------------------
(* A runtime that waits for the reducer.  Its commands are always those of   *)
(* the state it acts on, and that makes the run serial: a task has one live  *)
(* attempt, and none once it has an outcome.                                 *)

Serial(st) ==
  /\ \A k \in TaskKey : st.task[k].desired_generation = st.task[k].fence_epoch + 1
  /\ \A i \in Started(st) :
       /\ st.attempts[i].generation = st.attempts[i].fence_epoch + 1
       /\ st.attempts[i].generation <= st.task[st.attempts[i].task].desired_generation
  /\ \A k \in TaskKey : st.task[k].outcome # "none" =>
       /\ st.task[k].outcome_generation = st.task[k].desired_generation
       /\ k \in st.recorded
       /\ Live(st, k) = {}
  /\ \A k \in TaskKey : \A i, j \in Live(st, k) : i = j

(* An attempt of k is live that no force has overtaken. *)
Speaking(st, k) ==
  \E i \in Live(st, k) : st.attempts[i].generation = st.task[k].desired_generation

(* The tries of a generation are counted against the policy before the next  *)
(* one may start.                                                            *)
Rationed(st) ==
  \A k \in TaskKey :
    /\ AttemptCount(st, k, st.task[k].desired_generation) <= MaxAttempts[k.step]
    /\ st.task[k].outcome = "none" /\ ~ Speaking(st, k)
         => AttemptCount(st, k, st.task[k].desired_generation) < MaxAttempts[k.step]

(* What has run, runs or was skipped has its reason in the state of its      *)
(* upstreams.                                                                *)
Grounded(st) ==
  /\ \A s \in Step : st.expansion[s].state # "unmaterialized" => st.expansion[s].generation > 0
  /\ \A i \in Started(st) : IsMaterialized(st, st.attempts[i].task)
  /\ \A k \in TaskKey : st.task[k].outcome # "none" => IsMaterialized(st, k)
  /\ \A k \in TaskKey : st.task[k].outcome = "skipped" => \E c \in Clause[k.step] : ClauseDead(st, k, c)
  /\ \A k \in TaskKey : st.task[k].outcome = "succeeded" \/ Speaking(st, k)
                          => \A c \in Clause[k.step] : ClauseSatisfied(st, k, c)

(* A retry policy allows at least the first try. *)
TriesAllowed == \A s \in Step : MaxAttempts[s] > 0

-----------------------------------------------------------------------------
(* What each event does to a serial run state. *)

LEMMA SerialTypes ==
  ASSUME NEW st, Sound(st)
  PROVE  /\ st \in RunStateType
         /\ st.task \in [TaskKey -> TaskRecord]
         /\ st.attempts \in [AttemptId -> AttemptRecord \cup {Unstarted}]
         /\ st.recorded \subseteq TaskKey
         /\ \A k \in TaskKey : /\ st.task[k] \in TaskRecord
                               /\ st.task[k].desired_generation \in Nat
                               /\ st.task[k].fence_epoch \in Nat
         /\ \A i \in Started(st) : /\ i \in AttemptId
                                   /\ st.attempts[i] \in AttemptRecord
                                   /\ st.attempts[i].task \in TaskKey
                                   /\ st.attempts[i].generation \in Nat
                                   /\ st.attempts[i].fence_epoch \in Nat
<1>1. st \in RunStateType
  BY DEF Sound
<1>2. \A i \in Started(st) : i \in AttemptId /\ st.attempts[i] \in AttemptRecord
  BY <1>1, StartedMeans DEF Started
<1> QED
  BY <1>1, <1>2 DEF RunStateType, TaskRecord, AttemptRecord

LEMMA FreshStartEffect ==
  ASSUME NEW st, Sound(st), NEW start \in Dispatches(st),
         NEW i \in AttemptId, i \notin Started(st)
  PROVE  LET new == ApplyAttemptStarted(st, i, start) IN
         /\ new.expansion = st.expansion
         /\ new.recorded = st.recorded \cup {start.task}
         /\ new.attempts = [st.attempts EXCEPT ![i] =
              [task |-> start.task, generation |-> start.generation,
               fence_epoch |-> start.fence_epoch, disposition |-> "live"]]
         /\ \A t \in TaskKey :
              /\ new.task[t].outcome = st.task[t].outcome
              /\ new.task[t].outcome_generation = st.task[t].outcome_generation
              /\ new.task[t].desired_generation = st.task[t].desired_generation
              /\ new.task[t].fence_epoch = st.task[t].fence_epoch
<1> DEFINE k == start.task
           kept == [st.task[k] EXCEPT !.retry_at = 0]
           cleared == WithTask(st, k, kept)
           rec == [task |-> k, generation |-> start.generation,
                   fence_epoch |-> start.fence_epoch, disposition |-> "live"]
<1>1. start \in DispatchAttempt /\ start.fence_epoch = st.task[start.task].fence_epoch
  BY DispatchType
<1>2. k \in TaskKey /\ rec \in AttemptRecord
  BY <1>1 DEF DispatchAttempt, AttemptRecord
<1>3. st.task \in [TaskKey -> TaskRecord] /\ st \in RunStateType
  BY SerialTypes
<1>4. /\ kept \in TaskRecord
      /\ kept.outcome = st.task[k].outcome
      /\ kept.outcome_generation = st.task[k].outcome_generation
      /\ kept.desired_generation = st.task[k].desired_generation
      /\ kept.fence_epoch = st.task[k].fence_epoch
  BY <1>2, <1>3 DEF TaskRecord
<1>5. ApplyAttemptStarted(st, i, start) = WithAttempt(cleared, i, rec)
  BY <1>1 DEF ApplyAttemptStarted
<1> HIDE DEF kept, rec, k
<1>6. /\ cleared \in RunStateType
      /\ cleared.task = [st.task EXCEPT ![k] = kept]
      /\ cleared.recorded = st.recorded \cup {k}
      /\ cleared.attempts = st.attempts
      /\ cleared.expansion = st.expansion
  BY <1>2, <1>3, <1>4, TaskUpdate
<1> HIDE DEF cleared
<1>7. LET new == WithAttempt(cleared, i, rec) IN
      /\ new.attempts = [st.attempts EXCEPT ![i] = rec]
      /\ new.task = cleared.task
      /\ new.recorded = cleared.recorded
      /\ new.expansion = st.expansion
  BY <1>2, <1>6, AttemptUpdate
<1>8. \A t \in TaskKey : cleared.task[t] = IF t = k THEN kept ELSE st.task[t]
  BY <1>3, <1>6
<1> DEFINE new == ApplyAttemptStarted(st, i, start)
<1>9. /\ new.attempts = [st.attempts EXCEPT ![i] = rec]
      /\ new.task = cleared.task
      /\ new.recorded = st.recorded \cup {k}
      /\ new.expansion = st.expansion
  BY <1>5, <1>6, <1>7
<1> HIDE DEF new
<1>10. \A t \in TaskKey : /\ new.task[t].outcome = st.task[t].outcome
                          /\ new.task[t].outcome_generation = st.task[t].outcome_generation
                          /\ new.task[t].desired_generation = st.task[t].desired_generation
                          /\ new.task[t].fence_epoch = st.task[t].fence_epoch
  BY <1>4, <1>8, <1>9
<1> QED
  BY <1>9, <1>10 DEF new, rec, k

(* A start that is delivered again changes nothing but a delay. *)
LEMMA RestartEffect ==
  ASSUME NEW st, Sound(st), NEW i \in Started(st)
  PROVE  LET a == st.attempts[i]
             new == ApplyAttemptStarted(st, i, [task |-> a.task, generation |-> a.generation,
                                                fence_epoch |-> a.fence_epoch])
         IN
         /\ new.expansion = st.expansion
         /\ new.recorded = st.recorded
         /\ new.attempts = st.attempts
         /\ \A t \in TaskKey :
              /\ new.task[t].outcome = st.task[t].outcome
              /\ new.task[t].outcome_generation = st.task[t].outcome_generation
              /\ new.task[t].desired_generation = st.task[t].desired_generation
              /\ new.task[t].fence_epoch = st.task[t].fence_epoch
<1> DEFINE a == st.attempts[i]
           k == a.task
           start == [task |-> k, generation |-> a.generation, fence_epoch |-> a.fence_epoch]
           kept == [st.task[k] EXCEPT !.retry_at = 0]
           cleared == IF st.task[k].fence_epoch = a.fence_epoch
                      THEN WithTask(st, k, kept) ELSE st
           rec == [task |-> k, generation |-> a.generation,
                   fence_epoch |-> a.fence_epoch, disposition |-> "live"]
<1>1. /\ a \in AttemptRecord /\ k \in TaskKey /\ i \in AttemptId
      /\ st.task \in [TaskKey -> TaskRecord] /\ st \in RunStateType
      /\ st.attempts \in [AttemptId -> AttemptRecord \cup {Unstarted}]
      /\ k \in st.recorded
  BY SerialTypes DEF Sound, Records
<1>2. CASE a.disposition # "live"
  BY <1>2 DEF ApplyAttemptStarted
<1>3. CASE a.disposition = "live"
  <2>1. /\ kept \in TaskRecord
        /\ kept.outcome = st.task[k].outcome
        /\ kept.outcome_generation = st.task[k].outcome_generation
        /\ kept.desired_generation = st.task[k].desired_generation
        /\ kept.fence_epoch = st.task[k].fence_epoch
    BY <1>1 DEF TaskRecord
  <2>2. a = rec
    BY <1>1, <1>3 DEF AttemptRecord
  <2>3. ApplyAttemptStarted(st, i, start) = WithAttempt(cleared, i, rec)
    BY <1>3 DEF ApplyAttemptStarted
  <2>4. rec \in AttemptRecord /\ rec = st.attempts[i]
    BY <1>1, <2>2
  <2> HIDE DEF kept, rec, k, a
  <2>5. /\ cleared \in RunStateType
        /\ cleared.recorded = st.recorded
        /\ cleared.attempts = st.attempts
        /\ cleared.expansion = st.expansion
        /\ cleared.task = st.task \/ cleared.task = [st.task EXCEPT ![k] = kept]
    <3>1. CASE st.task[k].fence_epoch = a.fence_epoch
      <4>1. st.recorded \cup {k} = st.recorded
        BY <1>1
      <4>2. cleared = WithTask(st, k, kept)
        BY <3>1 DEF cleared
      <4> HIDE DEF cleared
      <4> QED
        BY <1>1, <2>1, <4>1, <4>2, TaskUpdate
    <3>2. CASE st.task[k].fence_epoch # a.fence_epoch
      BY <1>1, <3>2
    <3> QED
      BY <3>1, <3>2
  <2> HIDE DEF cleared
  <2>6. LET new == WithAttempt(cleared, i, rec) IN
        /\ new.attempts = st.attempts
        /\ new.task = cleared.task
        /\ new.recorded = st.recorded
        /\ new.expansion = st.expansion
    <3>1. [st.attempts EXCEPT ![i] = rec] = st.attempts
      BY <1>1, <2>4
    <3> QED
      BY <1>1, <2>4, <2>5, <3>1, AttemptUpdate
  <2>7. \A t \in TaskKey : cleared.task[t] = st.task[t] \/ (t = k /\ cleared.task[t] = kept)
    BY <1>1, <2>5
  <2> QED
    BY <2>1, <2>3, <2>6, <2>7 DEF a, k
<1> QED
  BY <1>2, <1>3

(* An ending of the one live attempt settles its task, schedules a retry, or, *)
(* when a force has overtaken it, only closes the attempt.                    *)
LEMMA EndEffect ==
  ASSUME NEW st, Sound(st), Serial(st), NEW i \in Started(st),
         st.attempts[i].disposition = "live", NEW d \in Ending
  PROVE  LET a == st.attempts[i]
             new == ApplyAttemptEnded(st, i, d)
         IN
         /\ new.expansion = st.expansion
         /\ new.recorded = st.recorded
         /\ new.attempts = [st.attempts EXCEPT ![i] = [a EXCEPT !.disposition = d]]
         /\ \A t \in TaskKey :
              /\ new.task[t].desired_generation = st.task[t].desired_generation
              /\ new.task[t].fence_epoch = st.task[t].fence_epoch
              /\ t # a.task => new.task[t] = st.task[t]
         /\ a.generation # st.task[a.task].desired_generation => new.task[a.task] = st.task[a.task]
         /\ a.generation = st.task[a.task].desired_generation =>
              \/ /\ new.task[a.task].outcome = st.task[a.task].outcome
                 /\ AttemptCount(st, a.task, a.generation) < MaxAttempts[a.task.step]
              \/ /\ new.task[a.task].outcome \in {"succeeded", "cancelled", "failed"}
                 /\ new.task[a.task].outcome_generation = a.generation
<1> DEFINE a      == st.attempts[i]
           k      == a.task
           new    == ApplyAttemptEnded(st, i, d)
           over   == [a EXCEPT !.disposition = d]
           ended  == WithAttempt(st, i, over)
           commit == [task |-> k, generation |-> a.generation, attempt |-> i]
           rec    == EndedRecord(ended, a, d)
           marked == WithTask(ended, k, rec)
<1>1. /\ st.task \in [TaskKey -> TaskRecord] /\ st \in RunStateType
      /\ st.attempts \in [AttemptId -> AttemptRecord \cup {Unstarted}]
      /\ i \in AttemptId /\ a \in AttemptRecord /\ k \in TaskKey /\ k \in st.recorded
      /\ a.generation \in Nat
      /\ st.task[k].desired_generation \in Nat
  BY SerialTypes DEF Sound, Records
<1>2. /\ over \in AttemptRecord /\ over.task = k /\ over.generation = a.generation
      /\ over # Unstarted
  BY <1>1 DEF AttemptRecord, Unstarted, Ending
<1>3. /\ ended \in RunStateType
      /\ ended.attempts = [st.attempts EXCEPT ![i] = over]
      /\ ended.task = st.task
      /\ ended.recorded = st.recorded
      /\ ended.commits = st.commits
      /\ ended.expansion = st.expansion
  <2> HIDE DEF over
  <2> QED
    BY <1>1, <1>2, AttemptUpdate
<1>4. new = IF ~ EndingCounts(ended, a, d) THEN ended
            ELSE IF d = "succeeded" THEN [marked EXCEPT !.commits = marked.commits \cup {commit}]
            ELSE marked
  BY DEF ApplyAttemptEnded
<1>5. i \in Live(st, k)
  BY <1>1 DEF Live
<1>6. st.task[k].outcome = "none" /\ ~ IsTerminal(st.task[k])
  BY <1>1, <1>5 DEF Serial, IsTerminal
<1>7. ~ Committed(st, k, st.task[k].desired_generation)
  BY <1>1, <1>6 DEF Sound, Commits
<1>8. EndingCounts(ended, a, d) <=> a.generation = st.task[k].desired_generation
  <2>1. /\ a.generation = a.fence_epoch + 1
        /\ st.task[k].desired_generation = st.task[k].fence_epoch + 1
        /\ a.fence_epoch \in Nat /\ st.task[k].fence_epoch \in Nat
    BY <1>1, SerialTypes DEF Serial
  <2>2. Superseded(a, st.task[k]) <=> a.generation # st.task[k].desired_generation
    BY <2>1 DEF Superseded
  <2>3. ~ Committed(ended, k, ended.task[k].desired_generation)
    BY <1>3, <1>7 DEF Committed
  <2> HIDE DEF a, ended
  <2> QED
    BY <1>3, <1>6, <2>2, <2>3 DEF EndingCounts, k
<1>9. CASE a.generation # st.task[k].desired_generation
  <2>1. new = ended
    BY <1>4, <1>8, <1>9
  <2> HIDE DEF new, ended
  <2> QED
    BY <1>3, <1>9, <2>1 DEF new
<1>10. CASE a.generation = st.task[k].desired_generation
  <2>1. /\ rec \in TaskRecord
        /\ rec.desired_generation = st.task[k].desired_generation
        /\ rec.fence_epoch = st.task[k].fence_epoch
        /\ \/ /\ rec.outcome = st.task[k].outcome
              /\ ~ OutOfTries(ended, k, a.generation)
           \/ /\ rec.outcome \in {"succeeded", "cancelled", "failed"}
              /\ rec.outcome_generation = a.generation
    <3> HIDE DEF ended, a
    <3> QED
      BY <1>1, <1>3, EndedType DEF k
  <2>2. AttemptCount(ended, k, a.generation) = AttemptCount(st, k, a.generation)
    <3>1. Started(ended) = Started(st)
      BY <1>1, <1>2, <1>3 DEF Started
    <3>2. \A j \in Started(st) : /\ ended.attempts[j].task = st.attempts[j].task
                                 /\ ended.attempts[j].generation = st.attempts[j].generation
      BY <1>1, <1>2, <1>3 DEF Started
    <3> HIDE DEF ended, a
    <3>3. {j \in Started(ended) : ended.attempts[j].task = k /\ ended.attempts[j].generation = a.generation}
          = {j \in Started(st) : st.attempts[j].task = k /\ st.attempts[j].generation = a.generation}
      BY <3>1, <3>2
    <3> QED
      BY <3>3 DEF AttemptCount
  <2>3. ~ OutOfTries(ended, k, a.generation) => AttemptCount(st, k, a.generation) < MaxAttempts[k.step]
    <3>1. AttemptCount(st, k, a.generation) \in Nat
      BY CountType
    <3>2. k.step \in Step
      BY <1>1 DEF TaskKey
    <3>3. MaxAttempts[k.step] \in Nat
      BY <3>2, ConstantsAssumption
    <3> QED
      BY <2>2, <3>1, <3>3 DEF OutOfTries
  <2> HIDE DEF rec, ended, over
  <2>4. /\ marked.task = [st.task EXCEPT ![k] = rec]
        /\ marked.recorded = st.recorded
        /\ marked.attempts = ended.attempts
        /\ marked.expansion = st.expansion
        /\ marked \in RunStateType
    <3>1. st.recorded \cup {k} = st.recorded
      BY <1>1
    <3>2. k \in TaskKey /\ ended \in RunStateType /\ rec \in TaskRecord
      BY <1>1, <1>3, <2>1
    <3> HIDE DEF k, a
    <3>3. /\ marked \in RunStateType
          /\ marked.task = [ended.task EXCEPT ![k] = rec]
          /\ marked.recorded = ended.recorded \cup {k}
          /\ marked.attempts = ended.attempts
          /\ marked.expansion = ended.expansion
      BY <3>2, TaskUpdate
    <3> QED
      BY <1>3, <3>1, <3>3
  <2> HIDE DEF marked
  <2>5. /\ new.task = [st.task EXCEPT ![k] = rec]
        /\ new.recorded = st.recorded
        /\ new.attempts = ended.attempts
        /\ new.expansion = st.expansion
    BY <1>4, <1>8, <1>10, <2>4 DEF RunStateType
  <2> HIDE DEF new
  <2>6. \A t \in TaskKey : new.task[t] = IF t = k THEN rec ELSE st.task[t]
    BY <1>1, <2>5
  <2> HIDE DEF a, k
  <2>7. /\ \A t \in TaskKey :
             /\ new.task[t].desired_generation = st.task[t].desired_generation
             /\ new.task[t].fence_epoch = st.task[t].fence_epoch
             /\ t # k => new.task[t] = st.task[t]
        /\ \/ /\ new.task[k].outcome = st.task[k].outcome
              /\ AttemptCount(st, k, a.generation) < MaxAttempts[k.step]
           \/ /\ new.task[k].outcome \in {"succeeded", "cancelled", "failed"}
              /\ new.task[k].outcome_generation = a.generation
    BY <1>1, <2>1, <2>3, <2>6
  <2> QED
    BY <1>3, <1>10, <2>5, <2>7 DEF new, over, k, a
<1> QED
  BY <1>9, <1>10

LEMMA ForceEffect ==
  ASSUME NEW st, Sound(st), NEW k \in TaskKey
  PROVE  LET new == ApplyForce(st, k)
             hit == Cascade(st, k)
         IN
         /\ new.expansion = st.expansion
         /\ new.recorded = st.recorded \cup hit
         /\ new.attempts = st.attempts
         /\ \A t \in TaskKey :
              /\ t \notin hit => new.task[t] = st.task[t]
              /\ t \in hit =>
                   /\ new.task[t].desired_generation = st.task[t].desired_generation + 1
                   /\ new.task[t].fence_epoch = st.task[t].fence_epoch + 1
                   /\ new.task[t].outcome = "none"
<1> DEFINE hit == Cascade(st, k)
<1>1. st \in RunStateType
  BY DEF Sound
<1> HIDE DEF hit
<1> QED
  BY <1>1 DEF ApplyForce, RunStateType, hit

(* The cascade is closed: whoever depends on a task that is hit is hit. *)
LEMMA CascadeClosed ==
  ASSUME NEW st, NEW k, NEW u \in Cascade(st, k), NEW t \in Dependents(st, u)
  PROVE  t \in Cascade(st, k)
  BY DEF Cascade, Dependents

LEMMA SkipEffect ==
  ASSUME NEW st, Sound(st), NEW D \in SUBSET Open(st)
  PROVE  LET new == SkipAll(st, D) IN
         /\ new.expansion = st.expansion
         /\ new.recorded = st.recorded \cup D
         /\ new.attempts = st.attempts
         /\ D \subseteq TaskKey
         /\ \A t \in TaskKey :
              /\ new.task[t].desired_generation = st.task[t].desired_generation
              /\ new.task[t].fence_epoch = st.task[t].fence_epoch
              /\ t \notin D => new.task[t] = st.task[t]
              /\ t \in D => /\ new.task[t].outcome = "skipped"
                            /\ new.task[t].outcome_generation = st.task[t].desired_generation
<1> DEFINE new == SkipAll(st, D)
<1>1. D \subseteq TaskKey /\ st \in RunStateType
  BY DEF Open, Materialized, Sound
<1>2. /\ new.expansion = st.expansion
      /\ new.recorded = st.recorded \cup D
      /\ new.attempts = st.attempts
      /\ \A t \in TaskKey :
           new.task[t] = IF t \in D THEN Settled(st.task[t], "skipped", st.task[t].desired_generation)
                         ELSE st.task[t]
  BY <1>1 DEF SkipAll, RunStateType
<1>3. \A t \in TaskKey : st.task[t] \in TaskRecord /\ st.task[t].desired_generation \in Nat
  BY SerialTypes
<1>4. "skipped" \in Outcome
  BY DEF Outcome
<1> HIDE DEF new
<1> QED
  BY <1>1, <1>2, <1>3, <1>4, SettledType DEF new

-----------------------------------------------------------------------------
(* A run stays serial. *)

(* An event that starts and ends nothing keeps the run serial. *)
LEMMA SerialKept ==
  ASSUME NEW st, Serial(st), NEW new,
         new.recorded = st.recorded, new.attempts = st.attempts,
         \A t \in TaskKey :
            /\ new.task[t].outcome = st.task[t].outcome
            /\ new.task[t].outcome_generation = st.task[t].outcome_generation
            /\ new.task[t].desired_generation = st.task[t].desired_generation
            /\ new.task[t].fence_epoch = st.task[t].fence_epoch,
         \A i \in Started(st) : st.attempts[i].task \in TaskKey
  PROVE  Serial(new) /\ \A t : Live(new, t) = Live(st, t)
<1>1. Started(new) = Started(st) /\ \A t : Live(new, t) = Live(st, t)
  BY DEF Started, Live
<1> QED
  BY <1>1 DEF Serial

(* Only a ready task is dispatched: it has no outcome and no live attempt, no *)
(* clause of it is dead and each is satisfied.                                *)
LEMMA DispatchedIsReady ==
  ASSUME NEW st, Sound(st), NEW start \in Dispatches(st)
  PROVE  LET k == start.task IN
         /\ k \in TaskKey
         /\ start.generation = st.task[k].desired_generation
         /\ start.fence_epoch = st.task[k].fence_epoch
         /\ IsMaterialized(st, k)
         /\ ~ IsTerminal(st.task[k])
         /\ Live(st, k) = {}
         /\ \A c \in Clause[k.step] : ClauseSatisfied(st, k, c)
<1>1. PICK k \in TaskKey : /\ TaskState(st, k) = "ready"
                           /\ start = [task |-> k, generation |-> st.task[k].desired_generation,
                                       fence_epoch |-> st.task[k].fence_epoch]
  BY DEF Dispatches
<1>2. IsTerminal(st.task[k]) => st.task[k].outcome # "ready"
  <2>1. st.task[k].outcome \in Outcome \cup {"none"}
    BY SerialTypes DEF TaskRecord
  <2> QED
    BY <2>1 DEF Outcome
<1>3. /\ IsMaterialized(st, k)
      /\ ~ IsTerminal(st.task[k])
      /\ Live(st, k) = {}
      /\ \A c \in Clause[k.step] : ClauseSatisfied(st, k, c)
  BY <1>1, <1>2 DEF TaskState
<1> QED
  BY <1>1, <1>3

LEMMA FreshStartSerial ==
  ASSUME NEW st, Sound(st), Serial(st), NEW start \in Dispatches(st),
         NEW i \in AttemptId, i \notin Started(st)
  PROVE  Serial(ApplyAttemptStarted(st, i, start))
<1> DEFINE new == ApplyAttemptStarted(st, i, start)
           k == start.task
           rec == [task |-> k, generation |-> start.generation,
                   fence_epoch |-> start.fence_epoch, disposition |-> "live"]
<1>1. /\ k \in TaskKey
      /\ start.generation = st.task[k].desired_generation
      /\ start.fence_epoch = st.task[k].fence_epoch
      /\ ~ IsTerminal(st.task[k])
      /\ Live(st, k) = {}
  BY DispatchedIsReady
<1>2. /\ st.task[k].desired_generation \in Nat
      /\ st.attempts \in [AttemptId -> AttemptRecord \cup {Unstarted}]
  BY <1>1, SerialTypes
<1>3. /\ new.recorded = st.recorded \cup {k}
      /\ new.attempts = [st.attempts EXCEPT ![i] = rec]
      /\ \A t \in TaskKey :
           /\ new.task[t].outcome = st.task[t].outcome
           /\ new.task[t].outcome_generation = st.task[t].outcome_generation
           /\ new.task[t].desired_generation = st.task[t].desired_generation
           /\ new.task[t].fence_epoch = st.task[t].fence_epoch
  BY FreshStartEffect
<1> HIDE DEF new
<1>4. Started(new) = Started(st) \cup {i}
  BY <1>2, <1>3 DEF Started, Unstarted
<1>5. /\ Live(new, k) = {i}
      /\ \A t : t # k => Live(new, t) = Live(st, t)
  BY <1>1, <1>2, <1>3, <1>4 DEF Live, Started
<1>6. st.task[k].outcome = "none"
  BY <1>1 DEF Serial, IsTerminal
<1>7. \A j \in Started(st) : new.attempts[j] = st.attempts[j] /\ st.attempts[j].task \in TaskKey
  BY <1>2, <1>3, SerialTypes DEF Started
<1>8. new.attempts[i] = rec
  BY <1>2, <1>3
<1>9. \A j \in Started(new) :
        /\ new.attempts[j].generation = new.attempts[j].fence_epoch + 1
        /\ new.attempts[j].generation <= new.task[new.attempts[j].task].desired_generation
  BY <1>1, <1>2, <1>3, <1>4, <1>7, <1>8 DEF Serial
<1>10. \A t \in TaskKey : new.task[t].outcome # "none" =>
         /\ new.task[t].outcome_generation = new.task[t].desired_generation
         /\ t \in new.recorded
         /\ Live(new, t) = {}
  BY <1>3, <1>5, <1>6 DEF Serial
<1>11. \A t \in TaskKey : \A x, y \in Live(new, t) : x = y
  BY <1>5 DEF Serial
<1>12. \A t \in TaskKey : new.task[t].desired_generation = new.task[t].fence_epoch + 1
  BY <1>3 DEF Serial
<1> QED
  BY <1>9, <1>10, <1>11, <1>12 DEF Serial, new

LEMMA EndSerial ==
  ASSUME NEW st, Sound(st), Serial(st), NEW i \in Started(st),
         st.attempts[i].disposition = "live", NEW d \in Ending
  PROVE  /\ Serial(ApplyAttemptEnded(st, i, d))
         /\ Started(ApplyAttemptEnded(st, i, d)) = Started(st)
         /\ \A t : Live(ApplyAttemptEnded(st, i, d), t) = Live(st, t) \ {i}
<1> DEFINE new == ApplyAttemptEnded(st, i, d)
           a == st.attempts[i]
           k == a.task
           over == [a EXCEPT !.disposition = d]
<1>1. /\ st.attempts \in [AttemptId -> AttemptRecord \cup {Unstarted}]
      /\ i \in AttemptId /\ a \in AttemptRecord /\ k \in TaskKey
      /\ a.generation \in Nat
      /\ k \in st.recorded
  BY SerialTypes DEF Sound, Records
<1>2. /\ new.recorded = st.recorded
      /\ new.attempts = [st.attempts EXCEPT ![i] = over]
      /\ \A t \in TaskKey :
           /\ new.task[t].desired_generation = st.task[t].desired_generation
           /\ new.task[t].fence_epoch = st.task[t].fence_epoch
           /\ t # k => new.task[t] = st.task[t]
      /\ \/ new.task[k].outcome = st.task[k].outcome
         \/ new.task[k].outcome_generation = st.task[k].desired_generation
  BY EndEffect
<1>3. /\ over \in AttemptRecord /\ over.task = k /\ over.generation = a.generation
      /\ over.fence_epoch = a.fence_epoch
      /\ over.disposition # "live" /\ over # Unstarted
  BY <1>1 DEF AttemptRecord, Unstarted, Ending
<1> HIDE DEF new, over
<1>4. Started(new) = Started(st)
  BY <1>1, <1>2, <1>3 DEF Started
<1>5. /\ \A j \in Started(st) : /\ j # i => new.attempts[j] = st.attempts[j]
                                /\ st.attempts[j].task \in TaskKey
      /\ new.attempts[i] = over
  BY <1>1, <1>2, SerialTypes DEF Started
<1>6. \A t : Live(new, t) = Live(st, t) \ {i}
  BY <1>3, <1>4, <1>5 DEF Live
<1>7. Live(st, k) = {i} /\ st.task[k].outcome = "none"
  BY <1>1 DEF Serial, Live
<1> HIDE DEF a, k
<1>8. \A j \in Started(new) :
        /\ new.attempts[j].generation = new.attempts[j].fence_epoch + 1
        /\ new.attempts[j].generation <= new.task[new.attempts[j].task].desired_generation
  BY <1>1, <1>2, <1>3, <1>4, <1>5 DEF Serial, a, k
<1>9. \A t \in TaskKey : new.task[t].outcome # "none" =>
         /\ new.task[t].outcome_generation = new.task[t].desired_generation
         /\ t \in new.recorded
         /\ Live(new, t) = {}
  BY <1>1, <1>2, <1>6, <1>7 DEF Serial
<1>10. \A t \in TaskKey : \A x, y \in Live(new, t) : x = y
  BY <1>6 DEF Serial
<1>11. \A t \in TaskKey : new.task[t].desired_generation = new.task[t].fence_epoch + 1
  BY <1>2 DEF Serial
<1> QED
  BY <1>4, <1>6, <1>8, <1>9, <1>10, <1>11 DEF Serial, new

LEMMA ForceSerial ==
  ASSUME NEW st, Sound(st), Serial(st), NEW k \in TaskKey
  PROVE  /\ Serial(ApplyForce(st, k))
         /\ Started(ApplyForce(st, k)) = Started(st)
         /\ \A t : Live(ApplyForce(st, k), t) = Live(st, t)
<1> DEFINE new == ApplyForce(st, k)
           hit == Cascade(st, k)
<1>1. /\ new.recorded = st.recorded \cup hit
      /\ new.attempts = st.attempts
      /\ \A t \in TaskKey :
           /\ t \notin hit => new.task[t] = st.task[t]
           /\ t \in hit =>
                /\ new.task[t].desired_generation = st.task[t].desired_generation + 1
                /\ new.task[t].fence_epoch = st.task[t].fence_epoch + 1
                /\ new.task[t].outcome = "none"
  BY ForceEffect
<1> HIDE DEF new, hit
<1>2. Started(new) = Started(st) /\ \A t : Live(new, t) = Live(st, t)
  BY <1>1 DEF Started, Live
<1>3. /\ \A t \in TaskKey : st.task[t].desired_generation \in Nat /\ st.task[t].fence_epoch \in Nat
      /\ \A j \in Started(st) : st.attempts[j].task \in TaskKey /\ st.attempts[j].generation \in Nat
  BY SerialTypes
<1>4. \A t \in TaskKey : new.task[t].desired_generation = new.task[t].fence_epoch + 1
  BY <1>1, <1>3 DEF Serial
<1>5. \A t \in TaskKey : st.task[t].desired_generation <= new.task[t].desired_generation
  BY <1>1, <1>3
<1>6. \A t \in TaskKey : new.task[t].desired_generation \in Nat
  BY <1>1, <1>3
<1>7. \A j \in Started(st) :
        /\ st.attempts[j].generation = st.attempts[j].fence_epoch + 1
        /\ st.attempts[j].generation <= new.task[st.attempts[j].task].desired_generation
  BY <1>3, <1>5, <1>6 DEF Serial
<1> QED
  BY <1>1, <1>2, <1>4, <1>7 DEF Serial, new

LEMMA SkipSerial ==
  ASSUME NEW st, Sound(st), Serial(st), NEW D \in SUBSET Open(st)
  PROVE  /\ Serial(SkipAll(st, D))
         /\ Started(SkipAll(st, D)) = Started(st)
         /\ \A t : Live(SkipAll(st, D), t) = Live(st, t)
         /\ \A t \in D : st.task[t].outcome = "none"
<1> DEFINE new == SkipAll(st, D)
<1>1. /\ new.recorded = st.recorded \cup D
      /\ new.attempts = st.attempts
      /\ D \subseteq TaskKey
      /\ \A t \in TaskKey :
           /\ new.task[t].desired_generation = st.task[t].desired_generation
           /\ new.task[t].fence_epoch = st.task[t].fence_epoch
           /\ t \notin D => new.task[t] = st.task[t]
           /\ t \in D => /\ new.task[t].outcome = "skipped"
                         /\ new.task[t].outcome_generation = st.task[t].desired_generation
  BY SkipEffect
<1> HIDE DEF new
<1>2. Started(new) = Started(st) /\ \A t : Live(new, t) = Live(st, t)
  BY <1>1 DEF Started, Live
<1>3. \A t \in D : Live(st, t) = {} /\ st.task[t].outcome = "none"
  BY <1>1 DEF Open, Serial, IsTerminal
<1>4. \A j \in Started(st) : st.attempts[j].task \in TaskKey
  BY SerialTypes
<1>5. Serial(new)
  BY <1>1, <1>2, <1>3, <1>4 DEF Serial
<1> QED
  BY <1>2, <1>3, <1>5 DEF new

-----------------------------------------------------------------------------
(* The tries of a serial run stay within the policy. *)

LEMMA CountKept ==
  ASSUME NEW st, NEW new, Started(new) = Started(st),
         \A i \in Started(st) : /\ new.attempts[i].task = st.attempts[i].task
                                /\ new.attempts[i].generation = st.attempts[i].generation
  PROVE  \A k, g : AttemptCount(new, k, g) = AttemptCount(st, k, g)
<1> TAKE k, g
<1>1. {i \in Started(new) : new.attempts[i].task = k /\ new.attempts[i].generation = g}
      = {i \in Started(st) : st.attempts[i].task = k /\ st.attempts[i].generation = g}
  OBVIOUS
<1> QED
  BY <1>1 DEF AttemptCount

(* An event that starts, ends and forces nothing spends no try. *)
LEMMA RationedKept ==
  ASSUME NEW st, Rationed(st), NEW new, new.attempts = st.attempts,
         \A t \in TaskKey :
            /\ new.task[t].desired_generation = st.task[t].desired_generation
            /\ new.task[t].outcome = "none" => st.task[t].outcome = "none"
  PROVE  Rationed(new)
<1>1. Started(new) = Started(st) /\ \A t : Live(new, t) = Live(st, t)
  BY DEF Started, Live
<1>2. \A k, g : AttemptCount(new, k, g) = AttemptCount(st, k, g)
  BY <1>1, CountKept
<1>3. \A t \in TaskKey : Speaking(new, t) <=> Speaking(st, t)
  BY <1>1 DEF Speaking
<1> QED
  BY <1>2, <1>3 DEF Rationed

LEMMA FreshStartRationed ==
  ASSUME NEW st, Sound(st), Serial(st), Rationed(st), NEW start \in Dispatches(st),
         NEW i \in AttemptId, i \notin Started(st)
  PROVE  Rationed(ApplyAttemptStarted(st, i, start))
<1> DEFINE new == ApplyAttemptStarted(st, i, start)
           k == start.task
           rec == [task |-> k, generation |-> start.generation,
                   fence_epoch |-> start.fence_epoch, disposition |-> "live"]
           N(s, t, g) == {j \in Started(s) : s.attempts[j].task = t /\ s.attempts[j].generation = g}
<1>1. /\ k \in TaskKey
      /\ start.generation = st.task[k].desired_generation
      /\ ~ IsTerminal(st.task[k])
      /\ Live(st, k) = {}
  BY DispatchedIsReady
<1>2. /\ st.attempts \in [AttemptId -> AttemptRecord \cup {Unstarted}]
      /\ st.task[k].outcome = "none"
  BY <1>1, SerialTypes DEF Serial, IsTerminal
<1>3. /\ new.attempts = [st.attempts EXCEPT ![i] = rec]
      /\ \A t \in TaskKey : /\ new.task[t].outcome = st.task[t].outcome
                            /\ new.task[t].desired_generation = st.task[t].desired_generation
  BY FreshStartEffect
<1> HIDE DEF new
<1>4. /\ Started(new) = Started(st) \cup {i}
      /\ new.attempts[i] = rec
      /\ \A j \in Started(st) : new.attempts[j] = st.attempts[j]
  BY <1>2, <1>3 DEF Started, Unstarted
<1>5. ASSUME NEW t \in TaskKey
      PROVE  /\ AttemptCount(new, t, new.task[t].desired_generation) <= MaxAttempts[t.step]
             /\ new.task[t].outcome = "none" /\ ~ Speaking(new, t)
                  => AttemptCount(new, t, new.task[t].desired_generation) < MaxAttempts[t.step]
  <2> DEFINE g == st.task[t].desired_generation
  <2>1. /\ AttemptCount(st, t, g) <= MaxAttempts[t.step]
        /\ st.task[t].outcome = "none" /\ ~ Speaking(st, t)
             => AttemptCount(st, t, g) < MaxAttempts[t.step]
    BY DEF Rationed
  <2>2. CASE t # k
    <3>1. N(new, t, g) = N(st, t, g)
      BY <1>4, <2>2
    <3>2. AttemptCount(new, t, g) = AttemptCount(st, t, g)
      BY <3>1 DEF AttemptCount
    <3>3. Live(new, t) = Live(st, t)
      BY <1>4, <2>2 DEF Live
    <3>4. Speaking(new, t) <=> Speaking(st, t)
      BY <1>3, <1>4, <3>3 DEF Speaking, Live
    <3> QED
      BY <1>3, <2>1, <3>2, <3>4
  <2>3. CASE t = k
    <3>1. N(new, k, g) = N(st, k, g) \cup {i}
      BY <1>1, <1>4, <2>3
    <3>2. i \notin N(st, k, g)
      OBVIOUS
    <3>3. IsFiniteSet(N(st, k, g)) /\ Cardinality(N(st, k, g)) \in Nat
      <4>1. N(st, k, g) \subseteq AttemptId
        BY DEF Started
      <4> QED
        BY <4>1, ConstantsAssumption, FS_Subset, FS_CardinalityType
    <3> HIDE DEF N
    <3>4. Cardinality(N(new, k, g)) = Cardinality(N(st, k, g)) + 1
      BY <3>1, <3>2, <3>3, FS_AddElement
    <3>5. AttemptCount(new, k, g) = AttemptCount(st, k, g) + 1 /\ AttemptCount(st, k, g) \in Nat
      BY <3>3, <3>4 DEF AttemptCount, N
    <3>6. ~ Speaking(st, k)
      BY <1>1 DEF Speaking
    <3>7. Speaking(new, k)
      BY <1>1, <1>3, <1>4 DEF Speaking, Live
    <3>8. MaxAttempts[k.step] \in Nat
      BY <1>1, ConstantsAssumption DEF TaskKey
    <3> QED
      BY <1>2, <1>3, <2>1, <2>3, <3>5, <3>6, <3>7, <3>8
  <2> QED
    BY <2>2, <2>3
<1> QED
  BY <1>5 DEF Rationed, new

LEMMA EndRationed ==
  ASSUME NEW st, Sound(st), Serial(st), Rationed(st), NEW i \in Started(st),
         st.attempts[i].disposition = "live", NEW d \in Ending
  PROVE  Rationed(ApplyAttemptEnded(st, i, d))
<1> DEFINE new == ApplyAttemptEnded(st, i, d)
           a == st.attempts[i]
           k == a.task
           over == [a EXCEPT !.disposition = d]
<1>1. /\ st.attempts \in [AttemptId -> AttemptRecord \cup {Unstarted}]
      /\ i \in AttemptId /\ a \in AttemptRecord /\ k \in TaskKey
  BY SerialTypes
<1>2. /\ new.attempts = [st.attempts EXCEPT ![i] = over]
      /\ \A t \in TaskKey :
           /\ new.task[t].desired_generation = st.task[t].desired_generation
           /\ t # k => new.task[t] = st.task[t]
      /\ a.generation # st.task[k].desired_generation => new.task[k] = st.task[k]
      /\ a.generation = st.task[k].desired_generation =>
           \/ AttemptCount(st, k, a.generation) < MaxAttempts[k.step]
           \/ new.task[k].outcome \in {"succeeded", "cancelled", "failed"}
  BY EndEffect
<1>3. /\ Started(new) = Started(st)
      /\ \A t : Live(new, t) = Live(st, t) \ {i}
  BY EndSerial
<1>4. over.task = k /\ over.generation = a.generation
  BY <1>1 DEF AttemptRecord
<1> HIDE DEF new, over
<1>5. /\ new.attempts[i] = over
      /\ \A j \in Started(st) : j # i => new.attempts[j] = st.attempts[j]
  BY <1>1, <1>2 DEF Started
<1>6. \A t, g : AttemptCount(new, t, g) = AttemptCount(st, t, g)
  BY <1>3, <1>4, <1>5, CountKept
<1>7. Live(st, k) = {i}
  BY <1>1 DEF Serial, Live
<1> HIDE DEF a, k
<1>8. \A t \in TaskKey : t # k => (Speaking(new, t) <=> Speaking(st, t))
  <2> SUFFICES ASSUME NEW t \in TaskKey, t # k
               PROVE  Speaking(new, t) <=> Speaking(st, t)
    OBVIOUS
  <2>1. i \notin Live(st, t)
    BY DEF Live, k, a
  <2>2. Live(new, t) = Live(st, t)
    BY <1>3, <2>1
  <2>3. \A j \in Live(st, t) : new.attempts[j] = st.attempts[j]
    BY <1>5, <2>1 DEF Live
  <2> QED
    BY <1>2, <2>2, <2>3 DEF Speaking
<1>9. Speaking(st, k) <=> a.generation = st.task[k].desired_generation
  BY <1>7 DEF Speaking, a
<1>10. ASSUME NEW t \in TaskKey
       PROVE  /\ AttemptCount(new, t, new.task[t].desired_generation) <= MaxAttempts[t.step]
              /\ new.task[t].outcome = "none" /\ ~ Speaking(new, t)
                   => AttemptCount(new, t, new.task[t].desired_generation) < MaxAttempts[t.step]
  <2>1. /\ AttemptCount(st, t, st.task[t].desired_generation) <= MaxAttempts[t.step]
        /\ st.task[t].outcome = "none" /\ ~ Speaking(st, t)
             => AttemptCount(st, t, st.task[t].desired_generation) < MaxAttempts[t.step]
    BY DEF Rationed
  <2>2. CASE t # k
    BY <1>2, <1>6, <1>8, <2>1, <2>2
  <2>3. CASE t = k /\ a.generation = st.task[k].desired_generation
    BY <1>2, <1>6, <2>1, <2>3
  <2>4. CASE t = k /\ a.generation # st.task[k].desired_generation
    BY <1>2, <1>6, <1>9, <2>1, <2>4
  <2> QED
    BY <2>2, <2>3, <2>4
<1> QED
  BY <1>10 DEF Rationed, new

LEMMA ForceRationed ==
  ASSUME TriesAllowed, NEW st, Sound(st), Serial(st), Rationed(st), NEW k \in TaskKey
  PROVE  Rationed(ApplyForce(st, k))
<1> DEFINE new == ApplyForce(st, k)
           hit == Cascade(st, k)
<1>1. /\ new.attempts = st.attempts
      /\ \A t \in TaskKey :
           /\ t \notin hit => new.task[t] = st.task[t]
           /\ t \in hit => new.task[t].desired_generation = st.task[t].desired_generation + 1
  BY ForceEffect
<1>2. Started(new) = Started(st) /\ \A t : Live(new, t) = Live(st, t)
  BY ForceSerial
<1> HIDE DEF new, hit
<1>3. \A t, g : AttemptCount(new, t, g) = AttemptCount(st, t, g)
  BY <1>1, <1>2, CountKept
<1>4. ASSUME NEW t \in TaskKey
      PROVE  /\ AttemptCount(new, t, new.task[t].desired_generation) <= MaxAttempts[t.step]
             /\ new.task[t].outcome = "none" /\ ~ Speaking(new, t)
                  => AttemptCount(new, t, new.task[t].desired_generation) < MaxAttempts[t.step]
  <2>1. CASE t \notin hit
    <3>1. Speaking(new, t) <=> Speaking(st, t)
      BY <1>1, <1>2, <2>1 DEF Speaking
    <3> QED
      BY <1>1, <1>3, <2>1, <3>1 DEF Rationed
  <2>2. CASE t \in hit
    <3> DEFINE g == new.task[t].desired_generation
    <3>1. {j \in Started(st) : st.attempts[j].task = t /\ st.attempts[j].generation = g} = {}
      <4>1. g = st.task[t].desired_generation + 1 /\ st.task[t].desired_generation \in Nat
        BY <1>1, <2>2, SerialTypes
      <4>2. \A j \in Started(st) : /\ st.attempts[j].generation \in Nat
                                   /\ st.attempts[j].generation <= st.task[st.attempts[j].task].desired_generation
        BY SerialTypes DEF Serial
      <4> QED
        BY <4>1, <4>2
    <3>2. AttemptCount(st, t, g) = 0
      BY <3>1, FS_EmptySet DEF AttemptCount
    <3>3. MaxAttempts[t.step] > 0 /\ MaxAttempts[t.step] \in Nat
      BY ConstantsAssumption DEF TriesAllowed, TaskKey
    <3> QED
      BY <1>3, <3>2, <3>3
  <2> QED
    BY <2>1, <2>2
<1> QED
  BY <1>4 DEF Rationed, new

-----------------------------------------------------------------------------
(* What has run or was skipped keeps its reason. *)

LEMMA RelatedTyped ==
  ASSUME NEW st, Sound(st), NEW k, NEW c, c.upstream \in Step
  PROVE  \A u \in RelatedKeys(st, k, c) : u \in TaskKey /\ u.step = c.upstream
<1>1. st.expansion[c.upstream].keys \subseteq Item
  BY DEF Sound, RunStateType, ExpansionRecord
<1>2. CASE c.upstream \in Expanding
  <2> SUFFICES ASSUME NEW u \in RelatedKeys(st, k, c)
               PROVE  u \in TaskKey /\ u.step = c.upstream
    OBVIOUS
  <2>1. PICK i \in st.expansion[c.upstream].keys : u = [step |-> c.upstream, item |-> i]
    BY <1>2 DEF RelatedKeys
  <2>2. i \in Item /\ i # NoItem
    BY <1>1, <2>1, ConstantsAssumption
  <2> QED
    BY <1>2, <2>1, <2>2 DEF TaskKey
<1>3. CASE c.upstream \notin Expanding
  BY <1>3 DEF RelatedKeys, TaskKey
<1> QED
  BY <1>2, <1>3

(* A task is a dependent of every task its clauses relate it to. *)
LEMMA RelatedDepend ==
  ASSUME NEW st, Sound(st), NEW k \in TaskKey, k \in st.recorded, IsMaterialized(st, k),
         NEW c \in Clause[k.step], c.upstream \in Step, NEW u \in RelatedKeys(st, k, c)
  PROVE  k \in Dependents(st, u)
<1>1. u.step = c.upstream
  BY RelatedTyped
<1>2. ASSUME c.mapping = "same_key"
      PROVE  k.item = u.item
  <2>1. CASE c.upstream \in Expanding
    <3>1. PICK i \in st.expansion[c.upstream].keys :
            /\ u = [step |-> c.upstream, item |-> i]
            /\ CASE c.mapping = "same_key"    -> i = k.item
                 [] c.mapping = "broadcast"   -> st.expansion[c.upstream].keys = {i}
                 [] c.mapping = "collect_all" -> TRUE
      BY <2>1, Zenon DEF RelatedKeys
    <3>2. i = k.item
      BY <1>2, <3>1, Zenon
    <3> QED
      BY <3>1, <3>2
  <2>2. CASE c.upstream \notin Expanding
    <3>1. u = [step |-> c.upstream, item |-> NoItem]
      BY <2>2 DEF RelatedKeys
    <3>2. k.step \in Step /\ k.step \notin Expanding
      BY <1>2, <2>2, AlignedAssumption DEF TaskKey
    <3>3. k.item = NoItem
      BY <3>2 DEF TaskKey
    <3> QED
      BY <3>1, <3>3
  <2> QED
    BY <2>1, <2>2
<1> QED
  BY <1>1, <1>2 DEF Dependents

(* In a serial run an outcome is final for its generation, so an upstream is *)
(* unsatisfiable once it has the wrong one.                                  *)
LEMMA SerialUpstream ==
  ASSUME NEW st, Sound(st), Serial(st), NEW u \in TaskKey, NEW requirement
  PROVE  /\ PermanentlyUnsatisfiable(st, u, requirement)
              <=> /\ requirement = "succeeded"
                  /\ st.task[u].outcome \notin {"none", "succeeded"}
         /\ Satisfies(st, u, requirement)
              <=> /\ st.task[u].outcome # "none"
                  /\ requirement = "succeeded" => st.task[u].outcome = "succeeded"
<1>1. IsTerminal(st.task[u]) <=> st.task[u].outcome # "none"
  BY DEF Serial, IsTerminal
<1>2. st.task[u].outcome # "none" => Live(st, u) = {}
  BY DEF Serial
<1> QED
  BY <1>1, <1>2 DEF PermanentlyUnsatisfiable, Satisfies

(* A clause that is satisfied or dead stays so while the rosters it reads and *)
(* the outcomes of the tasks it relates to stay.                              *)
LEMMA ClauseStays ==
  ASSUME NEW st, Sound(st), Serial(st), NEW new, Sound(new), Serial(new),
         NEW k \in TaskKey, NEW c,
         RosterKnown(st, k, c) => /\ RosterKnown(new, k, c)
                                  /\ RelatedKeys(new, k, c) = RelatedKeys(st, k, c),
         \A u \in RelatedKeys(st, k, c) :
            u \in TaskKey /\ st.task[u].outcome # "none" => new.task[u].outcome = st.task[u].outcome
  PROVE  /\ ClauseDead(st, k, c) => ClauseDead(new, k, c)
         /\ ClauseSatisfied(st, k, c) => ClauseSatisfied(new, k, c)
<1>1. CASE c.upstream \notin Step
  BY <1>1 DEF ClauseDead, ClauseSatisfied
<1>2. CASE ~ RosterKnown(st, k, c)
  BY <1>2, <1>1 DEF ClauseDead, ClauseSatisfied
<1>3. CASE c.upstream \in Step /\ RosterKnown(st, k, c)
  <2> DEFINE R == RelatedKeys(st, k, c)
  <2>1. R \subseteq TaskKey
    BY <1>3, RelatedTyped
  <2>2. RosterKnown(new, k, c) /\ RelatedKeys(new, k, c) = R
    BY <1>3
  <2>3. \A u \in R :
          /\ PermanentlyUnsatisfiable(st, u, c.requirement)
               => PermanentlyUnsatisfiable(new, u, c.requirement)
          /\ Satisfies(st, u, c.requirement) => Satisfies(new, u, c.requirement)
          /\ ~ (Satisfies(new, u, c.requirement) /\ PermanentlyUnsatisfiable(new, u, c.requirement))
    BY <2>1, SerialUpstream
  <2> HIDE DEF R
  <2>4. ClauseDead(st, k, c) => ClauseDead(new, k, c)
    BY <1>3, <2>2, <2>3 DEF ClauseDead, R
  <2>5. ASSUME ClauseSatisfied(st, k, c)
        PROVE  ClauseSatisfied(new, k, c)
    <3>1. CASE R = {}
      BY <1>3, <2>2, <2>5, <3>1 DEF ClauseSatisfied, ClauseDead, R
    <3>2. CASE R # {}
      BY <1>3, <2>2, <2>3, <2>5, <3>2 DEF ClauseSatisfied, ClauseDead, R
    <3> QED
      BY <3>1, <3>2
  <2> QED
    BY <2>4, <2>5
<1> QED
  BY <1>1, <1>2, <1>3

LEMMA RostersStay ==
  ASSUME NEW st, NEW new,
         \A s \in Step : IsClosed(st, s) => new.expansion[s] = st.expansion[s]
  PROVE  \A k \in TaskKey :
           /\ IsMaterialized(st, k) => IsMaterialized(new, k)
           /\ \A c : RosterKnown(st, k, c) => /\ RosterKnown(new, k, c)
                                              /\ RelatedKeys(new, k, c) = RelatedKeys(st, k, c)
<1> SUFFICES ASSUME NEW k \in TaskKey
             PROVE  /\ IsMaterialized(st, k) => IsMaterialized(new, k)
                    /\ \A c : RosterKnown(st, k, c) => /\ RosterKnown(new, k, c)
                                                       /\ RelatedKeys(new, k, c) = RelatedKeys(st, k, c)
  OBVIOUS
<1>1. k.step \in Step /\ Expanding \subseteq Step
  BY ConstantsAssumption DEF TaskKey
<1>2. IsMaterialized(st, k) => IsMaterialized(new, k)
  BY <1>1 DEF IsMaterialized, IsClosed
<1>3. ASSUME NEW c, RosterKnown(st, k, c)
      PROVE  RosterKnown(new, k, c) /\ RelatedKeys(new, k, c) = RelatedKeys(st, k, c)
  <2>1. CASE c.upstream \notin Expanding
    BY <2>1 DEF RosterKnown, RelatedKeys
  <2>2. CASE c.upstream \in Expanding
    <3>1. new.expansion[c.upstream] = st.expansion[c.upstream]
      BY <1>1, <1>3, <2>2 DEF RosterKnown
    <3> QED
      BY <1>3, <2>2, <3>1 DEF RosterKnown, RelatedKeys, IsClosed
  <2> QED
    BY <2>1, <2>2
<1> QED
  BY <1>2, <1>3

(* An event that keeps the closed rosters and the outcomes, and finds its own *)
(* reasons for what it adds, keeps the run grounded.                          *)
LEMMA GroundedKept ==
  ASSUME NEW st, Sound(st), Serial(st), Grounded(st), NEW new, Sound(new), Serial(new),
         \A s \in Step : IsClosed(st, s) => new.expansion[s] = st.expansion[s],
         \A s \in Step : new.expansion[s].state # "unmaterialized" => new.expansion[s].generation > 0,
         \A i \in Started(new) : IsMaterialized(st, new.attempts[i].task),
         \A t \in TaskKey :
           /\ st.task[t].outcome # "none" => new.task[t].outcome = st.task[t].outcome
           /\ new.task[t].outcome # "none" => st.task[t].outcome # "none" \/ IsMaterialized(st, t)
           /\ new.task[t].outcome = "skipped" =>
                st.task[t].outcome = "skipped" \/ \E c \in Clause[t.step] : ClauseDead(new, t, c)
           /\ new.task[t].outcome = "succeeded" \/ Speaking(new, t) =>
                \/ st.task[t].outcome = "succeeded" \/ Speaking(st, t)
                \/ \A c \in Clause[t.step] : ClauseSatisfied(st, t, c)
  PROVE  Grounded(new)
<1>1. \A k \in TaskKey :
        /\ IsMaterialized(st, k) => IsMaterialized(new, k)
        /\ \A c : RosterKnown(st, k, c) => /\ RosterKnown(new, k, c)
                                           /\ RelatedKeys(new, k, c) = RelatedKeys(st, k, c)
  BY RostersStay
<1>2. \A k \in TaskKey : \A c : /\ ClauseDead(st, k, c) => ClauseDead(new, k, c)
                                /\ ClauseSatisfied(st, k, c) => ClauseSatisfied(new, k, c)
  BY <1>1, ClauseStays
<1>3. \A i \in Started(new) : new.attempts[i].task \in TaskKey
  BY SerialTypes
<1>4. \A i \in Started(new) : IsMaterialized(new, new.attempts[i].task)
  BY <1>1, <1>3
<1>5. \A t \in TaskKey : new.task[t].outcome # "none" => IsMaterialized(new, t)
  BY <1>1 DEF Grounded
<1>6. ASSUME NEW t \in TaskKey, new.task[t].outcome = "skipped"
      PROVE  \E c \in Clause[t.step] : ClauseDead(new, t, c)
  BY <1>2, <1>6 DEF Grounded
<1>7. ASSUME NEW t \in TaskKey, new.task[t].outcome = "succeeded" \/ Speaking(new, t),
             NEW c \in Clause[t.step]
      PROVE  ClauseSatisfied(new, t, c)
  <2>1. ClauseSatisfied(st, t, c)
    BY <1>7 DEF Grounded
  <2> QED
    BY <1>2, <2>1
<1> QED
  BY <1>4, <1>5, <1>6, <1>7 DEF Grounded

LEMMA FreshStartGrounded ==
  ASSUME NEW st, Sound(st), Serial(st), Grounded(st), NEW start \in Dispatches(st),
         NEW i \in AttemptId, i \notin Started(st)
  PROVE  Grounded(ApplyAttemptStarted(st, i, start))
<1> DEFINE new == ApplyAttemptStarted(st, i, start)
           k == start.task
           rec == [task |-> k, generation |-> start.generation,
                   fence_epoch |-> start.fence_epoch, disposition |-> "live"]
<1>1. /\ k \in TaskKey
      /\ start.generation = st.task[k].desired_generation
      /\ start.fence_epoch = st.task[k].fence_epoch
      /\ IsMaterialized(st, k)
      /\ Live(st, k) = {}
      /\ \A c \in Clause[k.step] : ClauseSatisfied(st, k, c)
  BY DispatchedIsReady
<1>2. /\ new.expansion = st.expansion
      /\ new.attempts = [st.attempts EXCEPT ![i] = rec]
      /\ \A t \in TaskKey : /\ new.task[t].outcome = st.task[t].outcome
                            /\ new.task[t].desired_generation = st.task[t].desired_generation
  BY FreshStartEffect
<1>3. Sound(new)
  <2>1. start \in DispatchAttempt
    BY DispatchType
  <2> QED
    BY <1>1, <2>1, StartSound
<1>4. Serial(new)
  BY FreshStartSerial
<1>5. st.attempts \in [AttemptId -> AttemptRecord \cup {Unstarted}]
  BY SerialTypes
<1> HIDE DEF new
<1>6. /\ Started(new) = Started(st) \cup {i}
      /\ new.attempts[i] = rec
      /\ \A j \in Started(st) : new.attempts[j] = st.attempts[j]
  BY <1>2, <1>5 DEF Started, Unstarted
<1>7. \A t \in TaskKey : t # k => Live(new, t) = Live(st, t)
  BY <1>6 DEF Live
<1>8. \A t \in TaskKey : t # k => (Speaking(new, t) => Speaking(st, t))
  BY <1>2, <1>6, <1>7 DEF Speaking, Live
<1>9. \A s \in Step : /\ new.expansion[s] = st.expansion[s]
                      /\ new.expansion[s].state # "unmaterialized" => new.expansion[s].generation > 0
  BY <1>2 DEF Grounded
<1>10. \A j \in Started(new) : IsMaterialized(st, new.attempts[j].task)
  BY <1>1, <1>6 DEF Grounded
<1>11. \A t \in TaskKey :
         new.task[t].outcome = "succeeded" \/ Speaking(new, t) =>
           \/ st.task[t].outcome = "succeeded" \/ Speaking(st, t)
           \/ \A c \in Clause[t.step] : ClauseSatisfied(st, t, c)
  BY <1>1, <1>2, <1>8
<1>12. Grounded(new)
  BY <1>2, <1>3, <1>4, <1>9, <1>10, <1>11, GroundedKept
<1> QED
  BY <1>12 DEF new

LEMMA EndGrounded ==
  ASSUME NEW st, Sound(st), Serial(st), Grounded(st), NEW i \in Started(st),
         st.attempts[i].disposition = "live", NEW d \in Ending
  PROVE  Grounded(ApplyAttemptEnded(st, i, d))
<1> DEFINE new == ApplyAttemptEnded(st, i, d)
           a == st.attempts[i]
           k == a.task
           over == [a EXCEPT !.disposition = d]
<1>1. /\ st.attempts \in [AttemptId -> AttemptRecord \cup {Unstarted}]
      /\ i \in AttemptId /\ a \in AttemptRecord /\ k \in TaskKey
  BY SerialTypes
<1>2. /\ new.expansion = st.expansion
      /\ new.attempts = [st.attempts EXCEPT ![i] = over]
      /\ \A t \in TaskKey :
           /\ new.task[t].desired_generation = st.task[t].desired_generation
           /\ t # k => new.task[t] = st.task[t]
      /\ a.generation # st.task[k].desired_generation => new.task[k] = st.task[k]
      /\ a.generation = st.task[k].desired_generation =>
           \/ new.task[k].outcome = st.task[k].outcome
           \/ new.task[k].outcome \in {"succeeded", "cancelled", "failed"}
  BY EndEffect
<1>3. /\ Sound(new) /\ Serial(new)
      /\ Started(new) = Started(st)
      /\ \A t : Live(new, t) = Live(st, t) \ {i}
  BY <1>1, EndSound, EndSerial
<1>4. over.task = k /\ over.generation = a.generation
  BY <1>1 DEF AttemptRecord
<1> HIDE DEF new, over
<1>5. /\ new.attempts[i] = over
      /\ \A j \in Started(st) : j # i => new.attempts[j] = st.attempts[j]
  BY <1>1, <1>2 DEF Started
<1>6. i \in Live(st, k) /\ IsMaterialized(st, k) /\ st.task[k].outcome = "none"
  BY <1>1 DEF Live, Grounded, Serial
<1>7. a.generation = st.task[k].desired_generation => Speaking(st, k)
  BY <1>6 DEF Speaking
<1> HIDE DEF a, k
<1>8. \A j \in Started(new) : IsMaterialized(st, new.attempts[j].task)
  BY <1>3, <1>4, <1>5, <1>6 DEF Grounded
<1>9. \A s \in Step : /\ new.expansion[s] = st.expansion[s]
                      /\ new.expansion[s].state # "unmaterialized" => new.expansion[s].generation > 0
  BY <1>2 DEF Grounded
<1>10. \A t \in TaskKey : Speaking(new, t) => Speaking(st, t)
  BY <1>2, <1>3, <1>5 DEF Speaking, Live
<1>11. \A t \in TaskKey :
         /\ st.task[t].outcome # "none" => new.task[t].outcome = st.task[t].outcome
         /\ new.task[t].outcome # "none" => st.task[t].outcome # "none" \/ IsMaterialized(st, t)
         /\ new.task[t].outcome = "skipped" => st.task[t].outcome = "skipped"
         /\ new.task[t].outcome = "succeeded" => st.task[t].outcome = "succeeded" \/ Speaking(st, t)
  BY <1>2, <1>6, <1>7
<1>12. Grounded(new)
  BY <1>3, <1>8, <1>9, <1>10, <1>11, GroundedKept
<1> QED
  BY <1>12 DEF new

(* A force takes with it everything whose reason it takes away. *)
LEMMA ForceGrounded ==
  ASSUME NEW st, Sound(st), Serial(st), Grounded(st), NEW k \in TaskKey
  PROVE  Grounded(ApplyForce(st, k))
<1> DEFINE new == ApplyForce(st, k)
           hit == Cascade(st, k)
<1>1. /\ new.expansion = st.expansion
      /\ new.attempts = st.attempts
      /\ \A t \in TaskKey :
           /\ t \notin hit => new.task[t] = st.task[t]
           /\ t \in hit => /\ new.task[t].desired_generation = st.task[t].desired_generation + 1
                           /\ new.task[t].outcome = "none"
  BY ForceEffect
<1>2. /\ Sound(new) /\ Serial(new)
      /\ Started(new) = Started(st)
      /\ \A t : Live(new, t) = Live(st, t)
  BY ForceSound, ForceSerial
<1>3. \A u \in hit : \A t \in Dependents(st, u) : t \in hit
  BY CascadeClosed
<1> HIDE DEF new, hit
<1>4. \A t \in TaskKey :
        /\ IsMaterialized(st, t) <=> IsMaterialized(new, t)
        /\ \A c : RosterKnown(st, t, c) => /\ RosterKnown(new, t, c)
                                           /\ RelatedKeys(new, t, c) = RelatedKeys(st, t, c)
  BY <1>1 DEF IsMaterialized, IsClosed, RosterKnown, RelatedKeys
<1>5. \A t \in TaskKey : t \in hit => ~ Speaking(new, t)
  <2> SUFFICES ASSUME NEW t \in hit, t \in TaskKey, NEW j \in Live(st, t)
               PROVE  st.attempts[j].generation # new.task[t].desired_generation
    BY <1>1, <1>2 DEF Speaking
  <2>1. /\ j \in Started(st) /\ st.attempts[j].task = t
        /\ st.attempts[j].generation \in Nat
        /\ st.attempts[j].generation <= st.task[t].desired_generation
    BY SerialTypes DEF Live, Serial
  <2>2. st.task[t].desired_generation \in Nat
    BY SerialTypes
  <2> QED
    BY <1>1, <2>1, <2>2
<1>6. \A t \in TaskKey : t \notin hit => (Speaking(new, t) <=> Speaking(st, t))
  BY <1>1, <1>2 DEF Speaking
<1>7. ASSUME NEW t \in TaskKey, t \notin hit, t \in st.recorded, IsMaterialized(st, t),
             NEW c \in Clause[t.step]
      PROVE  /\ ClauseDead(st, t, c) => ClauseDead(new, t, c)
             /\ ClauseSatisfied(st, t, c) => ClauseSatisfied(new, t, c)
  <2>1. CASE c.upstream \notin Step
    BY <2>1 DEF ClauseDead, ClauseSatisfied
  <2>2. CASE c.upstream \in Step
    <3>1. \A u \in RelatedKeys(st, t, c) : u \notin hit
      BY <1>3, <1>7, <2>2, RelatedDepend
    <3>2. \A u \in RelatedKeys(st, t, c) : u \in TaskKey => new.task[u] = st.task[u]
      BY <1>1, <3>1
    <3> QED
      BY <1>2, <1>4, <3>2, ClauseStays
  <2> QED
    BY <2>1, <2>2
<1>8. \A t \in TaskKey : st.task[t].outcome # "none" \/ Speaking(st, t) =>
        t \in st.recorded /\ IsMaterialized(st, t)
  <2> SUFFICES ASSUME NEW t \in TaskKey, st.task[t].outcome # "none" \/ Speaking(st, t)
               PROVE  t \in st.recorded /\ IsMaterialized(st, t)
    OBVIOUS
  <2>1. CASE st.task[t].outcome # "none"
    BY <2>1 DEF Serial, Grounded
  <2>2. CASE Speaking(st, t)
    <3>1. PICK j \in Live(st, t) : TRUE
      BY <2>2 DEF Speaking
    <3>2. j \in Started(st) /\ st.attempts[j].task = t
      BY <3>1 DEF Live
    <3> QED
      BY <3>2 DEF Sound, Records, Grounded
  <2> QED
    BY <2>1, <2>2
<1>9. \A s \in Step : new.expansion[s].state # "unmaterialized" => new.expansion[s].generation > 0
  BY <1>1 DEF Grounded
<1>10. \A j \in Started(new) : IsMaterialized(new, new.attempts[j].task)
  <2>1. \A j \in Started(st) : st.attempts[j].task \in TaskKey
    BY SerialTypes
  <2> QED
    BY <1>1, <1>2, <1>4, <2>1 DEF Grounded
<1>11. \A t \in TaskKey : new.task[t].outcome # "none" => IsMaterialized(new, t)
  BY <1>1, <1>4 DEF Grounded
<1>12. ASSUME NEW t \in TaskKey, new.task[t].outcome = "skipped"
       PROVE  \E c \in Clause[t.step] : ClauseDead(new, t, c)
  <2>1. t \notin hit /\ st.task[t].outcome = "skipped"
    BY <1>1, <1>12
  <2>2. PICK c \in Clause[t.step] : ClauseDead(st, t, c)
    BY <2>1 DEF Grounded
  <2> QED
    BY <1>7, <1>8, <2>1, <2>2
<1>13. ASSUME NEW t \in TaskKey, new.task[t].outcome = "succeeded" \/ Speaking(new, t),
              NEW c \in Clause[t.step]
       PROVE  ClauseSatisfied(new, t, c)
  <2>1. t \notin hit
    BY <1>1, <1>5, <1>13
  <2>2. st.task[t].outcome = "succeeded" \/ Speaking(st, t)
    BY <1>1, <1>6, <1>13, <2>1
  <2>3. ClauseSatisfied(st, t, c)
    BY <2>2 DEF Grounded
  <2> QED
    BY <1>7, <1>8, <2>1, <2>2, <2>3
<1> QED
  BY <1>9, <1>10, <1>11, <1>12, <1>13 DEF Grounded, new

(* Settlement skips nobody without a reason: were the clauses of one member of *)
(* the least set all alive, the set without it would be closed too.            *)
LEMMA BlockedIsDead ==
  ASSUME NEW st, Sound(st), NEW k \in BlockedSet(st)
  PROVE  \E c \in Clause[k.step] : ClauseDead(SkipAll(st, BlockedSet(st)), k, c)
<1> DEFINE B == BlockedSet(st)
           D == B \ {k}
<1>1. B \in SUBSET Open(st) /\ D \in SUBSET Open(st) /\ D \subseteq B
  BY DEF BlockedSet
<1>2. ClosedUnderBlocking(st, B)
  BY BlockedSetClosed
<1>3. ~ ClosedUnderBlocking(st, D)
  BY <1>1 DEF BlockedSet
<1>4. PICK j \in Open(st) \ D : \E c \in Clause[j.step] : ClauseDead(SkipAll(st, D), j, c)
  BY <1>3 DEF ClosedUnderBlocking
<1>5. j \in TaskKey
  BY <1>4 DEF Open, Materialized
<1>6. \E c \in Clause[j.step] : ClauseDead(SkipAll(st, B), j, c)
  BY <1>1, <1>4, <1>5, DeadMonotone
<1>7. j = k
  BY <1>2, <1>4, <1>6 DEF ClosedUnderBlocking
<1> QED
  BY <1>6, <1>7

LEMMA SettleGrounded ==
  ASSUME NEW st, Sound(st), Serial(st), Grounded(st)
  PROVE  Grounded(SettleBlocked(st))
<1> DEFINE B == BlockedSet(st)
           new == SkipAll(st, B)
<1>1. B \in SUBSET Open(st)
  BY DEF BlockedSet
<1>2. /\ new.expansion = st.expansion
      /\ new.attempts = st.attempts
      /\ \A t \in TaskKey :
           /\ new.task[t].desired_generation = st.task[t].desired_generation
           /\ t \notin B => new.task[t] = st.task[t]
           /\ t \in B => new.task[t].outcome = "skipped"
  BY <1>1, SkipEffect
<1>3. /\ Sound(new) /\ Serial(new)
      /\ Started(new) = Started(st)
      /\ \A t : Live(new, t) = Live(st, t)
      /\ \A t \in B : st.task[t].outcome = "none"
  BY <1>1, SkipSound, SkipSerial
<1>4. \A t \in B : /\ IsMaterialized(st, t)
                   /\ \E c \in Clause[t.step] : ClauseDead(new, t, c)
  BY <1>1, BlockedIsDead DEF Open, Materialized
<1>5. SettleBlocked(st) = new
  BY DEF SettleBlocked
<1> HIDE DEF new, B
<1>6. \A t \in TaskKey : Speaking(new, t) <=> Speaking(st, t)
  BY <1>2, <1>3 DEF Speaking
<1>7. \A j \in Started(new) : IsMaterialized(st, new.attempts[j].task)
  BY <1>2, <1>3 DEF Grounded
<1>8. \A s \in Step : /\ new.expansion[s] = st.expansion[s]
                      /\ new.expansion[s].state # "unmaterialized" => new.expansion[s].generation > 0
  BY <1>2 DEF Grounded
<1>9. \A t \in TaskKey :
        /\ st.task[t].outcome # "none" => new.task[t].outcome = st.task[t].outcome
        /\ new.task[t].outcome # "none" => st.task[t].outcome # "none" \/ IsMaterialized(st, t)
        /\ new.task[t].outcome = "skipped" =>
             st.task[t].outcome = "skipped" \/ \E c \in Clause[t.step] : ClauseDead(new, t, c)
        /\ new.task[t].outcome = "succeeded" => st.task[t].outcome = "succeeded"
  BY <1>2, <1>3, <1>4
<1>10. Grounded(new)
  BY <1>3, <1>6, <1>7, <1>8, <1>9, GroundedKept
<1> QED
  BY <1>5, <1>10

-----------------------------------------------------------------------------
(* The run of a runtime that waits, as one invariant: what its tries and its *)
(* reasons are worth under a policy that allows a try and rosters that are   *)
(* closed once.                                                              *)

Orderly(st) ==
  /\ Serial(st)
  /\ TriesAllowed => Rationed(st)
  /\ RosterBound <= 1 => Grounded(st)

Waiting == Orderly(state) /\ issued = Dispatches(state)

(* An event that touches neither attempts nor outcomes nor closed rosters. *)
LEMMA OrderlyKept ==
  ASSUME NEW st, Sound(st), Orderly(st), NEW new, Sound(new),
         new.recorded = st.recorded, new.attempts = st.attempts,
         RosterBound <= 1 /\ Grounded(st) =>
           \A s \in Step : /\ IsClosed(st, s) => new.expansion[s] = st.expansion[s]
                           /\ new.expansion[s].state # "unmaterialized" => new.expansion[s].generation > 0,
         \A t \in TaskKey :
            /\ new.task[t].outcome = st.task[t].outcome
            /\ new.task[t].outcome_generation = st.task[t].outcome_generation
            /\ new.task[t].desired_generation = st.task[t].desired_generation
            /\ new.task[t].fence_epoch = st.task[t].fence_epoch
  PROVE  Orderly(new)
<1>1. \A i \in Started(st) : st.attempts[i].task \in TaskKey
  BY SerialTypes
<1>2. Serial(new) /\ \A t : Live(new, t) = Live(st, t)
  BY <1>1, SerialKept DEF Orderly
<1>3. TriesAllowed => Rationed(new)
  BY RationedKept DEF Orderly
<1>4. ASSUME RosterBound <= 1
      PROVE  Grounded(new)
  <2>1. Grounded(st) /\ Serial(st)
    BY <1>4 DEF Orderly
  <2>2. \A t \in TaskKey : Speaking(new, t) <=> Speaking(st, t)
    BY <1>2 DEF Speaking
  <2>3. \A j \in Started(new) : IsMaterialized(st, new.attempts[j].task)
    BY <2>1 DEF Grounded, Started
  <2>4. \A s \in Step : /\ IsClosed(st, s) => new.expansion[s] = st.expansion[s]
                        /\ new.expansion[s].state # "unmaterialized" => new.expansion[s].generation > 0
    BY <1>4, <2>1
  <2> QED
    BY <1>2, <2>1, <2>2, <2>3, <2>4, GroundedKept
<1> QED
  BY <1>2, <1>3, <1>4 DEF Orderly

LEMMA ExpansionOrderly ==
  ASSUME NEW st, Sound(st), Orderly(st), NEW s \in Expanding, NEW rec \in ExpansionRecord,
         rec.generation \in 1..RosterBound,
         rec.generation = st.expansion[s].generation => st.expansion[s].state = "unmaterialized"
  PROVE  Orderly(WithExpansion(st, s, rec))
<1> DEFINE new == WithExpansion(st, s, rec)
<1>1. s \in Step /\ Sound(new)
  BY ConstantsAssumption, ExpansionSound
<1>2. /\ new.recorded = st.recorded
      /\ new.attempts = st.attempts
      /\ new.task = st.task
      /\ \A x \in Step : new.expansion[x] = IF x = s /\ rec.generation >= st.expansion[s].generation
                                            THEN rec ELSE st.expansion[x]
  BY <1>1 DEF WithExpansion, Sound, RunStateType
<1>3. st.expansion[s].generation \in Nat /\ rec.generation \in Nat /\ RosterBound \in Nat
  BY <1>1, ConstantsAssumption DEF Sound, RunStateType, ExpansionRecord
<1> HIDE DEF new
<1>4. ASSUME RosterBound <= 1, Grounded(st)
      PROVE  \A x \in Step : /\ IsClosed(st, x) => new.expansion[x] = st.expansion[x]
                             /\ new.expansion[x].state # "unmaterialized" => new.expansion[x].generation > 0
  <2>1. rec.generation = 1
    BY <1>3, <1>4
  <2>2. IsClosed(st, s) => ~ (rec.generation >= st.expansion[s].generation)
    BY <1>1, <1>3, <1>4, <2>1 DEF IsClosed, Grounded
  <2> QED
    BY <1>2, <1>4, <2>1, <2>2 DEF Grounded
<1>5. Orderly(new)
  BY <1>1, <1>2, <1>4, OrderlyKept
<1> QED
  BY <1>5 DEF new

(* Settlement ends the step. *)
LEMMA SettleOrderly ==
  ASSUME ~ LateStart, NEW st, Sound(st), Orderly(st), Reduce(st)
  PROVE  Waiting'
<1> DEFINE B == BlockedSet(st)
<1>1. B \in SUBSET Open(st) /\ SettleBlocked(st) = SkipAll(st, B)
  BY DEF BlockedSet, SettleBlocked
<1>2. state' = SettleBlocked(st) /\ issued' = Dispatches(state')
  BY DEF Reduce
<1>3. Serial(SettleBlocked(st))
  BY <1>1, SkipSerial DEF Orderly
<1>4. TriesAllowed => Rationed(SettleBlocked(st))
  <2>1. /\ SettleBlocked(st).attempts = st.attempts
        /\ \A t \in TaskKey :
             /\ SettleBlocked(st).task[t].desired_generation = st.task[t].desired_generation
             /\ SettleBlocked(st).task[t].outcome = "none" => st.task[t].outcome = "none"
    <3>1. /\ SkipAll(st, B).attempts = st.attempts
          /\ \A t \in TaskKey :
               /\ SkipAll(st, B).task[t].desired_generation = st.task[t].desired_generation
               /\ t \notin B => SkipAll(st, B).task[t] = st.task[t]
               /\ t \in B => SkipAll(st, B).task[t].outcome = "skipped"
      BY <1>1, SkipEffect
    <3> QED
      BY <1>1, <3>1
  <2> QED
    BY <2>1, RationedKept DEF Orderly
<1>5. RosterBound <= 1 => Grounded(SettleBlocked(st))
  BY SettleGrounded DEF Orderly
<1>6. Orderly(state')
  BY <1>2, <1>3, <1>4, <1>5 DEF Orderly
<1> QED
  BY <1>2, <1>6 DEF Waiting, Orderly, Serial, Rationed, Grounded, Speaking, Live, Started

LEMMA WaitingInit == Init => Waiting
<1> SUFFICES ASSUME Init PROVE Waiting
  OBVIOUS
<1> DEFINE B == BlockedSet(InitialRun)
<1>1. Sound(InitialRun)
  BY InitialSound
<1>2. /\ \A i \in AttemptId : InitialRun.attempts[i] = Unstarted
      /\ \A k \in TaskKey : InitialRun.task[k] = NewTask
      /\ \A s \in Step : InitialRun.expansion[s].state = "unmaterialized"
  BY DEF InitialRun
<1>3. Started(InitialRun) = {} /\ \A t : Live(InitialRun, t) = {}
  BY <1>2 DEF Started, Live
<1>4. Serial(InitialRun)
  BY <1>2, <1>3 DEF Serial, NewTask
<1>5. ASSUME TriesAllowed
      PROVE  Rationed(InitialRun)
  <2> SUFFICES ASSUME NEW k \in TaskKey
               PROVE  /\ AttemptCount(InitialRun, k, InitialRun.task[k].desired_generation) = 0
                      /\ MaxAttempts[k.step] > 0 /\ MaxAttempts[k.step] \in Nat
    BY DEF Rationed
  <2>1. \A g : {i \in Started(InitialRun) : InitialRun.attempts[i].task = k
                                              /\ InitialRun.attempts[i].generation = g} = {}
    BY <1>3
  <2>2. \A g : AttemptCount(InitialRun, k, g) = 0
    BY <2>1, FS_EmptySet DEF AttemptCount
  <2> QED
    BY <1>5, <2>2, ConstantsAssumption DEF TriesAllowed, TaskKey
<1>6. Grounded(InitialRun)
  <2>1. \A k \in TaskKey : ~ Speaking(InitialRun, k)
    BY <1>3 DEF Speaking
  <2> QED
    BY <1>2, <1>3, <2>1 DEF Grounded, NewTask
<1>7. Orderly(InitialRun)
  BY <1>4, <1>5, <1>6 DEF Orderly
<1>8. B \in SUBSET Open(InitialRun) /\ SettleBlocked(InitialRun) = SkipAll(InitialRun, B)
  BY DEF BlockedSet, SettleBlocked
<1>9. /\ SkipAll(InitialRun, B).attempts = InitialRun.attempts
      /\ \A t \in TaskKey :
           /\ SkipAll(InitialRun, B).task[t].desired_generation = InitialRun.task[t].desired_generation
           /\ t \notin B => SkipAll(InitialRun, B).task[t] = InitialRun.task[t]
           /\ t \in B => SkipAll(InitialRun, B).task[t].outcome = "skipped"
  BY <1>1, <1>8, SkipEffect
<1>10. \A t \in TaskKey : SkipAll(InitialRun, B).task[t].outcome = "none"
                            => InitialRun.task[t].outcome = "none"
  BY <1>9
<1>11. Orderly(SettleBlocked(InitialRun))
  <2>1. Serial(SettleBlocked(InitialRun))
    BY <1>1, <1>4, <1>8, SkipSerial
  <2>2. TriesAllowed => Rationed(SettleBlocked(InitialRun))
    BY <1>5, <1>8, <1>9, <1>10, RationedKept
  <2>3. Grounded(SettleBlocked(InitialRun))
    BY <1>1, <1>4, <1>6, SettleGrounded
  <2> QED
    BY <2>1, <2>2, <2>3 DEF Orderly
<1> QED
  BY <1>11 DEF Waiting, Init

LEMMA WaitingStep ==
  ASSUME ~ LateStart, Inv, Waiting, Next
  PROVE  Waiting'
<1>0. Sound(state) /\ Orderly(state) /\ Serial(state) /\ issued = Dispatches(state)
  BY DEF Inv, Waiting, Orderly
<1>1. ASSUME NEW s \in Expanding, NEW g \in 1..RosterBound, NEW keys \in Rosters,
             ExpansionClosed(s, g, keys)
      PROVE  Waiting'
  <2> DEFINE rec == IF Cardinality({keys[n] : n \in DOMAIN keys}) # Len(keys)
                    THEN [generation |-> g, state |-> "failed", keys |-> {}]
                    ELSE [generation |-> g, state |-> "closed", keys |-> {keys[n] : n \in DOMAIN keys}]
  <2>1. g \in Nat /\ s \in Step
    BY ConstantsAssumption
  <2>2. {keys[n] : n \in DOMAIN keys} \subseteq Item
    BY DEF Rosters
  <2>3. rec \in ExpansionRecord /\ rec.generation = g
    BY <2>1, <2>2 DEF ExpansionRecord
  <2>4. ApplyExpansionClosed(state, s, g, keys) = WithExpansion(state, s, rec)
    BY DEF ApplyExpansionClosed
  <2> HIDE DEF rec
  <2>5. /\ Reduce(WithExpansion(state, s, rec))
        /\ g = state.expansion[s].generation => state.expansion[s].state = "unmaterialized"
    BY <1>1, <2>4 DEF ExpansionClosed
  <2>6. Sound(WithExpansion(state, s, rec)) /\ Orderly(WithExpansion(state, s, rec))
    BY <1>0, <2>1, <2>3, <2>5, ExpansionSound, ExpansionOrderly
  <2> QED
    BY <2>5, <2>6, SettleOrderly
<1>2. ASSUME NEW s \in Expanding, NEW g \in 1..RosterBound, ExpansionFailed(s, g)
      PROVE  Waiting'
  <2> DEFINE rec == [generation |-> g, state |-> "failed", keys |-> {}]
  <2>1. g \in Nat /\ s \in Step
    BY ConstantsAssumption
  <2>2. rec \in ExpansionRecord /\ rec.generation = g
    BY <2>1 DEF ExpansionRecord
  <2>3. /\ Reduce(WithExpansion(state, s, rec))
        /\ g = state.expansion[s].generation => state.expansion[s].state = "unmaterialized"
    BY <1>2 DEF ExpansionFailed, ApplyExpansionFailed
  <2> HIDE DEF rec
  <2>4. Sound(WithExpansion(state, s, rec)) /\ Orderly(WithExpansion(state, s, rec))
    BY <1>0, <2>1, <2>2, <2>3, ExpansionSound, ExpansionOrderly
  <2> QED
    BY <2>3, <2>4, SettleOrderly
<1>3. ASSUME NEW i \in AttemptId, NEW start \in issued, AttemptStarted(i, start)
      PROVE  Waiting'
  <2> DEFINE new == ApplyAttemptStarted(state, i, start)
  <2>1. start \in Dispatches(state) /\ i \notin Started(state) /\ Reduce(new)
    BY <1>0, <1>3 DEF AttemptStarted
  <2>2. start \in DispatchAttempt /\ start.fence_epoch = state.task[start.task].fence_epoch
    BY <1>0, <2>1, DispatchType
  <2>3. Sound(new)
    BY <1>0, <2>1, <2>2, StartSound
  <2>4. Orderly(new)
    BY <1>0, <2>1, FreshStartSerial, FreshStartRationed, FreshStartGrounded DEF Orderly
  <2> QED
    BY <2>1, <2>3, <2>4, SettleOrderly
<1>4. ASSUME NEW i \in AttemptId, StartRedelivered(i)
      PROVE  Waiting'
  <2> DEFINE start == [task |-> state.attempts[i].task, generation |-> state.attempts[i].generation,
                       fence_epoch |-> state.attempts[i].fence_epoch]
             new == ApplyAttemptStarted(state, i, start)
  <2>1. i \in Started(state) /\ Reduce(new)
    BY <1>4 DEF StartRedelivered
  <2>2. state.attempts[i] \in AttemptRecord
    BY <1>0, <2>1, StartedMeans DEF Sound
  <2>3. start \in DispatchAttempt /\ start.task \in state.recorded
    BY <1>0, <2>1, <2>2 DEF AttemptRecord, DispatchAttempt, Sound, Records
  <2>4. Sound(new)
    BY <1>0, <2>1, <2>3, StartSound
  <2>5. /\ new.expansion = state.expansion
        /\ new.recorded = state.recorded
        /\ new.attempts = state.attempts
        /\ \A t \in TaskKey :
             /\ new.task[t].outcome = state.task[t].outcome
             /\ new.task[t].outcome_generation = state.task[t].outcome_generation
             /\ new.task[t].desired_generation = state.task[t].desired_generation
             /\ new.task[t].fence_epoch = state.task[t].fence_epoch
    BY <1>0, <2>1, RestartEffect
  <2> HIDE DEF new
  <2>6. Orderly(new)
    BY <1>0, <2>4, <2>5, OrderlyKept DEF Grounded
  <2> QED
    BY <2>1, <2>4, <2>6, SettleOrderly
<1>5. ASSUME NEW i \in AttemptId, NEW d \in Ending, AttemptEnded(i, d)
      PROVE  Waiting'
  <2> DEFINE new == ApplyAttemptEnded(state, i, d)
  <2>1. Reduce(new) /\ Sound(new)
    BY <1>0, <1>5, EndSound DEF AttemptEnded
  <2>2. CASE i \in Started(state) /\ state.attempts[i].disposition = "live"
    <3>1. Orderly(new)
      BY <1>0, <2>2, EndSerial, EndRationed, EndGrounded DEF Orderly
    <3> QED
      BY <2>1, <3>1, SettleOrderly
  <2>3. CASE ~ (i \in Started(state) /\ state.attempts[i].disposition = "live")
    <3>1. new = state
      BY <2>3 DEF ApplyAttemptEnded
    <3> QED
      BY <1>0, <2>1, <3>1, SettleOrderly
  <2> QED
    BY <2>2, <2>3
<1>6. ASSUME NEW k \in TaskKey, ForceIssued(k)
      PROVE  Waiting'
  <2>1. Reduce(ApplyForce(state, k)) /\ Sound(ApplyForce(state, k))
    BY <1>0, <1>6, ForceSound DEF ForceIssued
  <2>2. Orderly(ApplyForce(state, k))
    BY <1>0, ForceSerial, ForceRationed, ForceGrounded DEF Orderly
  <2> QED
    BY <2>1, <2>2, SettleOrderly
<1>7. ASSUME Tick
      PROVE  Waiting'
  <2> DEFINE new == [state EXCEPT !.now = state.now + 1]
  <2>1. Reduce(new) /\ Sound(new)
    BY <1>0, <1>7, TickSound DEF Tick
  <2>2. /\ new.expansion = state.expansion
        /\ new.recorded = state.recorded
        /\ new.attempts = state.attempts
        /\ new.task = state.task
    BY <1>0 DEF Sound, RunStateType
  <2> HIDE DEF new
  <2>3. Orderly(new)
    BY <1>0, <2>1, <2>2, OrderlyKept DEF Grounded
  <2> QED
    BY <2>1, <2>3, SettleOrderly
<1> QED
  BY <1>1, <1>2, <1>3, <1>4, <1>5, <1>6, <1>7 DEF Next

(* With a runtime that waits for the reducer the run stays orderly. *)
THEOREM WaitingInvariance ==
  ASSUME ~ LateStart
  PROVE  Spec => []Waiting
<1>1. Waiting /\ UNCHANGED vars => Waiting'
  BY DEF Waiting, Orderly, Serial, Rationed, Grounded, Speaking, Live, Started, vars
<1>2. Inv /\ Waiting /\ [Next]_vars => Waiting'
  BY <1>1, WaitingStep
<1> QED
  BY <1>2, WaitingInit, Invariance, PTL DEF Spec

(* A task never has two attempts at once, across forces, retries and starts  *)
(* that are delivered again: live_attempt can answer "the one".              *)
THEOREM OneAttemptAtATime ==
  ASSUME ~ LateStart
  PROVE  Spec => []SingleLiveAttempt
<1>1. Waiting => SingleLiveAttempt
  BY DEF Waiting, Orderly, Serial, SingleLiveAttempt
<1> QED
  BY <1>1, WaitingInvariance, PTL

(* Retries stop at the ceiling of the policy, lost attempts included.  A     *)
(* policy allows at least one try: the engine's retries come on top of it    *)
(* (trace.py, _retry_policy).                                                *)
THEOREM RetriesRationed ==
  ASSUME ~ LateStart, TriesAllowed
  PROVE  Spec => []RetryCeiling
<1>1. Waiting => RetryCeiling
  BY DEF Waiting, Orderly, Rationed, RetryCeiling
<1> QED
  BY <1>1, WaitingInvariance, PTL

(* A skipped task keeps a clause that can never be satisfied, on every step  *)
(* graph, as long as a roster that has closed is not replaced by another     *)
(* (the code closes each one once).                                          *)
THEOREM SkipsJustified ==
  ASSUME ~ LateStart, RosterBound <= 1
  PROVE  Spec => []SkipStaysJustified
<1>1. Waiting => SkipStaysJustified
  BY DEF Waiting, Orderly, Grounded, SkipStaysJustified, Materialized
<1> QED
  BY <1>1, WaitingInvariance, PTL

(* A force leaves no success behind that was computed over what it takes     *)
(* away, on every step graph, as long as rosters close once.                 *)
THEOREM SuccessOverCurrentWorld ==
  ASSUME ~ LateStart, RosterBound <= 1
  PROVE  Spec => []SucceededOverCurrentWorld
<1>1. Waiting => SucceededOverCurrentWorld
  BY DEF Waiting, Orderly, Grounded, SucceededOverCurrentWorld, Materialized
<1> QED
  BY <1>1, WaitingInvariance, PTL
=============================================================================
