------------------------- MODULE AgentRunnerProofs -------------------------
(***************************************************************************)
(* What the claims of mapped agent items are good for, with any number of  *)
(* workers, items, dispatches, retries and crashes: as long as the workers *)
(* that were given an item are known by registries of their own, two of    *)
(* them never run it at once, completed work is left alone, and an item    *)
(* that nobody reports as failed is completed.                             *)
(***************************************************************************)
EXTENDS AgentRunner, FiniteSetTheorems, WellFoundedInduction, TLAPS

-----------------------------------------------------------------------------
(* The inductive invariant, first of the jobs and their registries. *)

Busy(w) == pc[w] # "off" /\ ~ Terminal(w)

\* A job that was never started is nowhere.
OffIsFresh ==
  \A w \in Worker : pc[w] = "off" =>
    w \notin listed \cup pending \cup disowned /\ given[w] = {}
\* A job that is not disowned is in the manifest, or on its way into it.
Known == \A w \in Worker \ disowned : pc[w] # "off" => w \in listed \cup pending
OnlyGiven == \A w \in Worker, i \in Item : At(w, i) # "none" => i \in given[w]
ActiveRuns == \A w \in Worker, i \in Item : At(w, i) \in Active => Running(w)
DistinctIds == \A v, w \in Worker \ disowned : Busy(v) /\ Busy(w) /\ id[v] = id[w] => v = w
OneRegistry == \A i \in Item, n, m \in WorkerId : i \in claims[n] /\ i \in claims[m] => n = m
Held ==
  \A w \in Worker \ disowned, i \in Item : At(w, i) \in Active => i \in claims[id[w]]

JobsInv ==
  TypeOK /\ OffIsFresh /\ Known /\ OnlyGiven /\ ActiveRuns /\ DistinctIds /\ OneRegistry /\ Held

\* Then of the items: nobody works on a completed one, its outputs stay, and a claim tells
\* of a completion or of a worker that did not report the item as done.
CompletedIsValid == \A i \in Completed : Accounted(i) => i \in valid
ActiveIsOpen ==
  \A w \in Worker, i \in Item : Accounted(i) /\ At(w, i) \in Active => i \notin Completed
ClaimsTell ==
  \A i \in Item, n \in WorkerId : Accounted(i) /\ i \in claims[n] =>
    i \in Completed \/ \E w \in Worker : id[w] = n /\ i \in given[w] /\ At(w, i) # "ok"

Inv == JobsInv /\ CompletedIsValid /\ ActiveIsOpen /\ ClaimsTell /\ NothingForgotten

-----------------------------------------------------------------------------
(* Worker ids. *)

LEMMA LeastElement ==
  ASSUME NEW T \in SUBSET Nat, T # {}
  PROVE  \E m \in T : \A k \in T : m <= k
<1> DEFINE R == {ss \in Nat \X Nat : ss[1] < ss[2]}
<1>1. IsWellFoundedOn(R, Nat)
  BY NatLessThanWellFounded, Zenon DEF OpToRel
<1>2. PICK m \in T : \A k \in T : <<k, m>> \notin R
  BY <1>1, WFMin
<1>3. \A k \in T : ~ (k < m)
  BY <1>2 DEF R
<1> QED
  BY <1>3

LEMMA WorkerIdType == Cardinality(Worker) \in Nat \ {0} /\ WorkerId \subseteq Nat /\ 0 \in WorkerId
  BY RunnerAssumption, FS_CardinalityType, FS_EmptySet DEF WorkerId

\* A bounded set of ids has a greatest one: the least of its bounds.
LEMMA GreatestId ==
  ASSUME NEW S \in SUBSET WorkerId, S # {}
  PROVE  Max(S) \in S /\ \A n \in S : n <= Max(S)
<1> DEFINE Bounds == {k \in Nat : \A n \in S : n <= k}
<1>1. S \subseteq Nat
  BY WorkerIdType
<1>2. Cardinality(Worker) \in Bounds
  BY WorkerIdType, <1>1 DEF WorkerId
<1>3. PICK m \in Bounds : \A k \in Bounds : m <= k
  BY <1>2, LeastElement
<1>4. m \in S
  <2> SUFFICES ASSUME m \notin S PROVE FALSE
    OBVIOUS
  <2>1. \A n \in S : n < m
    BY <1>1
  <2>2. PICK n \in S : TRUE
    OBVIOUS
  <2>3. m - 1 \in Nat /\ \A k \in S : k <= m - 1
    BY <2>1, <2>2, <1>1
  <2>4. m - 1 \in Bounds
    BY <2>3
  <2> QED
    BY <2>4, <1>3
<1>5. \E x \in S : \A y \in S : x >= y
  BY <1>4, <1>1
<1> QED
  BY <1>5, <1>1 DEF Max

\* Consecutive ids for the new jobs: as many ids as jobs, so no two share one.
LEMMA NewIdsDiffer ==
  ASSUME NEW new \in SUBSET Worker, NEW ids \in [new -> WorkerId], NEW first \in Nat,
         {ids[w] : w \in new} = first..(first + Cardinality(new) - 1)
  PROVE  \A v, w \in new : ids[v] = ids[w] => v = w
<1> DEFINE T == first..(first + Cardinality(new) - 1)
<1>1. IsFiniteSet(new) /\ Cardinality(new) \in Nat
  BY RunnerAssumption, FS_Subset, FS_CardinalityType
<1>2. Cardinality(T) = Cardinality(new)
  BY SMTT(20), <1>1, FS_Interval, first \in Int, first + Cardinality(new) - 1 \in Int
<1>3. \A t \in T : \E w \in new : ids[w] = t
  OBVIOUS
<1>4. \A w \in new : ids[w] \in T
  OBVIOUS
<1>5. ids \in Surjection(new, T)
  <2>1. ids \in [new -> T]
    BY <1>4
  <2> HIDE DEF T
  <2> QED
    BY <2>1, <1>3 DEF Surjection
<1>6. ids \in Injection(new, T)
  BY <1>1, <1>2, <1>5, FS_SurjSameCardinalityImpliesInj
<1> QED
  BY <1>6 DEF Injection, IsInjective

-----------------------------------------------------------------------------
(* What a step of the scheduler does to the item it is about. *)

\* Moved to one of two queues, or reported as done because it is, or as another's.
Passed(w, i) ==
  /\ UNCHANGED disk
  /\ \/ At(w, i)' = "checked"
     \/ At(w, i)' = "ok" /\ (i \in Completed \/ ClaimedElsewhere(w, i))

\* Claimed: its outputs complete it or are refused, or it is submitted.
Taken(w, i) ==
  /\ ~ ClaimedElsewhere(w, i) /\ claims' = [claims EXCEPT ![id[w]] = @ \cup {i}]
  /\ UNCHANGED valid
  /\ \/ At(w, i)' = "ok" /\ i \in valid /\ task' = [task EXCEPT ![i].disposition = "succeeded"]
     \/ At(w, i)' = "bad" /\ UNCHANGED task
     \/ At(w, i)' = "submitted" /\ ~ Promoted(i) /\ UNCHANGED task

\* Its attempt begins, goes on, succeeds or fails.
Worked(w, i) ==
  /\ At(w, i) \in Active /\ UNCHANGED claims
  /\ \/ At(w, i)' \in Active /\ (i \notin Completed => i \notin Completed')
     \/ At(w, i)' = "ok" /\ i \in valid /\ i \in Completed' /\ UNCHANGED valid
     \/ At(w, i)' \notin Active \cup {"ok"} /\ UNCHANGED valid
        /\ (i \notin Completed => i \notin Completed')

\* Nothing else changes, but the worker may be unwinding then.
Only(w, i) ==
  /\ UNCHANGED jobs
  /\ Running(w) /\ Running(w)' /\ \A v \in Worker \ {w} : pc'[v] = pc[v]
  /\ \A v \in Worker, j \in Item : v # w \/ j # i => At(v, j)' = At(v, j)
  /\ \A j \in Item \ {i} : task'[j] = task[j] /\ (j \in valid' <=> j \in valid)
  /\ At(w, i) # "none" /\ At(w, i)' # "none"

ItemStep(w, i) == Fill(w, i) \/ Process(w, i) \/ Complete(w, i)

LEMMA ToEffect ==
  ASSUME TypeOK, NEW w \in Worker, NEW i \in Item, NEW s, To(w, i, s)
  PROVE  \A v \in Worker, j \in Item : At(v, j)' = IF v = w /\ j = i THEN s ELSE At(v, j)
  BY DEF TypeOK, To, At

LEMMA SettleEffect ==
  ASSUME TypeOK, NEW w \in Worker, NEW i \in Item, NEW s, Settle(w, i, s)
  PROVE  \A v \in Worker, j \in Item : At(v, j)' = IF v = w /\ j = i THEN s ELSE At(v, j)
  BY DEF TypeOK, Settle, Fresh, At

LEMMA RetryEffect ==
  ASSUME TypeOK, NEW w \in Worker, NEW i \in Item, Retry(w, i)
  PROVE  \A v \in Worker, j \in Item :
           At(v, j)' = IF v = w /\ j = i THEN "waiting" ELSE At(v, j)
  BY DEF TypeOK, Retry, At

\* An attempt that ends takes nothing else along, and only a success completes.
LEMMA EndsEffect ==
  ASSUME TypeOK, NEW w \in Worker, NEW i \in Item, NEW d, Ends(w, i, d)
  PROVE  /\ \A j \in Item \ {i} : task'[j] = task[j]
         /\ d # "succeeded" /\ i \notin Completed => i \notin Completed'
         /\ d = "succeeded" => i \in Completed'
  BY DEF TypeOK, Ends, Owns, Fact, Completed

LEMMA EndsFailedEffect ==
  ASSUME TypeOK, NEW w \in Worker, NEW i \in Item, NEW d, EndsFailed(w, i, d),
         d # "succeeded"
  PROVE  /\ \A j \in Item \ {i} : task'[j] = task[j]
         /\ i \notin Completed => i \notin Completed'
<1>1. CASE At(w, i) = "submitted"
  BY <1>1 DEF TypeOK, EndsFailed, Startable, Fact, Completed
<1>2. CASE At(w, i) # "submitted"
  BY <1>2, EndsEffect DEF EndsFailed
<1> QED
  BY <1>1, <1>2

LEMMA FillEffect ==
  ASSUME TypeOK, NEW w \in Worker, NEW i \in Item, Fill(w, i)
  PROVE  Only(w, i) /\ (Passed(w, i) \/ Taken(w, i))
<1> USE DEF Only, Running, jobs, disk, CanFill
<1>1. CASE Take(w, i)
  BY <1>1, ToEffect DEF Take, Passed, Completed, TypeOK
<1>2. CASE TakeRetry(w, i)
  BY <1>2, ToEffect DEF TakeRetry, Passed
<1>3. CASE SkipClaimed(w, i)
  BY <1>3, SettleEffect DEF SkipClaimed, Passed
<1>4. CASE Submit(w, i)
  <2>1. /\ \A j \in Item \ {i} : task'[j] = task[j]
        /\ UNCHANGED <<valid, jobs, pc>> /\ Running(w)
        /\ At(w, i) = "checked"
    BY <1>4 DEF Submit, TypeOK
  <2>2. CASE /\ Promoted(i) /\ task' = [task EXCEPT ![i].disposition = "succeeded"]
             /\ Settle(w, i, "ok")
    BY <1>4, <2>1, <2>2, SettleEffect DEF Submit, Taken, Promoted
  <2>3. CASE UNCHANGED task /\ Settle(w, i, "bad")
    BY <1>4, <2>1, <2>3, SettleEffect DEF Submit, Taken
  <2>4. CASE ~ Promoted(i) /\ UNCHANGED task /\ To(w, i, "submitted")
    BY <1>4, <2>1, <2>4, ToEffect DEF Submit, Taken
  <2> QED
    BY <1>4, <2>2, <2>3, <2>4 DEF Submit
<1> QED
  BY <1>1, <1>2, <1>3, <1>4 DEF Fill

LEMMA ProcessEffect ==
  ASSUME TypeOK, NEW w \in Worker, NEW i \in Item, Process(w, i)
  PROVE  Only(w, i) /\ Worked(w, i)
<1> USE DEF Only, Worked, Running, Active, jobs
<1>1. CASE Launch(w, i)
  <2>1. /\ i \notin Completed' /\ \A j \in Item \ {i} : task'[j] = task[j]
        /\ \A j \in Item \ {i} : j \in valid' <=> j \in valid
    BY <1>1 DEF Launch, Fact, Completed, TypeOK
  <2> QED
    BY <1>1, <2>1, ToEffect DEF Launch
<1>2. CASE Exit(w, i)
  BY <1>2, ToEffect DEF Exit, Completed
<1>3. CASE Kill(w, i)
  BY <1>3, ToEffect DEF Kill, Completed
<1> QED
  BY <1>1, <1>2, <1>3 DEF Process

LEMMA CompleteEffect ==
  ASSUME TypeOK, NEW w \in Worker, NEW i \in Item, Complete(w, i)
  PROVE  Only(w, i) /\ Worked(w, i)
<1> USE DEF Only, Worked, Running, Active, jobs, CanProcess, Failed
<1>1. CASE Succeed(w, i)
  BY <1>1, SettleEffect, EndsEffect DEF Succeed, TypeOK
<1>2. CASE Retry(w, i)
  BY <1>2, RetryEffect, EndsFailedEffect DEF Retry
<1>3. CASE AwaitCredential(w, i)
  BY <1>3, ToEffect, EndsEffect DEF AwaitCredential
<1>4. CASE GiveUp(w, i)
  <2> PICK d \in {"retryable", "permanent"} : EndsFailed(w, i, d)
    BY <1>4 DEF GiveUp
  <2> QED
    BY <1>4, SettleEffect, EndsFailedEffect DEF GiveUp
<1>5. CASE CompletionRaises(w, i)
  <2>1. (\A j \in Item \ {i} : task'[j] = task[j]) /\ (i \notin Completed => i \notin Completed')
    BY <1>5, EndsFailedEffect DEF CompletionRaises, Completed
  <2>2. Settle(w, i, "dropped") /\ pc' = [pc EXCEPT ![w] = "unwinding"]
    BY <1>5 DEF CompletionRaises, Raise
  <2> QED
    BY <1>5, <2>1, <2>2, SettleEffect DEF CompletionRaises, TypeOK
<1>6. CASE Cancel(w, i)
  <2>1. (\A j \in Item \ {i} : task'[j] = task[j]) /\ (i \notin Completed => i \notin Completed')
    BY <1>6, EndsFailedEffect DEF Cancel, Completed
  <2>2. CASE Settle(w, i, "bad") /\ UNCHANGED pc
    BY <1>6, <2>1, <2>2, SettleEffect DEF Cancel, TypeOK
  <2>3. CASE Raise(w, i)
    BY <1>6, <2>1, <2>3, SettleEffect DEF Cancel, Raise, TypeOK
  <2> QED
    BY <1>6, <2>2, <2>3 DEF Cancel
<1> QED
  BY <1>1, <1>2, <1>3, <1>4, <1>5, <1>6 DEF Complete

LEMMA ItemEffect ==
  ASSUME TypeOK, NEW w \in Worker, NEW i \in Item, ItemStep(w, i)
  PROVE  Only(w, i) /\ (Passed(w, i) \/ Taken(w, i) \/ Worked(w, i))
  BY FillEffect, ProcessEffect, CompleteEffect DEF ItemStep

-----------------------------------------------------------------------------
(* The steps of a worker's own life, and of the dispatcher. *)

LifeStep(w) == Boot(w) \/ Finish(w) \/ Unwind(w) \/ Shutdown(w) \/ Interrupt(w) \/ Crash(w)

LEMMA ReconciledEffect ==
  ASSUME TypeOK, task' = Reconciled
  PROVE  Completed' = Completed /\ \A i \in Completed : task'[i] = task[i]
  BY DEF TypeOK, Reconciled, Fact, Completed

LEMMA GoneEffect ==
  ASSUME TypeOK, NEW w \in Worker, shared' = Gone(w)
  PROVE  \A v \in Worker, i \in Item :
           \/ At(v, i)' = At(v, i) /\ (v = w => At(v, i) \in Left)
           \/ v = w /\ At(v, i) \notin Left /\ At(v, i)' = "dropped"
  BY DEF TypeOK, Gone, Fresh, At

LEMMA LifeEffect ==
  ASSUME TypeOK, NEW w \in Worker, LifeStep(w)
  PROVE  /\ UNCHANGED <<valid, claims, jobs>>
         /\ Completed' = Completed /\ \A i \in Completed : task'[i] = task[i]
         /\ Busy(w) /\ pc'[w] # "off" /\ \A v \in Worker \ {w} : pc'[v] = pc[v]
         /\ \A v \in Worker, i \in Item :
              \/ At(v, i)' = At(v, i)
              \/ v = w /\ At(v, i) \notin Left /\ At(v, i)' = "dropped"
         /\ \A i \in Item : At(w, i)' \in Active => Running(w)'
<1> USE DEF Busy, Terminal, Running, jobs
<1>1. CASE Boot(w)
  BY <1>1, ReconciledEffect DEF Boot, TypeOK, At
<1>2. CASE Finish(w)
  BY <1>2 DEF Finish, TypeOK, At, Left, Active, disk, Completed
<1>3. CASE Unwind(w)
  <2>1. \A i \in Item : At(w, i)' \notin Active
    BY <1>3, GoneEffect DEF Unwind, Left, Active
  <2> QED
    BY <1>3, <2>1, GoneEffect DEF Unwind, TypeOK, disk, Completed
<1>4. CASE Shutdown(w) \/ Interrupt(w)
  BY <1>4 DEF Shutdown, Interrupt, TypeOK, At, disk, Completed
<1>5. CASE Crash(w)
  <2>1. \A i \in Item : At(w, i)' \notin Active
    BY <1>5, GoneEffect DEF Crash, Left, Active
  <2> QED
    BY <1>5, <2>1, GoneEffect DEF Crash, TypeOK, disk, Completed
<1> QED
  BY <1>1, <1>2, <1>3, <1>4, <1>5 DEF LifeStep

\* A dispatch starts jobs that were off, with items that are not completed, under ids that
\* no other job that it knows of has, and takes the registries of ended jobs away.
LEMMA DispatchEffect ==
  ASSUME TypeOK, NEW new \in SUBSET Worker, Dispatch(new)
  PROVE  /\ UNCHANGED <<task, valid, listed>> /\ pending = {} /\ pending' = new
         /\ \A w \in new : pc[w] = "off" /\ pc'[w] = "booting"
         /\ \A w \in Worker \ new : id'[w] = id[w] /\ given'[w] = given[w] /\ pc'[w] = pc[w]
         /\ \A w \in Worker, i \in Item :
              At(w, i)' = IF w \in new /\ i \in given'[w] THEN "queued" ELSE At(w, i)
         /\ \A n \in WorkerId : claims'[n] \subseteq claims[n]
         /\ disowned \subseteq disowned'
         /\ \A w \in disowned' \ disowned : pc[w] # "off"
         /\ \A w \in Worker \ disowned' :
              pc[w] # "off" /\ ~ Terminal(w) => claims'[id[w]] = claims[id[w]]
         /\ \A v, w \in new : id'[v] = id'[w] => v = w
         /\ \A v \in listed, w \in new : ~ Terminal(v) => id[v] # id'[w]
<1> DEFINE active == {w \in listed : ~ Terminal(w)}
           first == FirstNewId(active)
<1> PICK actionable \in {Item, Item \ Completed} :
       \E p \in Partitions(actionable \ Adopted(active), new), ids \in [new -> WorkerId] :
         /\ {ids[w] : w \in new} = first..(first + Cardinality(new) - 1)
         /\ id' = [w \in Worker |-> IF w \in new THEN ids[w] ELSE id[w]]
         /\ given' = [w \in Worker |-> IF w \in new THEN p[w] ELSE given[w]]
         /\ shared' = [w \in Worker |-> [i \in Item |->
                         IF w \in new /\ i \in p[w] THEN Fresh("queued") ELSE shared[w][i]]]
  BY DEF Dispatch
<1> DEFINE items == actionable \ Adopted(active)
<1> PICK p \in Partitions(items, new), ids \in [new -> WorkerId] :
       /\ {ids[w] : w \in new} = first..(first + Cardinality(new) - 1)
       /\ id' = [w \in Worker |-> IF w \in new THEN ids[w] ELSE id[w]]
       /\ given' = [w \in Worker |-> IF w \in new THEN p[w] ELSE given[w]]
       /\ shared' = [w \in Worker |-> [i \in Item |->
                       IF w \in new /\ i \in p[w] THEN Fresh("queued") ELSE shared[w][i]]]
  OBVIOUS
<1>1. first \in Nat /\ \A v \in active : id[v] < first
  <2>1. CASE active = {}
    BY <2>1 DEF FirstNewId
  <2>2. CASE active # {}
    <3> DEFINE S == {id[w] : w \in active}
    <3>1. S \in SUBSET WorkerId /\ S # {}
      BY <2>2 DEF TypeOK
    <3>2. Max(S) \in S /\ \A n \in S : n <= Max(S)
      BY <3>1, GreatestId
    <3>3. Max(S) \in Nat /\ \A n \in S : n \in Nat
      BY <3>1, <3>2, WorkerIdType
    <3>4. first = Max(S) + 1
      BY <2>2 DEF FirstNewId
    <3> HIDE DEF first
    <3>5. \A v \in active : id[v] \in S
      OBVIOUS
    <3> HIDE DEF S, active
    <3> QED
      BY <3>2, <3>3, <3>4, <3>5
  <2> QED
    BY <2>1, <2>2
<1> HIDE DEF first, active
<1>2. \A w \in new : ids[w] >= first
  <2>1. \A w \in new : ids[w] \in first..(first + Cardinality(new) - 1)
    OBVIOUS
  <2>2. Cardinality(new) \in Nat
    BY RunnerAssumption, FS_Subset, FS_CardinalityType
  <2> QED
    BY <2>1, <2>2, <1>1
<1>3. \A v, w \in new : ids[v] = ids[w] => v = w
  BY <1>1, NewIdsDiffer
<1>4. \A v \in listed, w \in new : ~ Terminal(v) => id[v] # id'[w]
  <2> SUFFICES ASSUME NEW v \in listed, NEW w \in new, ~ Terminal(v) PROVE id[v] # ids[w]
    BY DEF TypeOK
  <2>1. v \in active
    BY DEF active
  <2>2. id[v] \in Nat /\ ids[w] \in Nat
    BY WorkerIdType DEF TypeOK
  <2> QED
    BY <2>1, <2>2, <1>1, <1>2
<1>5. \A w \in Worker, i \in Item :
        At(w, i)' = IF w \in new /\ i \in given'[w] THEN "queued" ELSE At(w, i)
  BY DEF At, Fresh
<1>6. /\ \A n \in WorkerId : claims'[n] \subseteq claims[n]
      /\ \A w \in Worker \ disowned' :
           pc[w] # "off" /\ ~ Terminal(w) => claims'[id[w]] = claims[id[w]]
  BY DEF Dispatch, ClearedClaims, TypeOK
<1>7. /\ UNCHANGED <<task, valid, listed>> /\ pending = {} /\ pending' = new
      /\ \A w \in new : pc[w] = "off" /\ pc'[w] = "booting"
      /\ \A w \in Worker \ new : id'[w] = id[w] /\ given'[w] = given[w] /\ pc'[w] = pc[w]
      /\ disowned \subseteq disowned'
      /\ \A w \in disowned' \ disowned : pc[w] # "off"
  BY DEF Dispatch, TypeOK
<1>8. \A v, w \in new : id'[v] = id'[w] => v = w
  BY <1>3
<1> QED
  BY <1>4, <1>5, <1>6, <1>7, <1>8

-----------------------------------------------------------------------------
(* The variables keep their types. *)

Records ==
  [disposition : {"none", "live", "succeeded", "retryable", "permanent", "cancelled", "lost"},
   by : Worker \cup {Nobody}]
Entries == [at : Stage, number : 1..(MaxRetries + 1)]

LEMMA Places ==
  ASSUME TypeOK, NEW w \in Worker, NEW i \in Item, NEW s \in Stage
  PROVE  /\ To(w, i, s) => shared' \in [Worker -> [Item -> Entries]]
         /\ Settle(w, i, s) => shared' \in [Worker -> [Item -> Entries]]
<1>1. Fresh(s) \in Entries
  BY RunnerAssumption DEF Fresh, Entries
<1>2. shared \in [Worker -> [Item -> Entries]]
  BY DEF TypeOK, Entries
<1>3. \A r \in Entries : [r EXCEPT !.at = s] \in Entries
  BY DEF Entries
<1>4. ASSUME To(w, i, s) PROVE shared' \in [Worker -> [Item -> Entries]]
  <2>1. shared' = [shared EXCEPT ![w] = [shared[w] EXCEPT ![i] = [shared[w][i] EXCEPT !.at = s]]]
    BY <1>4 DEF To
  <2>2. [shared[w][i] EXCEPT !.at = s] \in Entries
    BY <1>2, <1>3
  <2> QED
    BY <1>2, <2>1, <2>2
<1>5. ASSUME Settle(w, i, s) PROVE shared' \in [Worker -> [Item -> Entries]]
  BY <1>1, <1>2, <1>5 DEF Settle
<1> QED
  BY <1>4, <1>5

LEMMA Facts ==
  ASSUME TypeOK, NEW w \in Worker, NEW i \in Item,
         NEW d \in {"live", "succeeded", "retryable", "permanent", "cancelled", "lost"}
  PROVE  /\ Ends(w, i, d) => task' \in [Item -> Records]
         /\ EndsFailed(w, i, d) => task' \in [Item -> Records]
         /\ task' = [task EXCEPT ![i] = Fact(d, w)] => task' \in [Item -> Records]
         /\ task' = [task EXCEPT ![i].disposition = d] => task' \in [Item -> Records]
<1>1. Fact(d, w) \in Records
  BY DEF Fact, Records
<1>2. task \in [Item -> Records]
  BY DEF TypeOK, Records
<1>3. \A r \in Records : [r EXCEPT !.disposition = d] \in Records
  BY DEF Records
<1>4. task' = [task EXCEPT ![i].disposition = d] => task' \in [Item -> Records]
  <2> SUFFICES ASSUME task' = [task EXCEPT ![i] = [task[i] EXCEPT !.disposition = d]]
               PROVE  task' \in [Item -> Records]
    OBVIOUS
  <2>1. [task[i] EXCEPT !.disposition = d] \in Records
    BY <1>2, <1>3
  <2> QED
    BY <1>2, <2>1
<1>5. task' = [task EXCEPT ![i] = Fact(d, w)] => task' \in [Item -> Records]
  BY <1>1, <1>2
<1>6. Ends(w, i, d) => task' \in [Item -> Records]
  BY <1>2, <1>4 DEF Ends
<1> QED
  BY <1>4, <1>5, <1>6 DEF EndsFailed

LEMMA TypeInit == Init => TypeOK
  BY RunnerAssumption, WorkerIdType DEF Init, TypeOK, Fact, Fresh, Stage

LEMMA TypeStep == TypeOK /\ [Next]_vars => TypeOK'
<1> USE DEF Records, Entries
<1> SUFFICES ASSUME TypeOK, [Next]_vars PROVE TypeOK'
  OBVIOUS
<1>1. ASSUME NEW w \in Worker, NEW i \in Item, Fill(w, i) PROVE TypeOK'
  <2> USE <1>1 DEF jobs, disk, runner
  <2>1. "ok" \in Stage /\ "checked" \in Stage /\ "bad" \in Stage /\ "submitted" \in Stage
    BY DEF Stage, Active
  <2>2. CASE Take(w, i)
    BY <2>1, <2>2, Places DEF Take, TypeOK
  <2>3. CASE TakeRetry(w, i)
    BY <2>1, <2>3, Places DEF TakeRetry, TypeOK
  <2>4. CASE SkipClaimed(w, i)
    BY <2>1, <2>4, Places DEF SkipClaimed, TypeOK
  <2>5. CASE Submit(w, i)
    BY <2>1, <2>5, Places, Facts DEF Submit, TypeOK
  <2> QED
    BY <2>2, <2>3, <2>4, <2>5 DEF Fill
<1>2. ASSUME NEW w \in Worker, NEW i \in Item, Process(w, i) PROVE TypeOK'
  <2> USE <1>2 DEF jobs, disk, runner
  <2>1. "live" \in Stage /\ "refused" \in Stage /\ "exited" \in Stage /\ "killed" \in Stage
    BY DEF Stage, Active
  <2>2. CASE Launch(w, i)
    BY <2>1, <2>2, Places, Facts DEF Launch, TypeOK
  <2>3. CASE Exit(w, i)
    BY <2>1, <2>3, Places DEF Exit, TypeOK
  <2>4. CASE Kill(w, i)
    BY <2>1, <2>4, Places DEF Kill, TypeOK
  <2> QED
    BY <2>2, <2>3, <2>4 DEF Process
<1>3. ASSUME NEW w \in Worker, NEW i \in Item, Complete(w, i) PROVE TypeOK'
  <2> USE <1>3, RunnerAssumption DEF jobs, disk, runner, Fault
  <2>1. "ok" \in Stage /\ "waiting" \in Stage /\ "bad" \in Stage /\ "dropped" \in Stage
    BY DEF Stage, Active
  <2>2. CASE Succeed(w, i)
    <3>1. task' \in [Item -> Records] /\ shared' \in [Worker -> [Item -> Entries]]
      BY <2>1, <2>2, Places, Facts DEF Succeed
    <3>2. CASE UNCHANGED <<pc, faults>>
      BY <2>2, <3>1, <3>2 DEF Succeed, TypeOK
    <3>3. CASE Fault /\ pc' = [pc EXCEPT ![w] = "unwinding"]
      BY <2>2, <3>1, <3>3 DEF Succeed, TypeOK
    <3> QED
      BY <2>2, <3>2, <3>3 DEF Succeed
  <2>3. CASE Retry(w, i)
    <3>1. shared' \in [Worker -> [Item -> Entries]]
      BY <2>1, <2>3 DEF Retry, TypeOK
    <3> QED
      BY <2>3, <3>1, Facts DEF Retry, TypeOK
  <2>4. CASE AwaitCredential(w, i)
    BY <2>1, <2>4, Places, Facts DEF AwaitCredential, TypeOK
  <2>5. CASE GiveUp(w, i)
    BY <2>1, <2>5, Places, Facts DEF GiveUp, TypeOK
  <2>6. CASE CompletionRaises(w, i)
    BY <2>1, <2>6, Places, Facts DEF CompletionRaises, Raise, TypeOK
  <2>7. CASE Cancel(w, i)
    BY <2>1, <2>7, Places, Facts DEF Cancel, Raise, TypeOK
  <2> QED
    BY <2>2, <2>3, <2>4, <2>5, <2>6, <2>7 DEF Complete
<1>4. ASSUME NEW w \in Worker, LifeStep(w) PROVE TypeOK'
  <2> USE <1>4, RunnerAssumption DEF jobs, disk, runner, Fault
  <2>1. shared' = Gone(w) =>
          shared' \in [Worker -> [Item -> Entries]]
    BY DEF Gone, Fresh, Stage, TypeOK
  <2>2. CASE Boot(w)
    BY <2>2 DEF Boot, Reconciled, Fact, TypeOK
  <2>3. CASE Finish(w)
    BY <2>3 DEF Finish, TypeOK
  <2>4. CASE Unwind(w)
    BY <2>1, <2>4 DEF Unwind, TypeOK
  <2>5. CASE Shutdown(w) \/ Interrupt(w)
    <3>1. pc' \in [Worker -> {"off", "booting", "running", "shutting", "unwinding", "ended", "dead"}]
      BY <2>5 DEF Shutdown, Interrupt, TypeOK
    <3> QED
      BY <2>5, <3>1 DEF Shutdown, Interrupt, TypeOK
  <2>6. CASE Crash(w)
    BY <2>1, <2>6 DEF Crash, TypeOK
  <2> QED
    BY <2>2, <2>3, <2>4, <2>5, <2>6 DEF LifeStep
<1>5. ASSUME NEW new \in SUBSET Worker, Dispatch(new) PROVE TypeOK'
  <2> DEFINE active == {w \in listed : ~ Terminal(w)}
  <2> PICK actionable \in {Item, Item \ Completed} :
         \E p \in Partitions(actionable \ Adopted(active), new), ids \in [new -> WorkerId] :
           /\ {ids[w] : w \in new} = FirstNewId(active)..(FirstNewId(active) + Cardinality(new) - 1)
           /\ id' = [w \in Worker |-> IF w \in new THEN ids[w] ELSE id[w]]
           /\ given' = [w \in Worker |-> IF w \in new THEN p[w] ELSE given[w]]
           /\ shared' = [w \in Worker |-> [i \in Item |->
                           IF w \in new /\ i \in p[w] THEN Fresh("queued") ELSE shared[w][i]]]
    BY <1>5 DEF Dispatch
  <2> DEFINE items == actionable \ Adopted(active)
  <2> PICK p \in Partitions(items, new), ids \in [new -> WorkerId] :
         /\ id' = [w \in Worker |-> IF w \in new THEN ids[w] ELSE id[w]]
         /\ given' = [w \in Worker |-> IF w \in new THEN p[w] ELSE given[w]]
         /\ shared' = [w \in Worker |-> [i \in Item |->
                         IF w \in new /\ i \in p[w] THEN Fresh("queued") ELSE shared[w][i]]]
    OBVIOUS
  <2>1. p \in [Worker -> SUBSET Item]
    BY ZenonT(30) DEF Partitions
  <2>2. Fresh("queued") \in Entries
    BY RunnerAssumption DEF Fresh, Stage
  <2>3. shared' \in [Worker -> [Item -> Entries]]
    BY <2>2 DEF TypeOK
  <2>4. id' \in [Worker -> WorkerId] /\ given' \in [Worker -> SUBSET Item]
    BY <2>1 DEF TypeOK
  <2>5. claims' \in [WorkerId -> SUBSET Item]
    BY <1>5 DEF Dispatch, ClearedClaims, TypeOK
  <2>6. pc' \in [Worker -> {"off", "booting", "running", "shutting", "unwinding", "ended", "dead"}]
    BY <1>5 DEF Dispatch, TypeOK
  <2>7. dispatches' \in 0..DispatchBound
    BY <1>5, RunnerAssumption DEF Dispatch, TypeOK
  <2> QED
    BY <1>5, <2>3, <2>4, <2>5, <2>6, <2>7 DEF Dispatch, TypeOK
<1>6. CASE ListJobs \/ DispatcherDies
  BY <1>6, RunnerAssumption DEF ListJobs, DispatcherDies, Fault, disk, runner, TypeOK
<1>7. CASE UNCHANGED vars
  BY <1>7 DEF vars, disk, jobs, runner, TypeOK
<1> QED
  BY <1>1, <1>2, <1>3, <1>4, <1>5, <1>6, <1>7 DEF Next, WorkerStep, LifeStep

-----------------------------------------------------------------------------
(* Jobs and registries. *)

LEMMA InvInit == Init => Inv
<1> SUFFICES ASSUME Init PROVE Inv
  OBVIOUS
<1>1. TypeOK
  BY TypeInit
<1>2. \A w \in Worker, i \in Item : At(w, i) = "none"
  BY DEF Init, At, Fresh
<1>3. OffIsFresh /\ Known /\ OneRegistry /\ ClaimsTell /\ CompletedIsValid /\ NothingForgotten
  BY DEF Init, OffIsFresh, Known, OneRegistry, ClaimsTell, CompletedIsValid, NothingForgotten,
         Completed, Fact
<1>4. OnlyGiven /\ ActiveRuns /\ Held /\ ActiveIsOpen
  BY <1>2 DEF OnlyGiven, ActiveRuns, Held, ActiveIsOpen, Active
<1>5. DistinctIds
  BY DEF Init, DistinctIds, Busy
<1> QED
  BY <1>1, <1>3, <1>4, <1>5 DEF Inv, JobsInv

\* A claim goes where the worker holds it, or where nobody else does.
LEMMA ItemKeepsJobs ==
  ASSUME JobsInv, TypeOK', NEW w \in Worker, NEW i \in Item, ItemStep(w, i)
  PROVE  JobsInv'
<1>1. Only(w, i) /\ (Passed(w, i) \/ Taken(w, i) \/ Worked(w, i))
  BY ItemEffect DEF JobsInv
<1>2. UNCHANGED jobs
  BY <1>1 DEF Only
<1>3. /\ \A v \in Worker : Running(v)' <=> Running(v)
      /\ \A v \in Worker : Busy(v)' <=> Busy(v)
      /\ \A v \in Worker : (pc[v] = "off") <=> (pc'[v] = "off")
  BY <1>1 DEF Only, Running, Busy, Terminal
<1>4. OffIsFresh' /\ Known' /\ DistinctIds'
  BY <1>2, <1>3 DEF JobsInv, jobs, OffIsFresh, Known, DistinctIds
<1>5. OnlyGiven' /\ ActiveRuns'
  BY <1>1, <1>2, <1>3 DEF JobsInv, jobs, Only, OnlyGiven, ActiveRuns
<1>6. OneRegistry' /\ Held'
  <2>1. CASE UNCHANGED claims /\ (At(w, i)' \in Active => At(w, i) \in Active)
    BY <1>1, <1>2, <2>1 DEF JobsInv, jobs, Only, OneRegistry, Held
  <2>2. CASE Taken(w, i)
    <3>1. id[w] \in WorkerId
      BY DEF JobsInv, TypeOK
    <3>2. /\ \A n \in WorkerId : claims[n] \subseteq claims'[n]
          /\ i \in claims'[id[w]]
          /\ \A j \in Item, n \in WorkerId :
               j \in claims'[n] => j \in claims[n] \/ (j = i /\ n = id[w])
      BY <2>2, <3>1 DEF Taken, JobsInv, TypeOK
    <3>3. i \in claims[id[w]] \/ \A n \in WorkerId \ {id[w]} : i \notin claims[n]
      BY <2>2 DEF Taken, ClaimedElsewhere
    <3>4. OneRegistry'
      BY <3>1, <3>2, <3>3 DEF JobsInv, OneRegistry
    <3>5. Held'
      <4> SUFFICES ASSUME NEW v \in Worker \ disowned, NEW j \in Item, At(v, j)' \in Active
                   PROVE  j \in claims'[id[v]]
        BY <1>2 DEF Held, jobs
      <4>1. CASE v = w /\ j = i
        BY <4>1, <3>2
      <4>2. CASE v # w \/ j # i
        BY <4>2, <1>1, <3>2 DEF Only, JobsInv, TypeOK, Held
      <4> QED
        BY <4>1, <4>2
    <3> QED
      BY <3>4, <3>5
  <2> QED
    BY <1>1, <2>1, <2>2 DEF Passed, Worked, disk, Active
<1> QED
  BY <1>4, <1>5, <1>6 DEF JobsInv

LEMMA LifeKeepsJobs ==
  ASSUME JobsInv, TypeOK', NEW w \in Worker, LifeStep(w)
  PROVE  JobsInv'
<1> DEFINE Moves(v, i) ==
      \/ At(v, i)' = At(v, i)
      \/ v = w /\ At(v, i) \notin Left /\ At(v, i)' = "dropped"
<1>1. /\ UNCHANGED <<valid, claims, jobs>>
      /\ Busy(w) /\ pc'[w] # "off" /\ \A v \in Worker \ {w} : pc'[v] = pc[v]
      /\ \A v \in Worker, i \in Item : Moves(v, i)
      /\ \A i \in Item : At(w, i)' \in Active => Running(w)'
  BY LifeEffect DEF JobsInv
<1>2. \A v \in Worker : ((pc[v] = "off") <=> (pc'[v] = "off")) /\ (Busy(v)' => Busy(v))
  BY <1>1 DEF Busy, Terminal
<1>3. \A v \in Worker, i \in Item : At(v, i)' \in Active => At(v, i) \in Active
  BY <1>1 DEF Active
<1>4. OffIsFresh' /\ Known' /\ DistinctIds' /\ OneRegistry'
  BY <1>1, <1>2 DEF JobsInv, jobs, OffIsFresh, Known, DistinctIds, OneRegistry
<1>5. OnlyGiven'
  BY <1>1 DEF JobsInv, jobs, OnlyGiven, Left
<1>6. ActiveRuns'
  BY <1>1, <1>3 DEF JobsInv, ActiveRuns, Running
<1>7. Held'
  BY <1>1, <1>3 DEF JobsInv, jobs, Held
<1> QED
  BY <1>4, <1>5, <1>6, <1>7 DEF JobsInv

\* A new job's id is above those of the jobs that still run and are known; the registries
\* that are taken away are those of jobs that ended, or their job is disowned.
LEMMA DispatchKeepsJobs ==
  ASSUME JobsInv, TypeOK', NEW new \in SUBSET Worker, Dispatch(new)
  PROVE  JobsInv'
<1>1. /\ UNCHANGED <<task, valid, listed>> /\ pending = {} /\ pending' = new
      /\ \A w \in new : pc[w] = "off" /\ pc'[w] = "booting"
      /\ \A w \in Worker \ new : id'[w] = id[w] /\ given'[w] = given[w] /\ pc'[w] = pc[w]
      /\ \A w \in Worker, i \in Item :
           At(w, i)' = IF w \in new /\ i \in given'[w] THEN "queued" ELSE At(w, i)
      /\ \A n \in WorkerId : claims'[n] \subseteq claims[n]
      /\ disowned \subseteq disowned'
      /\ \A w \in disowned' \ disowned : pc[w] # "off"
      /\ \A w \in Worker \ disowned' :
           pc[w] # "off" /\ ~ Terminal(w) => claims'[id[w]] = claims[id[w]]
      /\ \A v, w \in new : id'[v] = id'[w] => v = w
      /\ \A v \in listed, w \in new : ~ Terminal(v) => id[v] # id'[w]
  BY DispatchEffect DEF JobsInv
<1>2. \A w \in new, i \in Item : w \notin disowned /\ given[w] = {} /\ At(w, i) = "none"
  BY <1>1 DEF JobsInv, OffIsFresh, OnlyGiven
<1>3. OffIsFresh' /\ Known'
  BY <1>1 DEF JobsInv, TypeOK, OffIsFresh, Known
<1>4. OnlyGiven'
  BY <1>1, <1>2 DEF JobsInv, OnlyGiven
<1>5. \A w \in Worker, i \in Item :
        At(w, i)' \in Active => w \notin new /\ At(w, i) \in Active /\ Running(w)
  <2> SUFFICES ASSUME NEW w \in Worker, NEW i \in Item, At(w, i)' \in Active
               PROVE  w \notin new /\ At(w, i) \in Active /\ Running(w)
    OBVIOUS
  <2>1. w \notin new
    BY <1>1, <1>2 DEF Active
  <2> QED
    BY <1>1, <2>1 DEF JobsInv, ActiveRuns
<1>6. ActiveRuns'
  BY <1>1, <1>5 DEF ActiveRuns, Running
<1>7. DistinctIds'
  <2> SUFFICES ASSUME NEW v \in Worker \ disowned', NEW w \in Worker \ disowned',
                      Busy(v)', Busy(w)', id'[v] = id'[w]
               PROVE  v = w
    BY DEF DistinctIds
  <2>1. \A u \in Worker \ disowned' :
          Busy(u)' => u \in new \/ (u \notin new /\ Busy(u) /\ u \in listed /\ ~ Terminal(u))
    BY <1>1 DEF Busy, Terminal, JobsInv, Known
  <2>2. CASE v \in new /\ w \in new
    BY <1>1, <2>2
  <2>3. CASE v \in new /\ w \notin new
    BY <1>1, <2>1, <2>3
  <2>4. CASE v \notin new /\ w \in new
    BY <1>1, <2>1, <2>4
  <2>5. CASE v \notin new /\ w \notin new
    BY <1>1, <2>1, <2>5 DEF JobsInv, DistinctIds
  <2> QED
    BY <2>2, <2>3, <2>4, <2>5
<1>8. OneRegistry'
  BY <1>1 DEF JobsInv, OneRegistry
<1>9. Held'
  <2> SUFFICES ASSUME NEW w \in Worker \ disowned', NEW i \in Item, At(w, i)' \in Active
               PROVE  i \in claims'[id'[w]]
    BY DEF Held
  <2>1. w \notin new /\ At(w, i) \in Active /\ pc[w] # "off" /\ ~ Terminal(w)
    BY <1>5 DEF Running, Terminal
  <2>2. i \in claims[id[w]]
    BY <1>1, <2>1 DEF JobsInv, Held
  <2> QED
    BY <1>1, <2>1, <2>2
<1> QED
  BY <1>3, <1>4, <1>6, <1>7, <1>8, <1>9 DEF JobsInv

LEMMA ListingKeepsJobs ==
  ASSUME JobsInv, TypeOK', ListJobs \/ DispatcherDies \/ UNCHANGED vars
  PROVE  JobsInv'
<1>1. UNCHANGED <<disk, runner, id, given>>
  BY DEF ListJobs, DispatcherDies, vars, disk, jobs, runner
<1>2. \A w \in Worker, i \in Item : At(w, i)' = At(w, i)
  BY <1>1 DEF runner, At
<1>3. \A w \in Worker : (Running(w)' <=> Running(w)) /\ (Busy(w)' <=> Busy(w))
  BY <1>1 DEF runner, Running, Busy, Terminal
<1>4. /\ listed \cup pending \subseteq listed' \cup pending' \cup disowned'
      /\ disowned \subseteq disowned' /\ disowned' \subseteq disowned \cup pending
      /\ listed' \cup pending' \subseteq listed \cup pending
  BY DEF ListJobs, DispatcherDies, vars, jobs
<1>5. OffIsFresh' /\ Known'
  BY <1>1, <1>4 DEF JobsInv, OffIsFresh, Known, runner
<1>6. OnlyGiven' /\ ActiveRuns' /\ OneRegistry'
  BY <1>1, <1>2, <1>3 DEF JobsInv, OnlyGiven, ActiveRuns, OneRegistry, disk
<1>7. DistinctIds' /\ Held'
  BY <1>1, <1>2, <1>3, <1>4 DEF JobsInv, DistinctIds, Held, disk
<1> QED
  BY <1>5, <1>6, <1>7 DEF JobsInv

LEMMA NextSteps ==
  ASSUME [Next]_vars
  PROVE  \/ \E w \in Worker, i \in Item : ItemStep(w, i)
         \/ \E w \in Worker : LifeStep(w)
         \/ \E new \in SUBSET Worker : Dispatch(new)
         \/ ListJobs \/ DispatcherDies \/ UNCHANGED vars
  BY DEF Next, WorkerStep, LifeStep, ItemStep

LEMMA JobsStep ==
  ASSUME JobsInv, [Next]_vars
  PROVE  JobsInv'
<1>1. TypeOK'
  BY TypeStep DEF JobsInv
<1> QED
  BY <1>1, NextSteps, ItemKeepsJobs, LifeKeepsJobs, DispatchKeepsJobs, ListingKeepsJobs

-----------------------------------------------------------------------------
(* Items.  What is active under a claim is active of one worker only. *)

LEMMA OneActive ==
  ASSUME JobsInv, NEW i \in Item, Accounted(i), NEW v \in Worker, NEW w \in Worker,
         At(v, i) \in Active, Running(w), At(w, i) # "none",
         ~ ClaimedElsewhere(w, i)
  PROVE  v = w
<1>1. v \notin disowned /\ w \notin disowned
  BY DEF JobsInv, OnlyGiven, Accounted, Active
<1>2. i \in claims[id[v]]
  BY <1>1 DEF JobsInv, Held
<1>3. id[v] = id[w]
  BY <1>2 DEF ClaimedElsewhere, JobsInv, OneRegistry, TypeOK
<1>4. Busy(v) /\ Busy(w)
  BY DEF JobsInv, ActiveRuns, Running, Busy, Terminal
<1> QED
  BY <1>1, <1>3, <1>4 DEF JobsInv, DistinctIds

LEMMA HeldIsMine ==
  ASSUME JobsInv, NEW i \in Item, Accounted(i), NEW w \in Worker, At(w, i) \in Active
  PROVE  ~ ClaimedElsewhere(w, i)
<1>1. w \notin disowned
  BY DEF JobsInv, OnlyGiven, Accounted, Active
<1> QED
  BY <1>1 DEF JobsInv, Held, ClaimedElsewhere

\* A worker that becomes disowned, and an item that is given out, only leave fewer accounted for.
LEMMA AccountedBefore ==
  ASSUME JobsInv, [Next]_vars, NEW i \in Item, Accounted(i)'
  PROVE  Accounted(i)
<1>1. disowned \subseteq disowned' /\ \A w \in disowned : given'[w] = given[w]
  <2>1. ASSUME NEW w \in Worker, NEW j \in Item, ItemStep(w, j) PROVE UNCHANGED jobs
    BY <2>1, ItemEffect DEF JobsInv, Only
  <2>2. ASSUME NEW w \in Worker, LifeStep(w) PROVE UNCHANGED jobs
    BY <2>2, LifeEffect DEF JobsInv
  <2>3. ASSUME NEW new \in SUBSET Worker, Dispatch(new)
        PROVE  disowned \subseteq disowned' /\ \A w \in disowned : given'[w] = given[w]
    <3>1. disowned \subseteq disowned' /\ \A w \in Worker \ new : given'[w] = given[w]
      BY <2>3, DispatchEffect DEF JobsInv
    <3>2. \A w \in new : w \notin disowned
      BY <2>3, DispatchEffect DEF JobsInv, OffIsFresh
    <3> QED
      BY <3>1, <3>2 DEF JobsInv, TypeOK
  <2>4. CASE ListJobs \/ DispatcherDies \/ UNCHANGED vars
    BY <2>4 DEF ListJobs, DispatcherDies, vars, jobs
  <2> QED
    BY NextSteps, <2>1, <2>2, <2>3, <2>4 DEF jobs
<1> QED
  BY <1>1 DEF Accounted

\* No step touches the record of a completed item that is accounted for: a worker that is at
\* it has not submitted it, and finds it completed.
LEMMA CompletedKept ==
  ASSUME Inv, [Next]_vars, NEW i \in Completed, Accounted(i)
  PROVE  task'[i] = task[i] /\ i \in Completed'
<1>1. task'[i] = task[i]
  <2>1. ASSUME NEW w \in Worker, NEW j \in Item, ItemStep(w, j) PROVE task'[i] = task[i]
    <3>1. Only(w, j) /\ (Passed(w, j) \/ Taken(w, j) \/ Worked(w, j))
      BY <2>1, ItemEffect DEF Inv, JobsInv
    <3>2. CASE i # j
      BY <3>1, <3>2 DEF Only, Completed
    <3>3. CASE i = j /\ Passed(w, j)
      BY <3>3 DEF Passed, disk
    <3>4. CASE i = j /\ Taken(w, j)
      BY <3>4 DEF Taken, Completed, Inv, JobsInv, TypeOK
    <3>5. CASE i = j /\ Worked(w, j)
      BY <3>5 DEF Worked, Inv, ActiveIsOpen, Completed
    <3> QED
      BY <3>1, <3>2, <3>3, <3>4, <3>5
  <2>2. ASSUME NEW w \in Worker, LifeStep(w) PROVE task'[i] = task[i]
    BY <2>2, LifeEffect DEF Inv, JobsInv
  <2>3. ASSUME NEW new \in SUBSET Worker, Dispatch(new) PROVE task'[i] = task[i]
    BY <2>3 DEF Dispatch
  <2>4. CASE ListJobs \/ DispatcherDies \/ UNCHANGED vars
    BY <2>4 DEF ListJobs, DispatcherDies, vars, disk
  <2> QED
    BY NextSteps, <2>1, <2>2, <2>3, <2>4
<1> QED
  BY <1>1 DEF Completed

\* What an item step does to an item that is accounted for: it is completed where its outputs
\* validate and nobody is at it; it gets active where it was, or where it is not completed.
LEMMA ItemStepOnItem ==
  ASSUME Inv, NEW w \in Worker, NEW i \in Item, ItemStep(w, i), Accounted(i)
  PROVE  /\ i \in Completed' => i \in valid'
         /\ \A v \in Worker : At(v, i)' \in Active => i \notin Completed'
<1>1. Only(w, i) /\ (Passed(w, i) \/ Taken(w, i) \/ Worked(w, i))
  BY ItemEffect DEF Inv, JobsInv
<1>2. \A v \in Worker \ {w} : At(v, i)' = At(v, i)
  BY <1>1 DEF Only
<1>3. CASE Passed(w, i)
  BY <1>2, <1>3 DEF Passed, disk, Completed, Inv, CompletedIsValid, ActiveIsOpen, Active
<1>4. CASE Taken(w, i)
  <2>1. \A v \in Worker \ {w} : At(v, i) \notin Active
    BY <1>1, <1>4, OneActive DEF Taken, Only, Inv
  <2>2. CASE At(w, i)' = "ok" /\ i \in valid
    BY <1>2, <1>4, <2>1, <2>2 DEF Taken, Active
  <2>3. CASE UNCHANGED task /\ At(w, i)' = "bad"
    BY <1>2, <1>4, <2>1, <2>3 DEF Taken, Active, Completed, Inv, CompletedIsValid
  <2>4. CASE UNCHANGED task /\ ~ Promoted(i)
    <3>1. i \notin Completed
      BY <2>4 DEF Promoted, Completed, Inv, CompletedIsValid
    <3> QED
      BY <2>4, <3>1 DEF Completed
  <2> QED
    BY <1>4, <2>2, <2>3, <2>4 DEF Taken
<1>5. CASE Worked(w, i)
  <2>1. i \notin Completed
    BY <1>5 DEF Worked, Inv, ActiveIsOpen
  <2>2. \A v \in Worker \ {w} : At(v, i) \notin Active
    BY <1>1, <1>5, OneActive, HeldIsMine DEF Worked, Only, Inv
  <2>3. CASE At(w, i)' = "ok" /\ i \in valid /\ UNCHANGED valid
    BY <1>2, <2>2, <2>3 DEF Active
  <2>4. CASE i \notin Completed'
    BY <2>4
  <2> QED
    BY <1>5, <2>1, <2>3, <2>4 DEF Worked
<1> QED
  BY <1>1, <1>3, <1>4, <1>5

LEMMA OpenStep ==
  ASSUME Inv, [Next]_vars
  PROVE  CompletedIsValid' /\ ActiveIsOpen'
<1> SUFFICES ASSUME NEW i \in Item, Accounted(i)'
             PROVE  /\ i \in Completed' => i \in valid'
                    /\ \A v \in Worker : At(v, i)' \in Active => i \notin Completed'
  BY DEF CompletedIsValid, ActiveIsOpen, Completed
<1>1. Accounted(i)
  BY AccountedBefore DEF Inv
<1>2. /\ i \in Completed => i \in valid
      /\ \A v \in Worker : At(v, i) \in Active => i \notin Completed
  BY <1>1 DEF Inv, CompletedIsValid, ActiveIsOpen
<1>3. ASSUME NEW w \in Worker, NEW j \in Item, ItemStep(w, j)
      PROVE  /\ i \in Completed' => i \in valid'
             /\ \A v \in Worker : At(v, i)' \in Active => i \notin Completed'
  <2>1. CASE i = j
    BY <1>1, <1>3, <2>1, ItemStepOnItem
  <2>2. CASE i # j
    <3>1. task'[i] = task[i] /\ (i \in valid' <=> i \in valid)
          /\ \A v \in Worker : At(v, i)' = At(v, i)
      BY <1>3, <2>2, ItemEffect DEF Inv, JobsInv, Only
    <3> QED
      BY <1>2, <3>1 DEF Completed
  <2> QED
    BY <2>1, <2>2
<1>4. ASSUME NEW w \in Worker, LifeStep(w)
      PROVE  /\ i \in Completed' => i \in valid'
             /\ \A v \in Worker : At(v, i)' \in Active => i \notin Completed'
  BY <1>2, <1>4, LifeEffect DEF Inv, JobsInv, Active
<1>5. ASSUME NEW new \in SUBSET Worker, Dispatch(new)
      PROVE  /\ i \in Completed' => i \in valid'
             /\ \A v \in Worker : At(v, i)' \in Active => i \notin Completed'
  BY <1>2, <1>5, DispatchEffect DEF Inv, JobsInv, Active, Completed
<1>6. CASE ListJobs \/ DispatcherDies \/ UNCHANGED vars
  <2>1. UNCHANGED <<disk, runner>>
    BY <1>6 DEF ListJobs, DispatcherDies, vars
  <2> QED
    BY <1>2, <2>1 DEF disk, runner, At, Completed
<1> QED
  BY NextSteps, <1>3, <1>4, <1>5, <1>6

LEMMA TellStep ==
  ASSUME Inv, [Next]_vars
  PROVE  ClaimsTell'
<1> DEFINE Open(n, i, v) == id[v] = n /\ i \in given[v] /\ At(v, i) # "ok"
<1> SUFFICES ASSUME NEW i \in Item, NEW n \in WorkerId, Accounted(i)', i \in claims'[n],
                    i \notin Completed'
             PROVE  \E v \in Worker : Open(n, i, v)'
  BY DEF ClaimsTell
<1>1. Accounted(i)
  BY AccountedBefore DEF Inv
<1>2. i \notin Completed
  BY <1>1, CompletedKept
<1>3. ASSUME NEW w \in Worker, NEW j \in Item, ItemStep(w, j)
      PROVE  \E v \in Worker : Open(n, i, v)'
  <2>1. Only(w, j) /\ (Passed(w, j) \/ Taken(w, j) \/ Worked(w, j))
    BY <1>3, ItemEffect DEF Inv, JobsInv
  <2>2. UNCHANGED jobs
    BY <2>1 DEF Only
  <2>3. CASE Taken(w, j) /\ i = j /\ n = id[w]
    <3>1. At(w, i)' # "ok" /\ i \in given[w]
      BY <2>1, <2>3 DEF Taken, Only, Completed, Inv, JobsInv, TypeOK, OnlyGiven
    <3> QED
      BY <2>2, <2>3, <3>1 DEF jobs
  <2>4. CASE ~ (Taken(w, j) /\ i = j /\ n = id[w])
    <3>1. i \in claims[n]
      BY <2>1, <2>4 DEF Taken, Passed, Worked, disk, Inv, JobsInv, TypeOK
    <3>2. PICK v \in Worker : Open(n, i, v)
      BY <1>1, <1>2, <3>1 DEF Inv, ClaimsTell
    <3>3. CASE v # w \/ i # j
      BY <2>1, <2>2, <3>2, <3>3 DEF Only, jobs
    <3>4. CASE v = w /\ i = j
      <4>1. ~ ClaimedElsewhere(w, i)
        BY <3>1, <3>2, <3>4 DEF ClaimedElsewhere
      <4>2. ~ Taken(w, i)
        BY <2>4, <3>2, <3>4
      <4>3. Passed(w, i) \/ Worked(w, i)
        BY <2>1, <3>4, <4>2
      <4>4. Passed(w, i) => At(w, i)' = "checked"
        BY <1>2, <4>1 DEF Passed
      <4>5. Worked(w, i) => At(w, i)' \in Active \/ At(w, i)' \notin Active \cup {"ok"}
        BY DEF Worked
      <4>6. At(w, i)' # "ok"
        BY <4>3, <4>4, <4>5 DEF Active
      <4> QED
        BY <2>2, <3>2, <3>4, <4>6 DEF jobs
    <3> QED
      BY <3>3, <3>4
  <2> QED
    BY <2>3, <2>4
<1>4. ASSUME NEW w \in Worker, LifeStep(w)
      PROVE  \E v \in Worker : Open(n, i, v)'
  <2>1. UNCHANGED <<claims, jobs>> /\ \A v \in Worker : At(v, i)' = At(v, i) \/ At(v, i)' = "dropped"
    BY <1>4, LifeEffect DEF Inv, JobsInv
  <2>2. PICK v \in Worker : Open(n, i, v)
    BY <1>1, <1>2, <2>1 DEF Inv, ClaimsTell
  <2> QED
    BY <2>1, <2>2 DEF jobs
<1>5. ASSUME NEW new \in SUBSET Worker, Dispatch(new)
      PROVE  \E v \in Worker : Open(n, i, v)'
  <2>1. /\ claims'[n] \subseteq claims[n]
        /\ \A v \in Worker \ new : id'[v] = id[v] /\ given'[v] = given[v] /\ At(v, i)' = At(v, i)
        /\ \A v \in new : pc[v] = "off"
    BY <1>5, DispatchEffect DEF Inv, JobsInv
  <2>2. PICK v \in Worker : Open(n, i, v)
    BY <1>1, <1>2, <2>1 DEF Inv, ClaimsTell
  <2>3. v \notin new
    BY <2>1, <2>2 DEF Inv, JobsInv, OffIsFresh
  <2> QED
    BY <2>1, <2>2, <2>3
<1>6. CASE ListJobs \/ DispatcherDies \/ UNCHANGED vars
  <2>1. UNCHANGED <<disk, runner, id, given>>
    BY <1>6 DEF ListJobs, DispatcherDies, vars, jobs
  <2>2. PICK v \in Worker : Open(n, i, v)
    BY <1>1, <1>2, <2>1 DEF Inv, ClaimsTell, disk
  <2> QED
    BY <2>1, <2>2 DEF runner, At
<1> QED
  BY NextSteps, <1>3, <1>4, <1>5, <1>6

\* The last of the workers given an item that reports it as done has completed it, found it
\* completed, or left it to another one, which then has not reported it as done.
LEMMA ForgottenStep ==
  ASSUME Inv, [Next]_vars
  PROVE  NothingForgotten'
<1> SUFFICES ASSUME NEW i \in Item, Accounted(i)',
                    NEW u \in Worker, i \in given'[u],
                    \A v \in Worker : i \in given'[v] => At(v, i)' = "ok",
                    i \notin Completed'
             PROVE  FALSE
  BY DEF NothingForgotten
<1>1. Accounted(i)
  BY AccountedBefore DEF Inv
<1>2. i \notin Completed
  BY <1>1, CompletedKept
<1>3. (\E v \in Worker : i \in given[v]) => \E v \in Worker : i \in given[v] /\ At(v, i) # "ok"
  BY <1>1, <1>2 DEF Inv, NothingForgotten
<1>4. ASSUME NEW w \in Worker, NEW j \in Item, ItemStep(w, j) PROVE FALSE
  <2>1. Only(w, j) /\ (Passed(w, j) \/ Taken(w, j) \/ Worked(w, j)) /\ given' = given
    BY <1>4, ItemEffect DEF Inv, JobsInv, Only, jobs
  <2>2. PICK v \in Worker : i \in given[v] /\ At(v, i) # "ok"
    BY <1>3, <2>1
  <2>3. v = w /\ i = j /\ At(w, i)' = "ok"
    BY <2>1, <2>2 DEF Only
  <2>4. ClaimedElsewhere(w, i)
    <3>1. Passed(w, i) \/ Taken(w, i) \/ Worked(w, i)
      BY <2>1, <2>3
    <3>2. ~ Worked(w, i)
      BY <2>3 DEF Worked, Active
    <3>3. ~ Taken(w, i)
      BY <2>3 DEF Taken, Completed, Inv, JobsInv, TypeOK
    <3>4. Passed(w, i) => ClaimedElsewhere(w, i)
      BY <1>2, <2>3 DEF Passed
    <3> QED
      BY <3>1, <3>2, <3>3, <3>4
  <2>5. PICK n \in WorkerId \ {id[w]} : i \in claims[n]
    BY <2>4 DEF ClaimedElsewhere
  <2>6. PICK x \in Worker : id[x] = n /\ i \in given[x] /\ At(x, i) # "ok"
    BY <1>1, <1>2, <2>5 DEF Inv, ClaimsTell
  <2>7. x # w
    BY <2>5, <2>6
  <2> QED
    BY <2>1, <2>6, <2>7 DEF Only
<1>5. ASSUME NEW w \in Worker, LifeStep(w) PROVE FALSE
  <2>1. given' = given /\ \A v \in Worker : At(v, i)' = At(v, i) \/ At(v, i)' = "dropped"
    BY <1>5, LifeEffect DEF Inv, JobsInv, jobs
  <2> QED
    BY <1>3, <2>1
<1>6. ASSUME NEW new \in SUBSET Worker, Dispatch(new) PROVE FALSE
  <2>1. /\ \A v \in Worker \ new : given'[v] = given[v] /\ At(v, i)' = At(v, i)
        /\ \A v \in new : pc[v] = "off" /\ (i \in given'[v] => At(v, i)' = "queued")
    BY <1>6, DispatchEffect DEF Inv, JobsInv
  <2>2. \A v \in new : i \notin given[v] /\ i \notin given'[v]
    BY <2>1 DEF Inv, JobsInv, OffIsFresh
  <2> QED
    BY <1>3, <2>1, <2>2
<1>7. CASE ListJobs \/ DispatcherDies \/ UNCHANGED vars
  <2>1. UNCHANGED <<runner, given>>
    BY <1>7 DEF ListJobs, DispatcherDies, vars, jobs
  <2> QED
    BY <1>3, <2>1 DEF runner, At
<1> QED
  BY NextSteps, <1>4, <1>5, <1>6, <1>7

-----------------------------------------------------------------------------
THEOREM Invariance == Spec => []Inv
<1>1. ASSUME Inv, [Next]_vars PROVE Inv'
  BY <1>1, JobsStep, OpenStep, TellStep, ForgottenStep DEF Inv
<1> QED
  BY InvInit, <1>1, PTL DEF Spec

(* Records, registries and queues keep their shape.                          *)
THEOREM TypeCorrect == Spec => []TypeOK
<1>1. Inv => TypeOK
  BY DEF Inv, JobsInv
<1> QED
  BY <1>1, Invariance, PTL

(* Two workers whose registries stand for them never run one item at the     *)
(* same time, whatever is adopted, replaced, scaled, retried or crashes      *)
(* (claim_item, reconcile_dispatched_workers).                               *)
THEOREM ClaimsKeepApart == Spec => []NoDoubleRunUnderClaims
<1>1. Inv => NoDoubleRunUnderClaims
  <2> SUFFICES ASSUME Inv, NEW v \in Worker \ disowned, NEW w \in Worker \ disowned,
                      NEW i \in Item, DoubleRun(v, w, i)
               PROVE  FALSE
    BY DEF NoDoubleRunUnderClaims
  <2>1. At(v, i) \in Active /\ At(w, i) \in Active
    BY DEF DoubleRun, Active
  <2>2. i \in claims[id[v]] /\ i \in claims[id[w]]
    BY <2>1 DEF Inv, JobsInv, Held
  <2>3. id[v] = id[w]
    BY <2>2 DEF Inv, JobsInv, OneRegistry, TypeOK
  <2>4. Busy(v) /\ Busy(w)
    BY <2>1 DEF Inv, JobsInv, ActiveRuns, Running, Busy, Terminal
  <2> QED
    BY <2>3, <2>4 DEF Inv, JobsInv, DistinctIds, DoubleRun
<1> QED
  BY <1>1, Invariance, PTL

(* An item that every worker it was given to reports as done, or as          *)
(* another's, is completed (_run_agent_pool).                                *)
THEOREM EveryItemAccountedFor == Spec => []NothingForgotten
<1>1. Inv => NothingForgotten
  BY DEF Inv
<1> QED
  BY <1>1, Invariance, PTL

(* No worker, however late it reads the record or the claims, starts a       *)
(* completed item again or rewrites its record.                              *)
THEOREM CompletionsStay == Spec => CompletedStays
<1>1. ASSUME Inv, [Next]_vars
      PROVE  [\A i \in Completed : Accounted(i) => task'[i] = task[i]]_vars
  BY <1>1, CompletedKept
<1> QED
  BY <1>1, Invariance, PTL DEF Spec, CompletedStays
=============================================================================
