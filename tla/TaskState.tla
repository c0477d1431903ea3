----------------------------- MODULE TaskState -----------------------------
(***************************************************************************)
(* The durable state of one task: .state/tasks/<step>[/<item>]/, written   *)
(* by io/state_io.py on behalf of the step runners of commands/.           *)
(*                                                                         *)
(* An attempt is a record of its own that is finalized once; status.yaml   *)
(* is a mutable projection of the latest one.  Each file is replaced       *)
(* atomically, but an operation replaces several, and the process can die  *)
(* between two of them.  An operation is therefore a sequence of writes,   *)
(* worked out from the files when it is called (its process is their only  *)
(* writer) and carried out one step at a time; reconciliation after a      *)
(* crash is an operation like the others, and can be cut short too.        *)
(*                                                                         *)
(* Abstractions: attempts are numbered in launch order, which the code     *)
(* sorts by; the identity fields (run, step, item, generation, fence) are  *)
(* the same in every file of one task; errors, timestamps and output       *)
(* failures are dropped, so an attempt's terminal fact is its disposition  *)
(* and its accepted anomalies.  Whether a runner finds valid outputs is a  *)
(* free choice.                                                            *)
(* Faulty... definitions are the bugs of the runs' mutants.                *)
(***************************************************************************)
EXTENDS Naturals, Sequences, FiniteSetsExt

CONSTANTS AttemptBound, CrashBound   \* bounds on launches and crashes

ASSUME BoundsAssumption == AttemptBound \in Nat /\ CrashBound \in Nat

Attempt == 1..AttemptBound
Ending == {"succeeded", "retryable", "permanent", "cancelled", "lost"}
Anomalies == {"none", "warned", "partial"}
StatusState == {"running", "completed", "failed", "deferred"}

\* attempt = 0 is attempt_id = None: a status written before attempts were kept.
Status(s, i) == [state |-> s, attempt |-> i]
NoStatus == Status("none", 0)
StatusRecord == {NoStatus} \cup [state : StatusState, attempt : 0..AttemptBound]

VARIABLES
  files,     \* what is on disk
  todo,      \* the writes the operation under way has still to make
  phase,     \* where the process stands once they are made; "down" when it has died
  held,      \* the attempt of the runner's in-memory running_record, or 0
  crashes

vars == <<files, todo, phase, held, crashes>>

-----------------------------------------------------------------------------
(* Reading the files. *)

\* A record counts as terminal once it has a disposition; "directory" is an attempt
\* directory that does not have its attempt.yaml yet.
History(f) == {i \in Attempt : f.attempt[i] \in Ending \cup {"live"}}
Latest(f) == Max(History(f) \cup {0})
Terminal(f, i) == i \in Attempt /\ f.attempt[i] \in Ending

\* The next id: a directory is in the way of no later one.
NextAttempt(f) == Max({i \in Attempt : f.attempt[i] # "absent"} \cup {0}) + 1

\* read_attempt_history_at raises on a directory without a record, and on anomalies
\* beside a terminal attempt that did not succeed.
Complete(f) == \A i \in Attempt : f.attempt[i] # "directory"
Consistent(f, i) == Terminal(f, i) /\ f.anomalies[i] # "none" => f.attempt[i] = "succeeded"
Readable(f) == Complete(f) /\ \A i \in Attempt : Consistent(f, i)

\* _validate_status_before_attempt_start, then the check of start_attempt_at.  The
\* projection an invalidation renamed aside stands in for a missing one.
StartAccepted(f) ==
  /\ Readable(f)
  /\ NextAttempt(f) \in Attempt
  /\ LET named == IF f.status = NoStatus /\ History(f) # {} THEN f.stale ELSE f.status
     IN  named.attempt = Latest(f)
  /\ \A i \in History(f) : f.attempt[i] # "live"

\* validate_task_status_identity_at, of a status that exists.
IdentityAccepted(f) ==
  /\ Readable(f)
  /\ f.status.attempt = Latest(f)
  /\ History(f) # {} =>
       /\ f.status.state = "completed" => f.attempt[Latest(f)] = "succeeded"
       /\ f.status.state = "failed" => f.attempt[Latest(f)] # "succeeded"

-----------------------------------------------------------------------------
(* Operations as sequences of writes. *)

Write(file, i, value) == [file |-> file, attempt |-> i, value |-> value]

WriteStatus(s, i) == <<Write("status", i, s)>>

\* make_parents, then the record itself.
StartAttempt(i) == <<Write("attempt", i, "directory"), Write("attempt", i, "live")>>

MarkRunning(i) == StartAttempt(i) \o WriteStatus("running", i)

\* mark_failed_synthetic_at: a launch that failed before there was a running record.
MarkFailedSynthetic(i, d) ==
  StartAttempt(i) \o (IF d = "live" THEN <<>> ELSE <<Write("anomalies", i, "none"),
                                                     Write("attempt", i, d)>>)
                  \o WriteStatus("failed", i)

SameFact(f, i, d, a) == f.attempt[i] = d /\ f.anomalies[i] = a

FaultyEndAccepted(f, i, d, a) == TRUE

\* end_attempt_at raises AttemptTerminalConflictError on a different terminal fact.
EndAccepted(f, i, d, a) == Terminal(f, i) => SameFact(f, i, d, a)

\* The anomalies are staged, or a staged file is cleared, before the terminal fact.
EndAttempt(f, i, d, a) ==
  IF i = 0 \/ SameFact(f, i, d, a) THEN <<>>
  ELSE <<Write("anomalies", i, a), Write("attempt", i, d)>>

FaultyMarkCompleted(f, i, a) ==
  WriteStatus("completed", i) \o EndAttempt(f, i, "succeeded", a)

MarkCompleted(f, i, a) == EndAttempt(f, i, "succeeded", a) \o WriteStatus("completed", i)

MarkDeferred(f, i) == EndAttempt(f, i, "succeeded", "partial") \o WriteStatus("deferred", i)

MarkFailed(f, i, d) == EndAttempt(f, i, d, "none") \o WriteStatus("failed", i)

\* write_result_at accepts only the latest attempt, and only when it succeeded; the
\* callers write it right after completing that attempt.
Publish(i) == IF i = 0 THEN <<>> ELSE <<Write("result", i, "published")>>

-----------------------------------------------------------------------------
(* reconcile_stale_running. *)

\* The attempts left live by a dead process, in order; all of them end as lost.
Orphans(f) == {i \in History(f) : f.attempt[i] = "live"}

FaultyLose(f) ==
  LET lost[i \in 0..AttemptBound] ==
        IF i = 0 THEN <<>>
        ELSE lost[i - 1] \o IF i \in Orphans(f) /\ i = f.status.attempt
                            THEN EndAttempt(f, i, "lost", "none") ELSE <<>>
  IN  lost[AttemptBound]

Lose(f) ==
  LET lost[i \in 0..AttemptBound] ==
        IF i = 0 THEN <<>>
        ELSE lost[i - 1] \o IF i \in Orphans(f) THEN EndAttempt(f, i, "lost", "none") ELSE <<>>
  IN  lost[AttemptBound]

FaultyProjection(d, a) ==
  IF d # "succeeded" THEN "failed" ELSE IF a = "none" THEN "completed" ELSE "deferred"

\* _terminal_status_from_attempt: a partial success is not promoted.
Projection(d, a) ==
  IF d # "succeeded" THEN "failed" ELSE IF a = "partial" THEN "deferred" ELSE "completed"

Projected(f) ==
  LET i == Latest(f) IN
  IF i \in Orphans(f) THEN Status("failed", i)
  ELSE Status(Projection(f.attempt[i], f.anomalies[i]), i)

FaultyInvalidated(f) == FALSE

\* --force or a cascade renamed the projection of this attempt aside.
Invalidated(f) ==
  /\ f.status = NoStatus
  /\ Terminal(f, Latest(f))
  /\ f.stale.attempt = Latest(f)

Reconciliation(f) ==
  IF History(f) = {}
  THEN IF f.status.state = "running" THEN MarkFailed(f, 0, "lost") ELSE <<>>
  ELSE Lose(f) \o IF Invalidated(f) \/ f.status = Projected(f) THEN <<>>
                  ELSE WriteStatus(Projected(f).state, Latest(f))

-----------------------------------------------------------------------------
(* The state machine. *)

\* A run directory may hold a status from before attempts were recorded.
Init ==
  /\ files = [attempt |-> [i \in Attempt |-> "absent"], anomalies |-> [i \in Attempt |-> "none"],
              status |-> NoStatus, stale |-> NoStatus, result |-> 0]
     \/ \E s \in {"running", "completed", "failed"} :
          files = [attempt |-> [i \in Attempt |-> "absent"],
                   anomalies |-> [i \in Attempt |-> "none"],
                   status |-> Status(s, 0), stale |-> NoStatus, result |-> 0]
  /\ todo = <<>> /\ phase = "down" /\ held = 0 /\ crashes = 0

\* One atomic replacement of one file.
MakeWrite ==
  /\ todo # <<>>
  /\ LET w == Head(todo) IN
     files' = CASE w.file = "attempt"   -> [files EXCEPT !.attempt[w.attempt] = w.value]
                [] w.file = "anomalies" -> [files EXCEPT !.anomalies[w.attempt] = w.value]
                [] w.file = "status"    -> [files EXCEPT !.status = Status(w.value, w.attempt)]
                [] w.file = "result"    -> [files EXCEPT !.result = w.attempt]
  /\ todo' = Tail(todo)
  /\ UNCHANGED <<phase, held, crashes>>

Crash ==
  /\ phase # "down" /\ crashes < CrashBound
  /\ phase' = "down" /\ todo' = <<>> /\ held' = 0 /\ crashes' = crashes + 1
  /\ UNCHANGED files

\* An operation: its writes, then the phase and the record the runner is left with.
Call(from, writes, to, i) ==
  /\ phase \in from /\ todo = <<>>
  /\ todo' = writes /\ phase' = to /\ held' = i
  /\ UNCHANGED <<files, crashes>>

\* A run starts, or resumes, by reconciling; it gives up on a history it cannot read.
Restart == Readable(files) /\ Call({"down"}, Reconciliation(files), "fresh", 0)

\* Discovery skips a completed task unless its outputs no longer validate.
Launch ==
  /\ StartAccepted(files)
  /\ Call({"fresh", "idle", "backoff"}, MarkRunning(NextAttempt(files)), "running",
          NextAttempt(files))

\* prepare_launch or the submission failed: with the verdict still to come, or cancelled,
\* or refused for good.
LaunchFails(d) ==
  /\ StartAccepted(files)
  /\ LET i == NextAttempt(files) IN
     Call({"fresh", "idle"}, MarkFailedSynthetic(i, d),
          IF d = "live" THEN "failing" ELSE "idle", IF d = "live" THEN i ELSE 0)

Succeed(a) ==
  /\ EndAccepted(files, held, "succeeded", a)
  /\ Call({"running"}, MarkCompleted(files, held, a) \o Publish(held), "idle", 0)

\* A selected descendant finished; the enclosing item is not complete.
Defer ==
  /\ EndAccepted(files, held, "succeeded", "partial")
  /\ Call({"running"}, MarkDeferred(files, held), "idle", 0)

\* A runner that knows its verdict writes it at once; the agent pool first records the
\* failure, then classifies it.  A cancelled item is not classified.
Fail(d) ==
  /\ EndAccepted(files, held, d, "none")
  /\ Call({"running"} \cup (IF d = "cancelled" THEN {} ELSE {"failing"}),
          MarkFailed(files, held, d), "idle", 0)

RecordFailure == Call({"running"}, WriteStatus("failed", held), "failing", held)

\* A scalar retry finalizes the attempt and waits, its status still running.
AwaitRetry ==
  /\ EndAccepted(files, held, "retryable", "none")
  /\ Call({"running"}, EndAttempt(files, held, "retryable", "none"), "backoff", held)

\* A cancellation during the wait meets an attempt that already ended: only the
\* projection becomes terminal.  The same happens when the retry has no credentials.
CancelRetry ==
  IF EndAccepted(files, held, "cancelled", "none")
  THEN Call({"backoff"}, MarkFailed(files, held, "cancelled"), "idle", 0)
  ELSE Call({"backoff"}, WriteStatus("failed", held), "idle", 0)

\* Any other exception before the retry's launch leaves the status as it is.
AbandonRetry == Call({"backoff"}, <<>>, "idle", 0)

\* _submit_item finds valid outputs of an earlier attempt and completes it, unless that
\* attempt ended in another way.
Promote ==
  /\ files.status # NoStatus
  /\ IdentityAccepted(files)
  /\ EndAccepted(files, files.status.attempt, "succeeded", "none")
  /\ Call({"fresh", "idle"}, MarkCompleted(files, files.status.attempt, "none"), "idle", 0)

\* --force, a changed fingerprint or a changed collection: status.yaml is renamed.
Invalidate ==
  /\ phase \in {"fresh", "idle"} /\ todo = <<>> /\ files.status # NoStatus
  /\ files' = [files EXCEPT !.stale = files.status, !.status = NoStatus]
  /\ phase' = "idle"
  /\ UNCHANGED <<todo, held, crashes>>

Next ==
  \/ MakeWrite \/ Crash \/ Restart \/ Launch
  \/ \E d \in {"live", "cancelled", "permanent"} : LaunchFails(d)
  \/ \E a \in {"none", "warned"} : Succeed(a)
  \/ Defer \/ RecordFailure \/ AwaitRetry \/ CancelRetry \/ AbandonRetry
  \/ \E d \in Ending \ {"succeeded"} : Fail(d)
  \/ Promote \/ Invalidate

Spec == Init /\ [][Next]_vars

-----------------------------------------------------------------------------
(* Properties. *)

(* Every file has the shape of its record, and the process knows at most the *)
(* attempts that exist.                                                      *)
TypeOK ==
  /\ files \in [attempt : [Attempt -> Ending \cup {"live", "absent", "directory"}],
                anomalies : [Attempt -> Anomalies],
                status : StatusRecord, stale : StatusRecord, result : 0..AttemptBound]
  /\ phase \in {"down", "fresh", "idle", "running", "failing", "backoff"}
  /\ held \in 0..AttemptBound /\ crashes \in 0..CrashBound

(* Neither the projection nor the result claims more than the attempt it     *)
(* names: a completed task and a published result have an attempt that       *)
(* succeeded for the whole of it, not for a selected descendant, a failed    *)
(* task has none, wherever a crash left the files (mark_completed_at,        *)
(* mark_deferred_at; validate_task_status_identity_at and                    *)
(* validate_result_attempt_identity_at refuse such a pair).                  *)
StatusHonest ==
  LET whole(i) == files.attempt[i] = "succeeded" /\ files.anomalies[i] # "partial"
      status == files.status IN
  /\ status.attempt # 0 /\ status.state = "completed" => whole(status.attempt)
  /\ status.attempt # 0 /\ status.state = "failed" => files.attempt[status.attempt] # "succeeded"
  /\ files.result # 0 => whole(files.result)

(* Reconciliation leaves a task that can be started again, whatever the dead *)
(* process was doing, an earlier reconciliation included: no live attempt,   *)
(* and a projection, or a renamed one, that names the latest.                *)
ReconcileRestores ==
  phase = "fresh" /\ todo = <<>> =>
    /\ Orphans(files) = {}
    /\ files.status.state # "running"
    /\ History(files) # {} => Invalidated(files) \/ files.status = Projected(files)
    /\ NextAttempt(files) \in Attempt => StartAccepted(files)

(* A terminal attempt is immutable: no retry, late cancellation, promotion   *)
(* or reconciliation rewrites its fact (end_attempt_at).                     *)
FactsAreFinal ==
  [][\A i \in Attempt : Terminal(files, i) =>
       /\ files'.attempt[i] = files.attempt[i]
       /\ files'.anomalies[i] = files.anomalies[i]]_vars

(* An invalidated task stays so until a new attempt: reconciliation does not *)
(* project the old one back (_invalidated_attempt_id).                       *)
InvalidationSticks ==
  [][files.status = NoStatus /\ files.stale # NoStatus =>
       \/ files'.status = NoStatus
       \/ files'.status.attempt > files.stale.attempt]_vars

(* A completed task stays completed until it is invalidated or attempted     *)
(* again; a crash and the reconciliation after it do not take it back.       *)
CompletionStands ==
  [][files.status.state = "completed" =>
       \/ files'.status \in {files.status, NoStatus}
       \/ files'.status.attempt > files.status.attempt]_vars

-----------------------------------------------------------------------------
(* What a task's files promise together. *)

Facts == {f \in [ending : Ending, anomalies : Anomalies] :
            f.ending # "succeeded" => f.anomalies = "none"}

\* The anomalies staged for an attempt count once it ends.
Entry(f, i) ==
  [ending |-> f.attempt[i],
   anomalies |-> IF f.attempt[i] = "live" THEN "none" ELSE f.anomalies[i]]

Recorded(f) == [i \in 1..Latest(f) |-> Entry(f, i)]

Log == INSTANCE TaskLog WITH
         Fact <- Facts, log <- Recorded(files), shown <- files.status,
         withdrawn <- files.stale, result <- files.result

(* The files, written one at a time and cut short by crashes, read at every  *)
(* moment as a log of attempts: only the latest is live, it ends once, the   *)
(* status and the result say only what is true of the latest, and what was   *)
(* invalidated is shown again by no repair (the operations of state_io.py).  *)
ImplementsTaskLog == Log!Spec
=============================================================================
