------------------------------ MODULE TaskLog ------------------------------
(***************************************************************************)
(* What the files of one task promise together (io/state_io.py): attempts  *)
(* are a log that only grows at its end, an entry is written live and      *)
(* replaced by its terminal fact once, and the status and the result only  *)
(* ever say of the latest entry what is true of it.  There are no files,   *)
(* no writes under way and no crashes here.                                *)
(***************************************************************************)
EXTENDS Naturals, Sequences

CONSTANT Fact   \* how an attempt may end: [ending, anomalies]

VARIABLES
  log,        \* one entry per attempt, Live or a Fact
  shown,      \* the status
  withdrawn,  \* the status that was last invalidated
  result      \* the attempt whose result is published, or 0

vars == <<log, shown, withdrawn, result>>

Live == [ending |-> "live", anomalies |-> "none"]
Shown(s, i) == [state |-> s, attempt |-> i]
None == Shown("none", 0)

latest == log[Len(log)]
Attempted == log # <<>>
UnderWay == Attempted /\ latest = Live

\* What may be said of the latest attempt.  A status may lag behind it, never ahead.
Holds(s) ==
  \/ s = "running" /\ latest = Live
  \/ s = "failed" /\ latest.ending # "succeeded"
  \/ s = "completed" /\ latest.ending = "succeeded" /\ latest.anomalies # "partial"
  \/ s = "deferred" /\ latest.ending = "succeeded" /\ latest.anomalies = "partial"

\* A status from before attempts were recorded names none.
Init ==
  /\ log = <<>> /\ withdrawn = None /\ result = 0
  /\ shown \in {None} \cup {Shown(s, 0) : s \in {"running", "completed", "failed"}}

Begin ==
  /\ ~ UnderWay
  /\ log' = Append(log, Live)
  /\ UNCHANGED <<shown, withdrawn, result>>

\* Once: nothing replaces a fact.
End(f) ==
  /\ UnderWay
  /\ shown = Shown("failed", Len(log)) => f.ending # "succeeded"
  /\ log' = [log EXCEPT ![Len(log)] = f]
  /\ UNCHANGED <<shown, withdrawn, result>>

\* What was withdrawn is not shown again: only a later attempt can be.
Show(s) ==
  /\ Attempted /\ Holds(s)
  /\ shown = None => withdrawn.attempt < Len(log)
  /\ shown' = Shown(s, Len(log))
  /\ UNCHANGED <<log, withdrawn, result>>

\* An old status is completed by a promotion or failed by reconciliation.
Amend(s) ==
  /\ ~ Attempted /\ shown # None
  /\ s = "failed" => shown.state = "running"
  /\ shown' = Shown(s, 0)
  /\ UNCHANGED <<log, withdrawn, result>>

Withdraw ==
  /\ ~ UnderWay /\ shown # None
  /\ withdrawn' = shown /\ shown' = None
  /\ UNCHANGED <<log, result>>

Publish ==
  /\ Attempted /\ Holds("completed") /\ shown = Shown("completed", Len(log))
  /\ result' = Len(log)
  /\ UNCHANGED <<log, shown, withdrawn>>

Next ==
  \/ Begin \/ (\E f \in Fact : End(f))
  \/ \E s \in {"running", "failed", "completed", "deferred"} : Show(s)
  \/ \E s \in {"completed", "failed"} : Amend(s)
  \/ Withdraw \/ Publish

Spec == Init /\ [][Next]_vars
=============================================================================
