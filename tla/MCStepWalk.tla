----------------------------- MODULE MCStepWalk -----------------------------
(* An instance of StepWalk: two mapped stages that form a chain, a collector *)
(* of the second, and a step that needs both.                              *)
EXTENDS StepWalk, TLC

CONSTANTS measure, interpret, collect, publish, i1, i2

ChainStep  == {measure, interpret, collect, publish}
ChainNeeds == (measure :> {}) @@ (interpret :> {measure}) @@ (collect :> {interpret})
                @@ (publish :> {interpret, collect})
ChainCollects == [s \in ChainStep |-> IF s = collect THEN {interpret} ELSE {}]
ChainOfTwo == {<<measure, interpret>>}

(* Command lines: all, --from a step, --only a step, --force, --skip.       *)
Plain   == [plan |-> Step, walk |-> Step, forced |-> {}, failFast |-> FALSE, skip |-> {}]
From(s) == [Plain EXCEPT !.plan = {s} \cup Downstream(s, Step),
                         !.walk = {s} \cup Downstream(s, Step)]
Only(s) == [Plain EXCEPT !.plan = {s}, !.walk = {s}]
Forced(o) == [o EXCEPT !.forced = o.plan]

Options ==
  {Plain, Forced(Plain), [Plain EXCEPT !.failFast = TRUE], [Plain EXCEPT !.skip = {measure}],
   From(interpret), Only(measure), Only(publish), Forced(From(collect))}

ItemSymmetry == Permutations({i1, i2})
=============================================================================
