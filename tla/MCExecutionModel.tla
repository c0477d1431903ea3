-------------------------- MODULE MCExecutionModel --------------------------
(* Small step graphs for ExecutionModel.                                     *)
EXTENDS ExecutionModel

Edge(upstream, mapping, requirement, cardinality) ==
  [upstream |-> upstream, mapping |-> mapping,
   requirement |-> requirement, cardinality |-> cardinality]

(* measure[k] -> interpret[k], then a barrier over whatever finished: the    *)
(* graph of tests/execution_model/test_invariants.py.  The barrier also      *)
(* wants some success, and one step needs a step that does not exist.        *)
ChainSteps == {"measure", "interpret", "summarize", "orphan"}
ChainExpanding == {"measure", "interpret"}
ChainClauses ==
  [s \in ChainSteps |->
     CASE s = "measure"   -> {}
       [] s = "interpret" -> {Edge("measure", "same_key", "succeeded", "all")}
       [] s = "summarize" -> {Edge("interpret", "collect_all", "finished", "all"),
                              Edge("interpret", "collect_all", "succeeded", "any")}
       [] s = "orphan"    -> {Edge("ghost", "broadcast", "finished", "all")}]

(* A singleton feeding a consumer: the smallest graph with an edge.          *)
PairSteps == {"measure", "summarize"}
PairClauses ==
  [s \in PairSteps |->
     IF s = "measure" THEN {} ELSE {Edge("measure", "broadcast", "succeeded", "all")}]

Twice == [s \in Step |-> 2]
InterpretTwice == [s \in Step |-> IF s = "interpret" THEN 2 ELSE 1]
=============================================================================
