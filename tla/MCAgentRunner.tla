--------------------------- MODULE MCAgentRunner ---------------------------
\* Instances of AgentRunner for TLC.
EXTENDS AgentRunner, TLC

CONSTANTS u, v, x, y, i1, i2, i3

\* Jobs are alike, and so are items; a worker's id is state.
JobSymmetry == Permutations(Worker) \cup Permutations(Item)

\* The redispatch run follows workers that are lost with their hosts and nothing else:
\* dispatchers list their jobs, no worker is interrupted or shut down, no output validates.
OnlyHostsLost ==
  /\ disowned \subseteq listed /\ valid = {}
  /\ \A w \in Worker : pc[w] \notin {"shutting", "unwinding"}
=============================================================================
