------------------------- MODULE MCAgentRuntimeJobs -------------------------
(* TLC instances of AgentRuntimeJobs. *)
EXTENDS AgentRuntimeJobs, TLC

CONSTANTS w1, w2, train, clean, c1, f1

NoRetries == [t \in Tools |-> 0]

WorkerSymmetry == Permutations(Workers)
=============================================================================
