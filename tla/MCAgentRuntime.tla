--------------------------- MODULE MCAgentRuntime ---------------------------
(* TLC instances of AgentRuntime. *)
EXTENDS AgentRuntimeLog, TLC

CONSTANTS w1, w2, lookup, publish, c1, f1

NoRetries == [t \in Tools |-> 0]

OneRetry == [t \in Tools |-> 1]

WorkerSymmetry == Permutations(Workers)
=============================================================================
