----------------------- MODULE MCAgentRuntimeEvidence -----------------------
(* TLC instances of AgentRuntimeEvidence. *)
EXTENDS AgentRuntimeEvidence, TLC

CONSTANTS w1, w2, lookup, publish, c1, f1

NoRetries == [t \in Tools |-> 0]

WorkerSymmetry == Permutations(Workers)

(* Tasks whose success needs a manifest. *)
StrictInit == InitE /\ task.strict

StrictSpecE == StrictInit /\ [][NextE]_allVars
=============================================================================
