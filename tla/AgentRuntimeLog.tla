-------------------------- MODULE AgentRuntimeLog --------------------------
(***************************************************************************)
(* AgentRuntime as an implementation of ExecutionLog.                      *)
(***************************************************************************)
EXTENDS AgentRuntime

(* What a reader of the task and the ledger sees.                          *)

LedgerAnswers ==
  [id \in {i \in DOMAIN ledger : ledger[i].result # "none"} |->
     [tool |-> ledger[id].tool, result |-> ledger[id].result]]

Executed ==
  [i \in 1..task.step |-> [id |-> task.plan[i].id, tool |-> task.plan[i].tool]]

Log == INSTANCE ExecutionLog
         WITH Results <- {"succeeded", "failed"}, answers <- LedgerAnswers, log <- Executed

(* The runtime implements the execution log: by whatever takeovers, crashes, *)
(* retries and replans, the ledger answers each step once and for good, and *)
(* the checkpoint appends one answered step after another and drops none.  *)
ImplementsLog == Log!LogSpec
=============================================================================
