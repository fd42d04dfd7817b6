---------------------------- MODULE ExecutionLog ----------------------------
(***************************************************************************)
(* What a task promises to whoever reads it back: tools answer steps, each *)
(* step at most once, and a step enters the log of executed steps only     *)
(* after the tool it names answered it.  Nothing is ever taken back.       *)
(* Workers, leases, retries, requests and replans are not visible.         *)
(***************************************************************************)
EXTENDS Sequences

CONSTANTS
  Tools,    \* registered tool names
  Results   \* terminal results

VARIABLES
  answers,  \* the answer [tool, result] of each answered step, by step id
  log       \* the executed steps [id, tool], in order

logVars == <<answers, log>>

LogInit == answers = << >> /\ log = << >>

(* Which step is answered, and how, is free; no other answer changes. *)
Answer ==
  /\ \E new \in DOMAIN answers' :
       /\ new \notin DOMAIN answers
       /\ answers'[new] \in [tool : Tools, result : Results]
       /\ answers' = [id \in DOMAIN answers \cup {new} |->
                        IF id = new THEN answers'[new] ELSE answers[id]]
  /\ UNCHANGED log

Commit ==
  /\ \E id \in DOMAIN answers : log' = Append(log, [id |-> id, tool |-> answers[id].tool])
  /\ UNCHANGED answers

LogNext == Answer \/ Commit

LogSpec == LogInit /\ [][LogNext]_logVars
=============================================================================
