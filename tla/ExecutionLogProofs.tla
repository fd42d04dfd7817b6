------------------------- MODULE ExecutionLogProofs -------------------------
(***************************************************************************)
(* AgentRuntime implements ExecutionLog: every step of the runtime answers *)
(* one step, commits one answered step, or changes neither view.           *)
(***************************************************************************)
EXTENDS AgentRuntimeProofs, AgentRuntimeLog, SequenceTheorems

Answered == {id \in DOMAIN ledger : ledger[id].result # "none"}

LEMMA AnswersAgree ==
  ASSUME Answered' = Answered,
         \A id \in Answered :
           ledger'[id].tool = ledger[id].tool /\ ledger'[id].result = ledger[id].result
  PROVE  LedgerAnswers' = LedgerAnswers
  BY DEF LedgerAnswers, Answered

(* A ledger write that leaves the set of answered steps alone. *)
LEMMA AnswersKept ==
  ASSUME LedgerGrows, Answered' \subseteq Answered
  PROVE  LedgerAnswers' = LedgerAnswers
  <1>1. Answered' = Answered
    BY DEF Answered, LedgerGrows
  <1>2. \A id \in Answered :
          ledger'[id].tool = ledger[id].tool /\ ledger'[id].result = ledger[id].result
    BY DEF Answered, LedgerGrows
  <1>3. QED  BY <1>1, <1>2, AnswersAgree

(* A ledger write that answers one step more. *)
LEMMA AnswersGrow ==
  ASSUME Typed, Typed', LedgerGrows, NEW new, new \notin Answered,
         Answered' = Answered \cup {new},
         Executed' = Executed
  PROVE  Log!Answer
  <1>1. DOMAIN LedgerAnswers = Answered /\ DOMAIN LedgerAnswers' = Answered \cup {new}
    BY DEF LedgerAnswers, Answered
  <1>2. LedgerAnswers'[new] = [tool |-> ledger'[new].tool, result |-> ledger'[new].result]
    BY DEF LedgerAnswers, Answered
  <1>3. LedgerAnswers'[new] \in [tool : Tools, result : {"succeeded", "failed"}]
    <2>1. new \in DOMAIN ledger' /\ ledger'[new].result # "none"
      BY DEF Answered
    <2>2. ledger'[new] \in ToolRun
      BY <2>1 DEF Typed, LedgerOK
    <2>3. QED  BY <1>2, <2>1, <2>2 DEF ToolRun
  <1>4. ASSUME NEW id \in Answered  PROVE LedgerAnswers'[id] = LedgerAnswers[id]
    BY DEF LedgerAnswers, Answered, LedgerGrows
  <1>5. LedgerAnswers' = [id \in Answered \cup {new} |-> LedgerAnswers'[id]]
    BY DEF LedgerAnswers, Answered
  <1>6. LedgerAnswers' =
          [id \in Answered \cup {new} |->
             IF id = new THEN LedgerAnswers'[new] ELSE LedgerAnswers[id]]
    BY <1>4, <1>5
  <1>7. QED  BY <1>1, <1>3, <1>6 DEF Log!Answer

(* Only _finish_tool_run answers, and it answers the step of its call. *)
LEMMA FinishAnswers ==
  ASSUME Typed, NEW s \in Step, NEW state, NEW result, FinishToolRun(s, state, result)
  PROVE  Answered' \subseteq Answered \/ (s.id \notin Answered /\ Answered' = Answered \cup {s.id})
  BY DEF FinishToolRun, Answered, Typed, LedgerOK, ToolRun, FirstResult

LEMMA AnswersFrame ==
  ASSUME Typed, StepInPlan, [Next]_vars
  PROVE  \/ Answered' \subseteq Answered
         \/ \E id : id \notin Answered /\ Answered' = Answered \cup {id}
  <1> DEFINE Good == \/ Answered' \subseteq Answered
                     \/ \E id : id \notin Answered /\ Answered' = Answered \cup {id}
  <1> USE DEF Typed
  <1>1. CASE UNCHANGED ledger
    BY <1>1 DEF Answered
  <1>2. ASSUME NEW w \in Workers, Reserve(w)  PROVE Good
    BY <1>2 DEF Reserve, Answered, NewRun
  <1>3. ASSUME NEW w \in Workers, Rearm(w)  PROVE Good
    BY <1>3 DEF Rearm, Answered, LedgerOK, ToolRun
  <1>4. ASSUME NEW w \in Workers, StartAttempt(w)  PROVE Good
    BY <1>4 DEF StartAttempt, Answered, LedgerOK, ToolRun
  <1>5. ASSUME NEW w \in Workers,
               \E state, result : FinishToolRun(StepOf(w), state, result), pc[w] \in Working
        PROVE  Good
    BY <1>5, StepOfType, FinishAnswers
  <1>6. ASSUME NEW w \in Workers,
               Condemn(w) \/ CallSucceeds(w) \/ CallFails(w) \/ ResultTooLarge(w)
        PROVE  Good
    BY <1>5, <1>6 DEF Condemn, CallSucceeds, CallFails, ResultTooLarge, Working
  <1>7. QED
    BY <1>1, <1>2, <1>3, <1>4, <1>6
    DEF Next, RunStep, ToolStep, Control, vars, Acquire, Loop, SafeControl, Refuse, PlanCompleted,
        Gate, RetryAttempt, ToolRaises, VerifyStep, VerifyFinal, Succeed, Checkpoint, Reread, Fail,
        RequireReconciliation, Release, Heartbeat, Crash, Interrupt, LeaseExpires, Pause, Cancel,
        Resume, Retry, RetryVerification, Approve, Replan

(* The checkpoint appends the step it passes, and nothing else moves it.    *)
LEMMA ExecutedFrame ==
  ASSUME IInv, [Next]_vars
  PROVE  \/ Executed' = Executed
         \/ /\ UNCHANGED ledger
            /\ task.plan[task.step + 1].id \in Answered
            /\ ledger[task.plan[task.step + 1].id].tool = task.plan[task.step + 1].tool
            /\ task'.plan = task.plan /\ task'.step = task.step + 1
  <1>1. CASE PlanKept  BY <1>1 DEF PlanKept, Executed
  <1>2. CASE Advances
    <2>1. PICK w \in Workers : Checkpoint(w) /\ MayCheckpoint(w)  BY <1>2 DEF Advances
    <2>2. /\ pc[w] = "checkpoint" /\ StepOf(w) = task.plan[task.step + 1]
          /\ task'.plan = task.plan /\ task'.step = task.step + 1
      BY <2>1, AdvancesEffect DEF IInv, CopyInv
    <2>3. /\ StepOf(w).id \in DOMAIN ledger /\ ledger[StepOf(w).id].tool = StepOf(w).tool
          /\ ledger[StepOf(w).id].result # "none"
      BY <2>2 DEF IInv, LedgerInv, HasRow, ResultFirst, Working
    <2>4. UNCHANGED ledger  BY <2>1 DEF Checkpoint
    <2>5. QED  BY <2>2, <2>3, <2>4 DEF Answered
  <1>3. CASE Revises
    <2>1. task'.step = task.step /\ \A i \in 1..task.step : task'.plan[i] = task.plan[i]
      BY <1>3, RevisesEffect DEF IInv, RowInv
    <2>2. QED  BY <2>1 DEF Executed
  <1>4. QED  BY <1>1, <1>2, <1>3, PlanFrame DEF IInv

LEMMA AppendExtends ==
  ASSUME NEW S, NEW s \in Seq(S), NEW e \in S, NEW t,
         t = [i \in 1..(Len(s) + 1) |-> IF i = Len(s) + 1 THEN e ELSE s[i]]
  PROVE  Append(s, e) = t
  <1>1. Len(s) \in Nat
    OBVIOUS
  <1>2. t \in Seq(S) /\ Len(t) = Len(s) + 1
    BY <1>1
  <1>3. /\ Append(s, e) \in Seq(S) /\ Len(Append(s, e)) = Len(s) + 1
        /\ \A i \in 1..Len(s) : Append(s, e)[i] = s[i]
        /\ Append(s, e)[Len(s) + 1] = e
    BY AppendProperties
  <1>4. \A i \in 1..(Len(s) + 1) : Append(s, e)[i] = t[i]
    BY <1>1, <1>3
  <1>5. QED  BY <1>2, <1>3, <1>4, SeqEqual

LEMMA CommitsAnswered ==
  ASSUME IInv, UNCHANGED ledger, task.plan[task.step + 1].id \in Answered,
         ledger[task.plan[task.step + 1].id].tool = task.plan[task.step + 1].tool,
         task'.plan = task.plan, task'.step = task.step + 1
  PROVE  Log!Commit
  <1> DEFINE id == task.plan[task.step + 1].id
             entry == [id |-> id, tool |-> LedgerAnswers[id].tool]
  <1>1. task.step \in Nat  BY DEF IInv, Typed, RowOK, TaskRow
  <1>2. LedgerAnswers' = LedgerAnswers  BY DEF LedgerAnswers
  <1>3. id \in DOMAIN LedgerAnswers /\ entry = [id |-> id, tool |-> task.plan[task.step + 1].tool]
    BY DEF LedgerAnswers, Answered
  <1>4. Executed' = [i \in 1..(task.step + 1) |->
                      IF i = task.step + 1 THEN entry ELSE Executed[i]]
    BY <1>1, <1>3 DEF Executed
  <1>5. DOMAIN Executed = 1..task.step  BY DEF Executed
  <1>6. Len(Executed) = task.step  BY <1>1, <1>5
  <1>7. Append(Executed, entry) = Executed'
    <2> DEFINE entries == {Executed[i] : i \in 1..task.step} \cup {entry}
    <2>1. Executed = [i \in 1..task.step |-> Executed[i]]
      BY DEF Executed
    <2>2. \A i \in 1..task.step : Executed[i] \in entries
      OBVIOUS
    <2> HIDE DEF entries
    <2>3. Executed \in Seq(entries)
      BY <1>1, <2>1, <2>2
    <2>4. entry \in entries
      BY DEF entries
    <2> HIDE DEF entry
    <2>5. QED  BY <1>4, <1>6, <2>3, <2>4, AppendExtends
  <1>8. QED  BY <1>2, <1>3, <1>7 DEF Log!Commit

(* Each step of the runtime answers one step, commits one, or is invisible. *)
LEMMA StepImplements == IInv /\ IInv' /\ [Next]_vars => [Log!LogNext]_(Log!logVars)
  <1> SUFFICES ASSUME IInv, IInv', [Next]_vars
               PROVE  Log!LogNext \/ (LedgerAnswers' = LedgerAnswers /\ Executed' = Executed)
    BY DEF Log!logVars
  <1>1. LedgerGrows  BY LedgerFrame DEF IInv
  <1>2. CASE Executed' = Executed
    <2>1. CASE Answered' \subseteq Answered
      BY <1>1, <1>2, <2>1, AnswersKept
    <2>2. ASSUME NEW id, id \notin Answered, Answered' = Answered \cup {id}
          PROVE  Log!LogNext
      BY <1>1, <1>2, <2>2, AnswersGrow DEF IInv, Log!LogNext
    <2>3. QED  BY <2>1, <2>2, AnswersFrame DEF IInv, CopyInv
  <1>3. CASE Executed' # Executed
    BY <1>3, ExecutedFrame, CommitsAnswered DEF Log!LogNext
  <1>4. QED  BY <1>2, <1>3

LEMMA InitImplements == Init => Log!LogInit
  <1> SUFFICES ASSUME Init  PROVE LedgerAnswers = << >> /\ Executed = << >>
    BY DEF Log!LogInit
  <1>1. task.step = 0 /\ ledger = << >>
    BY DEF Init, NewTask
  <1>2. QED  BY <1>1 DEF LedgerAnswers, Executed

(* For every set of workers, tools and criteria and every bound, what a     *)
(* reader of agent_tasks and agent_tool_runs sees is an execution log.      *)
THEOREM Implements == Spec => ImplementsLog
  <1>1. IInv /\ IInv' /\ [Next]_vars => [Log!LogNext]_(Log!logVars)  BY StepImplements
  <1>2. QED  BY <1>1, InitImplements, SpecIInv, PTL DEF Spec, ImplementsLog, Log!LogSpec
=============================================================================
