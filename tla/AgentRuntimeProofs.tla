------------------------- MODULE AgentRuntimeProofs -------------------------
(* Proofs about AgentRuntime, for any workers, tools, criteria, retry       *)
(* budgets and bounds that satisfy its assumptions.                         *)
EXTENDS AgentRuntime, TLAPS

(* The phases in which a worker is inside one step of its plan. *)
Working == {"reserve", "rearm", "condemn", "start", "call", "verify", "checkpoint"}

StepInPlan == \A w \in Workers : pc[w] \in Working => snap[w].step < Len(snap[w].plan)
-----------------------------------------------------------------------------
(* Types of the pieces the actions are built from.                          *)

LEMMA StepOfType ==
  ASSUME NEW w \in Workers, LocalsOK, StepInPlan, pc[w] \in Working
  PROVE  StepOf(w) \in Step
  BY DEF LocalsOK, StepInPlan, StepOf, TaskRow

LEMMA CopyType ==
  ASSUME NEW row \in TaskRow
  PROVE  Copy(row) \in TaskRow
  BY DEF Copy, TaskRow

LEMMA NoCopyType == NoCopy \in TaskRow
  BY DEF NoCopy, NewTask, TaskRow, ToolsOf, TaskStates, Approval

LEMMA UpdateType ==
  ASSUME NEW row \in TaskRow, Update(row)
  PROVE  RowOK'
  BY DEF Update, RowOK

LEMMA GotoType ==
  ASSUME LocalsOK, NEW w \in Workers, NEW phase \in Phases, Goto(w, phase)
  PROVE  pc' \in [Workers -> Phases]
  BY DEF LocalsOK, Goto

LEMMA DropType ==
  ASSUME LocalsOK, NEW w \in Workers, DropLocals(w)
  PROVE  snap' \in [Workers -> TaskRow] /\ att' \in [Workers -> Nat]
  BY NoCopyType DEF LocalsOK, DropLocals

LEMMA ExitType ==
  ASSUME LocalsOK, NEW w \in Workers, Exit(w)
  PROVE  LocalsOK'
  <1>1. "release" \in Phases  BY DEF Phases
  <1>2. QED  BY <1>1, GotoType, DropType DEF Exit, LocalsOK

LEMMA CasType ==
  ASSUME RowOK, LocalsOK, NEW w \in Workers, NEW row \in TaskRow, CasAndExit(w, row)
  PROVE  RowOK' /\ LocalsOK'
  BY UpdateType, ExitType DEF CasAndExit, KeepRow, RowOK

LEMMA FinishType ==
  ASSUME LedgerOK, NEW s,
         NEW state \in {"reserved", "running", "succeeded", "failed", "reconciliation_required"},
         NEW result \in {"none", "succeeded", "failed"}, FinishToolRun(s, state, result)
  PROVE  LedgerOK'
  BY DEF LedgerOK, FinishToolRun, FirstResult, ToolRun

LEMMA RecordType ==
  ASSUME LogOK, NEW id \in Id \cup {FINAL_STEP_ID},
         NEW crits \in SUBSET (Criteria \cup FinalCriteria), Record(id, crits)
  PROVE  (passed \subseteq (Id \cup {FINAL_STEP_ID}) \X (Criteria \cup FinalCriteria))'
  BY DEF LogOK, Record

(* The steps a draft and a list of ids make up. *)
LEMMA StepsType ==
  ASSUME NEW draft \in Drafts, NEW ids \in [1..Len(draft) -> Id]
  PROVE  /\ Steps(draft, ids) \in Seq(Step)
         /\ Len(Steps(draft, ids)) = Len(draft)
         /\ ToolsOf(Steps(draft, ids)) \subseteq Tools
  <1>1. PICK n \in 1..MaxSteps : draft \in [1..n -> Tools \X SUBSET Criteria]
    BY DEF Drafts
  <1>2. n \in Nat /\ Len(draft) = n /\ DOMAIN draft = 1..n
    BY <1>1, BoundsAssumption
  <1>3. Steps(draft, ids) \in [1..n -> Step]
    BY <1>1, <1>2 DEF Steps, Step
  <1>4. Steps(draft, ids) \in Seq(Step) /\ Len(Steps(draft, ids)) = n
    <2> DEFINE plan == Steps(draft, ids)
    <2> HIDE DEF plan
    <2>1. plan \in [1..n -> Step]  BY <1>3 DEF plan
    <2>2. plan \in Seq(Step) /\ Len(plan) = n  BY <1>2, <2>1
    <2>3. QED  BY <2>2 DEF plan
  <1>5. ToolsOf(Steps(draft, ids)) \subseteq Tools
    BY <1>3 DEF ToolsOf, Step
  <1>6. QED
    BY <1>2, <1>4, <1>5

LEMMA DraftLen ==
  ASSUME NEW draft \in Drafts
  PROVE  Len(draft) \in Nat \ {0}
  <1>1. PICK n \in 1..MaxSteps : draft \in [1..n -> Tools \X SUBSET Criteria]
    BY DEF Drafts
  <1>2. QED  BY <1>1, BoundsAssumption

LEMMA FreshIdsType ==
  ASSUME NEW n \in Nat, NEW ver \in Nat \ {0}, NEW offset \in Nat
  PROVE  FreshIds(n, ver, offset) \in [1..n -> Id]
  BY DEF FreshIds, Id
-----------------------------------------------------------------------------
(* Types are preserved: one step per action.                                *)

LEMMA InitType == Init => Typed /\ StepInPlan
  <1> SUFFICES ASSUME Init PROVE Typed /\ StepInPlan
    OBVIOUS
  <1>1. PICK draft \in Drafts, strict \in BOOLEAN :
          task = NewTask(Steps(draft, FreshIds(Len(draft), 1, 0)), strict)
    BY DEF Init
  <1>2. /\ Steps(draft, FreshIds(Len(draft), 1, 0)) \in Seq(Step)
        /\ ToolsOf(Steps(draft, FreshIds(Len(draft), 1, 0))) \subseteq Tools
    <2>1. Len(draft) \in Nat  BY DraftLen
    <2>2. FreshIds(Len(draft), 1, 0) \in [1..Len(draft) -> Id]  BY <2>1, FreshIdsType
    <2>3. QED  BY <2>2, StepsType
  <1>3. task \in TaskRow
    BY <1>1, <1>2 DEF NewTask, TaskRow, TaskStates, Approval
  <1>4. RowOK  BY <1>3 DEF Init, RowOK
  <1>5. LedgerOK  BY DEF Init, LedgerOK
  <1>6. LogOK  BY DEF Init, LogOK
  <1>7. LocalsOK  BY NoCopyType DEF Init, LocalsOK, Phases
  <1>8. StepInPlan  BY DEF Init, StepInPlan, Working
  <1>9. QED  BY <1>4, <1>5, <1>6, <1>7, <1>8 DEF Typed

(* Phases and copies only change together in Loop, so a step stays in its plan. *)
LEMMA StepInPlanStep ==
  ASSUME Typed, StepInPlan, [Next]_vars
  PROVE  StepInPlan'
  <1> USE DEF StepInPlan, Working, Typed, LocalsOK, TaskRow, Goto
  <1>1. ASSUME NEW w \in Workers, Acquire(w)  PROVE StepInPlan'
    BY <1>1 DEF Acquire
  <1>2. ASSUME NEW w \in Workers, Loop(w)  PROVE StepInPlan'
    BY <1>2 DEF Loop, Exit, DropLocals
  <1>3. ASSUME NEW w \in Workers, SafeControl(w)  PROVE StepInPlan'
    BY <1>3 DEF SafeControl, CasAndExit, Exit, DropLocals
  <1>4. ASSUME NEW w \in Workers, Refuse(w)  PROVE StepInPlan'
    BY <1>4 DEF Refuse
  <1>5. ASSUME NEW w \in Workers, PlanCompleted(w)  PROVE StepInPlan'
    BY <1>5 DEF PlanCompleted
  <1>6. ASSUME NEW w \in Workers, Gate(w)  PROVE StepInPlan'
    <2>1. CASE ApprovalMissing(snap[w])
      BY <1>6, <2>1 DEF Gate, CasAndExit, Exit, DropLocals
    <2>2. CASE ~ApprovalMissing(snap[w])
      <3>1. snap[w].step < Len(snap[w].plan)  BY <1>6 DEF Gate, PlanDone
      <3>2. QED  BY <1>6, <2>2, <3>1 DEF Gate, KeepLocals
    <2>3. QED  BY <2>1, <2>2
  <1>7. ASSUME NEW w \in Workers, Reserve(w)  PROVE StepInPlan'
    BY <1>7 DEF Reserve, ReserveOutcome, AfterResult
  <1>8. ASSUME NEW w \in Workers, Rearm(w)  PROVE StepInPlan'
    BY <1>8 DEF Rearm
  <1>9. ASSUME NEW w \in Workers, Condemn(w)  PROVE StepInPlan'
    BY <1>9 DEF Condemn
  <1>10. ASSUME NEW w \in Workers, StartAttempt(w)  PROVE StepInPlan'
    BY <1>10 DEF StartAttempt
  <1>11. ASSUME NEW w \in Workers, RetryAttempt(w)  PROVE StepInPlan'
    BY <1>11 DEF RetryAttempt
  <1>12. ASSUME NEW w \in Workers, CallSucceeds(w)  PROVE StepInPlan'
    BY <1>12 DEF CallSucceeds, AfterResult
  <1>13. ASSUME NEW w \in Workers, CallFails(w)  PROVE StepInPlan'
    BY <1>13 DEF CallFails
  <1>14. ASSUME NEW w \in Workers, ResultTooLarge(w)  PROVE StepInPlan'
    BY <1>14 DEF ResultTooLarge
  <1>15. ASSUME NEW w \in Workers, ToolRaises(w)  PROVE StepInPlan'
    BY <1>15 DEF ToolRaises
  <1>16. ASSUME NEW w \in Workers, VerifyStep(w)  PROVE StepInPlan'
    BY <1>16 DEF VerifyStep, VerifyPasses, VerifyRefuses, CasAndExit, KeepLocals, Exit, DropLocals
  <1>17. ASSUME NEW w \in Workers, VerifyFinal(w)  PROVE StepInPlan'
    BY <1>17 DEF VerifyFinal, VerifyPasses, VerifyRefuses, CasAndExit, KeepLocals, Exit, DropLocals
  <1>18. ASSUME NEW w \in Workers, Succeed(w)  PROVE StepInPlan'
    BY <1>18 DEF Succeed, CasAndExit, Exit, DropLocals
  <1>19. ASSUME NEW w \in Workers, Checkpoint(w)  PROVE StepInPlan'
    BY <1>19 DEF Checkpoint, Exit, DropLocals
  <1>20. ASSUME NEW w \in Workers, Reread(w)  PROVE StepInPlan'
    BY <1>20 DEF Reread, DropLocals
  <1>21. ASSUME NEW w \in Workers, Fail(w)  PROVE StepInPlan'
    BY <1>21 DEF Fail, CasAndExit, Exit, DropLocals
  <1>22. ASSUME NEW w \in Workers, RequireReconciliation(w)  PROVE StepInPlan'
    BY <1>22 DEF RequireReconciliation, CasAndExit, Exit, DropLocals
  <1>23. ASSUME NEW w \in Workers, Release(w)  PROVE StepInPlan'
    BY <1>23 DEF Release, Forget, DropLocals
  <1>24. ASSUME NEW w \in Workers, Heartbeat(w)  PROVE StepInPlan'
    BY <1>24 DEF Heartbeat
  <1>25. ASSUME NEW w \in Workers, Crash(w)  PROVE StepInPlan'
    BY <1>25 DEF Crash, Forget, DropLocals
  <1>26. ASSUME NEW w \in Workers, Interrupt(w)  PROVE StepInPlan'
    BY <1>26 DEF Interrupt, Exit, DropLocals
  <1>27. ASSUME NEW leased \in LeaseReadings, Pause(leased)  PROVE StepInPlan'
    BY <1>27 DEF Pause
  <1>28. ASSUME NEW leased \in LeaseReadings, Cancel(leased)  PROVE StepInPlan'
    BY <1>28 DEF Cancel
  <1>29. ASSUME Resume  PROVE StepInPlan'
    BY <1>29 DEF Resume
  <1>30. ASSUME Retry  PROVE StepInPlan'
    BY <1>30 DEF Retry
  <1>31. ASSUME RetryVerification  PROVE StepInPlan'
    BY <1>31 DEF RetryVerification
  <1>32. ASSUME NEW approved \in BOOLEAN, Approve(approved)  PROVE StepInPlan'
    BY <1>32 DEF Approve
  <1>33. ASSUME NEW draft \in Drafts, NEW ids \in ReplanIds(task, Len(draft)), Replan(draft, ids)
         PROVE StepInPlan'
    BY <1>33 DEF Replan
  <1>34. ASSUME LeaseExpires  PROVE StepInPlan'
    BY <1>34 DEF LeaseExpires
  <1>35. CASE UNCHANGED vars
    BY <1>35 DEF vars
  <1>36. QED
    BY <1>1, <1>2, <1>3, <1>4, <1>5, <1>6, <1>7, <1>8, <1>9, <1>10, <1>11, <1>12, <1>13, <1>14, <1>15, <1>16, <1>17,
       <1>18, <1>19, <1>20, <1>21, <1>22, <1>23, <1>24, <1>25, <1>26, <1>27, <1>28, <1>29, <1>30, <1>31, <1>32, <1>33, <1>34, <1>35
    DEF Next, RunStep, ToolStep, Control

LEMMA ReplanIdsType ==
  ASSUME RowOK, NEW n \in Nat, NEW ids \in ReplanIds(task, n)
  PROVE  ids \in [1..n -> Id]
  <1> DEFINE new == FreshIds(n, task.planVersion + 1, task.step)
  <1>1. task.planVersion + 1 \in Nat \ {0} /\ task.step \in Nat /\ task.plan \in Seq(Step)
    BY DEF RowOK, TaskRow
  <1>2. new \in [1..n -> Id]  BY <1>1, FreshIdsType
  <1>3. ASSUME NEW i \in DOMAIN task.plan  PROVE task.plan[i].id \in Id
    <2>1. task.plan[i] \in Step  BY <1>1
    <2>2. QED  BY <2>1 DEF Step
  <1>4. QED  BY <1>2, <1>3 DEF ReplanIds

LEMMA RevisedType ==
  ASSUME NEW row \in TaskRow, NEW suffix \in Seq(Step), row.step <= Len(row.plan)
  PROVE  /\ Revised(row, suffix) \in Seq(Step)
         /\ Len(Revised(row, suffix)) = row.step + Len(suffix)
         /\ \A i \in 1..row.step : Revised(row, suffix)[i] = row.plan[i]
  <1> DEFINE plan == row.plan
             prefix == SubSeq(plan, 1, row.step)
  <1>1. plan \in Seq(Step) /\ row.step \in Nat  BY DEF TaskRow
  <1> HIDE DEF plan
  <1>2. /\ prefix \in Seq(Step) /\ Len(prefix) = row.step
        /\ \A i \in 1..row.step : prefix[i] = plan[i]
    BY <1>1 DEF plan
  <1> HIDE DEF prefix
  <1>3. /\ prefix \o suffix \in Seq(Step)
        /\ Len(prefix \o suffix) = row.step + Len(suffix)
        /\ \A i \in 1..row.step : (prefix \o suffix)[i] = prefix[i]
    BY <1>1, <1>2
  <1>4. QED  BY <1>2, <1>3 DEF Revised, prefix, plan

LEMMA TypedStep ==
  ASSUME Typed, StepInPlan, task.step <= Len(task.plan), [Next]_vars
  PROVE  Typed'
  <1> USE DEF Typed
  <1>1. ASSUME NEW w \in Workers, Acquire(w)  PROVE Typed'
    BY <1>1, UpdateType, GotoType
    DEF Acquire, LocalsOK, LedgerOK, LogOK, Phases, RowOK, TaskRow, TaskStates, StopStates, TerminalStates
  <1>2. ASSUME NEW w \in Workers, Loop(w)  PROVE Typed'
    <2>1. CASE task.owner = w
      BY <1>2, <2>1, CopyType, GotoType DEF Loop, ReadVersion, RowOK, LocalsOK, LedgerOK, LogOK, Phases
    <2>2. CASE task.owner # w
      BY <1>2, <2>2, ExitType DEF Loop, KeepRow, RowOK, LedgerOK, LogOK
    <2>3. QED  BY <2>1, <2>2
  <1>3. ASSUME NEW w \in Workers, SafeControl(w)  PROVE Typed'
    BY <1>3, CasType
    DEF SafeControl, LedgerOK, LogOK, RowOK, TaskRow, TaskStates, StopStates, TerminalStates
  <1>4. ASSUME NEW w \in Workers, Refuse(w)  PROVE Typed'
    BY <1>4, GotoType DEF Refuse, RowOK, LocalsOK, LedgerOK, LogOK, Phases
  <1>5. ASSUME NEW w \in Workers, PlanCompleted(w)  PROVE Typed'
    BY <1>5, GotoType DEF PlanCompleted, RowOK, LocalsOK, LedgerOK, LogOK, Phases
  <1>6. ASSUME NEW w \in Workers, Gate(w)  PROVE Typed'
    <2>1. CASE ApprovalMissing(snap[w])
      <3>1. StepOf(w) \in Step
        BY <1>6 DEF Gate, StepOf, PlanDone, LocalsOK, TaskRow
      <3>2. [task EXCEPT !.state = "waiting_approval",
                         !.approval = [step |-> StepOf(w), status |-> "requested"]] \in TaskRow
        BY <3>1 DEF Approval, RowOK, TaskRow, TaskStates, StopStates
      <3>3. QED  BY <1>6, <2>1, <3>2, CasType DEF Gate, LedgerOK, LogOK
    <2>2. CASE ~ApprovalMissing(snap[w])
      BY <1>6, <2>2, GotoType DEF Gate, KeepRow, KeepLocals, RowOK, LocalsOK, LedgerOK, LogOK, Phases
    <2>3. QED  BY <2>1, <2>2
  <1>7. ASSUME NEW w \in Workers, Reserve(w)  PROVE Typed'
    <2>1. StepOf(w) \in Step  BY <1>7, StepOfType DEF Reserve, Working
    <2>2. LedgerOK'
      BY <1>7, <2>1, BoundsAssumption DEF Reserve, LedgerOK, NewRun, ToolRun, Step
    <2>3. "start" \in Phases /\ ReserveOutcome(w, StepOf(w)) \in Phases
      BY DEF Phases, ReserveOutcome, AfterResult
    <2>4. pc' \in [Workers -> Phases]  BY <1>7, <2>3, GotoType DEF Reserve
    <2>5. QED  BY <1>7, <2>2, <2>4 DEF Reserve, RowOK, LogOK, LocalsOK
  <1>8. ASSUME NEW w \in Workers, Rearm(w)  PROVE Typed'
    BY <1>8, GotoType DEF Rearm, RowOK, LocalsOK, LogOK, LedgerOK, Phases, ToolRun
  <1>9. ASSUME NEW w \in Workers, Condemn(w)  PROVE Typed'
    BY <1>9, GotoType, FinishType DEF Condemn, RowOK, LocalsOK, LogOK, Phases
  <1>10. ASSUME NEW w \in Workers, StartAttempt(w)  PROVE Typed'
    <2>1. LedgerOK'
      BY <1>10, BoundsAssumption DEF StartAttempt, LedgerOK, ToolRun
    <2>2. "call" \in Phases  BY DEF Phases
    <2>3. QED  BY <1>10, <2>1, <2>2, GotoType DEF StartAttempt, RowOK, LogOK, LocalsOK
  <1>11. ASSUME NEW w \in Workers, RetryAttempt(w)  PROVE Typed'
    BY <1>11, GotoType DEF RetryAttempt, RowOK, LocalsOK, LogOK, LedgerOK, Phases
  <1>12. ASSUME NEW w \in Workers, CallSucceeds(w)  PROVE Typed'
    BY <1>12, GotoType, FinishType DEF CallSucceeds, AfterResult, RowOK, LocalsOK, LogOK, Phases
  <1>13. ASSUME NEW w \in Workers, CallFails(w)  PROVE Typed'
    BY <1>13, GotoType, FinishType DEF CallFails, FailedResult, RowOK, LocalsOK, LogOK, Phases
  <1>14. ASSUME NEW w \in Workers, ResultTooLarge(w)  PROVE Typed'
    BY <1>14, GotoType, FinishType
    DEF ResultTooLarge, FailedResult, RowOK, LocalsOK, LogOK, Phases
  <1>15. ASSUME NEW w \in Workers, ToolRaises(w)  PROVE Typed'
    BY <1>15, GotoType DEF ToolRaises, RowOK, LocalsOK, LogOK, LedgerOK, Phases
  <1>16. ASSUME NEW w \in Workers, VerifyStep(w)  PROVE Typed'
    <2> DEFINE refused(verdict) == [task EXCEPT !.state = verdict]
    <2>1. \A verdict \in {"verification_failed", "verification_blocked"} : refused(verdict) \in TaskRow
      BY DEF RowOK, TaskRow, TaskStates, StopStates, TerminalStates
    <2>2. StepOf(w).crits \subseteq Criteria \cup FinalCriteria /\ StepOf(w).id \in Id \cup {FINAL_STEP_ID}
      BY <1>16, StepOfType DEF VerifyStep, Working, Step
    <2>3. CASE VerifyPasses(w, StepOf(w).id, StepOf(w).crits, "checkpoint")
      BY <1>16, <2>2, <2>3, RecordType, GotoType
      DEF VerifyStep, VerifyPasses, KeepRow, KeepLocals, RowOK, LocalsOK, LedgerOK, LogOK, Phases
    <2>4. CASE VerifyRefuses(w, StepOf(w).id, StepOf(w).crits)
      <3>1. PICK some \in SUBSET StepOf(w).crits,
                 verdict \in {"verification_failed", "verification_blocked"} :
              Record(StepOf(w).id, some) /\ CasAndExit(w, refused(verdict))
        BY <2>4 DEF VerifyRefuses
      <3>2. QED  BY <1>16, <2>1, <2>2, <3>1, RecordType, CasType DEF VerifyStep, LedgerOK, LogOK
    <2>5. QED  BY <1>16, <2>3, <2>4 DEF VerifyStep
  <1>17. ASSUME NEW w \in Workers, VerifyFinal(w)  PROVE Typed'
    <2> DEFINE refused(verdict) == [task EXCEPT !.state = verdict]
    <2>1. \A verdict \in {"verification_failed", "verification_blocked"} : refused(verdict) \in TaskRow
      BY DEF RowOK, TaskRow, TaskStates, StopStates, TerminalStates
    <2>2. FinalCriteria \subseteq Criteria \cup FinalCriteria /\ FINAL_STEP_ID \in Id \cup {FINAL_STEP_ID}
      OBVIOUS
    <2>3. CASE VerifyPasses(w, FINAL_STEP_ID, FinalCriteria, "succeed")
      BY <1>17, <2>2, <2>3, RecordType, GotoType
      DEF VerifyFinal, VerifyPasses, KeepRow, KeepLocals, RowOK, LocalsOK, LedgerOK, LogOK, Phases
    <2>4. CASE VerifyRefuses(w, FINAL_STEP_ID, FinalCriteria)
      <3>1. PICK some \in SUBSET FinalCriteria,
                 verdict \in {"verification_failed", "verification_blocked"} :
              Record(FINAL_STEP_ID, some) /\ CasAndExit(w, refused(verdict))
        BY <2>4 DEF VerifyRefuses
      <3>2. QED  BY <1>17, <2>1, <2>2, <3>1, RecordType, CasType DEF VerifyFinal, LedgerOK, LogOK
    <2>5. QED  BY <1>17, <2>3, <2>4 DEF VerifyFinal
  <1>18. ASSUME NEW w \in Workers, Succeed(w)  PROVE Typed'
    BY <1>18, CasType
    DEF Succeed, LedgerOK, LogOK, RowOK, TaskRow, TaskStates, StopStates, TerminalStates
  <1>19. ASSUME NEW w \in Workers, Checkpoint(w)  PROVE Typed'
    <2>1. CASE MayCheckpoint(w)
      <3>1. Advanced(task) \in TaskRow
        <4>1. task.step + 1 \in Nat  BY DEF RowOK, TaskRow
        <4>2. NoApproval \in Approval  BY DEF Approval
        <4>3. QED  BY <4>1, <4>2 DEF Advanced, RowOK, TaskRow
      <3>2. "loop" \in Phases  BY DEF Phases
      <3>3. QED
        BY <1>19, <2>1, <3>1, <3>2, UpdateType, GotoType, DropType DEF Checkpoint, LedgerOK, LogOK, LocalsOK
    <2>2. CASE ~MayCheckpoint(w)
      BY <1>19, <2>2, ExitType DEF Checkpoint, KeepRow, RowOK, LedgerOK, LogOK
    <2>3. QED  BY <2>1, <2>2
  <1>20. ASSUME NEW w \in Workers, Reread(w)  PROVE Typed'
    BY <1>20, GotoType, DropType
    DEF Reread, ReadVersion, RowOK, LocalsOK, LedgerOK, LogOK, Phases
  <1>21. ASSUME NEW w \in Workers, Fail(w)  PROVE Typed'
    BY <1>21, CasType
    DEF Fail, LedgerOK, LogOK, RowOK, TaskRow, TaskStates, StopStates, TerminalStates
  <1>22. ASSUME NEW w \in Workers, RequireReconciliation(w)  PROVE Typed'
    BY <1>22, CasType
    DEF RequireReconciliation, LedgerOK, LogOK, RowOK, TaskRow, TaskStates, StopStates, TerminalStates
  <1>23. ASSUME NEW w \in Workers, Release(w)  PROVE Typed'
    BY <1>23, GotoType, DropType
    DEF Release, Forget, LocalsOK, LedgerOK, LogOK, Phases, RowOK, TaskRow
  <1>24. ASSUME NEW w \in Workers, Heartbeat(w)  PROVE Typed'
    BY <1>24 DEF Heartbeat, LocalsOK, LedgerOK, LogOK, RowOK, TaskRow
  <1>25. ASSUME NEW w \in Workers, Crash(w)  PROVE Typed'
    BY <1>25, GotoType, DropType DEF Crash, Forget, LocalsOK, LedgerOK, LogOK, Phases, RowOK
  <1>26. ASSUME NEW w \in Workers, Interrupt(w)  PROVE Typed'
    BY <1>26, ExitType DEF Interrupt, LedgerOK, LogOK, RowOK
  <1>27. ASSUME NEW leased \in LeaseReadings, Pause(leased)  PROVE Typed'
    BY <1>27, UpdateType
    DEF Pause, LocalsOK, LedgerOK, LogOK, LeaseReadings, RowOK, TaskRow, TaskStates, StopStates, TerminalStates
  <1>28. ASSUME NEW leased \in LeaseReadings, Cancel(leased)  PROVE Typed'
    BY <1>28, UpdateType
    DEF Cancel, LocalsOK, LedgerOK, LogOK, LeaseReadings, RowOK, TaskRow, TaskStates, StopStates, TerminalStates
  <1>29. ASSUME Resume  PROVE Typed'
    BY <1>29, UpdateType
    DEF Resume, Reopened, LocalsOK, LedgerOK, LogOK, RowOK, TaskRow, TaskStates, StopStates, TerminalStates
  <1>30. ASSUME Retry  PROVE Typed'
    BY <1>30, UpdateType
    DEF Retry, Reopened, LocalsOK, LedgerOK, LogOK, RowOK, TaskRow, TaskStates, StopStates, TerminalStates
  <1>31. ASSUME RetryVerification  PROVE Typed'
    BY <1>31, UpdateType
    DEF RetryVerification, LocalsOK, LedgerOK, LogOK, RowOK, TaskRow, TaskStates, StopStates, TerminalStates
  <1>32. ASSUME NEW approved \in BOOLEAN, Approve(approved)  PROVE Typed'
    <2>1. task.approval \in [step : Step, status : {"requested", "granted", "rejected"}]
      BY <1>32 DEF Approve, Approval, NoApproval, RowOK, TaskRow
    <2>2. QED
      BY <1>32, <2>1, UpdateType DEF Approve, Approval, LocalsOK, LedgerOK, LogOK, RowOK, TaskRow,
         TaskStates, StopStates, TerminalStates
  <1>33. ASSUME NEW draft \in Drafts, NEW ids \in ReplanIds(task, Len(draft)), Replan(draft, ids)
         PROVE Typed'
    <2> DEFINE suffix == Steps(draft, ids)
    <2>1. suffix \in Seq(Step)  BY <1>33, DraftLen, ReplanIdsType, StepsType
    <2>2. Revised(task, suffix) \in Seq(Step)  BY <2>1, RevisedType DEF RowOK
    <2>3. Replanned(task, Revised(task, suffix)) \in TaskRow
      <3> HIDE DEF suffix
      <3>1. ASSUME NEW plan \in Seq(Step)  PROVE Replanned(task, plan) \in TaskRow
        <4>1. task.planVersion + 1 \in Nat \ {0}  BY DEF RowOK, TaskRow
        <4>2. "paused" \in TaskStates /\ NoApproval \in Approval
          BY DEF TaskStates, StopStates, Approval
        <4>3. QED  BY <4>1, <4>2 DEF Replanned, RowOK, TaskRow
      <3>2. QED  BY <2>2, <3>1
    <2>4. QED  BY <1>33, <2>3, UpdateType DEF Replan, LocalsOK, LedgerOK, LogOK
  <1>34. ASSUME LeaseExpires  PROVE Typed'
    BY <1>34 DEF LeaseExpires, LocalsOK, LedgerOK, LogOK, RowOK, TaskRow
  <1>35. CASE UNCHANGED vars
    BY <1>35 DEF vars, RowOK, LedgerOK, LogOK, LocalsOK
  <1>36. QED
    BY <1>1, <1>2, <1>3, <1>4, <1>5, <1>6, <1>7, <1>8, <1>9, <1>10, <1>11, <1>12, <1>13, <1>14, <1>15, <1>16, <1>17,
       <1>18, <1>19, <1>20, <1>21, <1>22, <1>23, <1>24, <1>25, <1>26, <1>27, <1>28, <1>29, <1>30, <1>31, <1>32, <1>33, <1>34, <1>35
    DEF Next, RunStep, ToolStep, Control

(* What a worker knows of the row: a copy of the current version is exact, and the  *)
(* copy of the worker that holds the lease has the plan and the step of the *)
(* row whatever was requested since, because only that worker advances the  *)
(* step and a replan takes the lease away.                                  *)
HasCopy == Working \cup {"decide", "final", "succeed"}

FreshCopy == \A w \in fresh : pc[w] \in HasCopy => snap[w] = Copy(task)

OwnerPlan ==
  \A w \in Workers :
    task.owner = w /\ pc[w] \in HasCopy =>
      /\ snap[w].plan = task.plan
      /\ snap[w].step = task.step
      /\ snap[w].strict = task.strict

LEMMA CopyFields ==
  ASSUME NEW row \in TaskRow
  PROVE  /\ Copy(row).plan = row.plan
         /\ Copy(row).step = row.step
         /\ Copy(row).strict = row.strict
         /\ Copy(row).state = row.state
         /\ Copy(row).approval = row.approval
         /\ Copy(row).pause = row.pause
         /\ Copy(row).cancel = row.cancel
  BY DEF Copy, TaskRow

LEMMA CopyForgetsLease ==
  ASSUME NEW row \in TaskRow, NEW live
  PROVE  Copy([row EXCEPT !.live = live]) = Copy(row)
  BY DEF Copy, TaskRow

LEMMA OwnerPlanCas ==
  ASSUME RowOK, LocalsOK, OwnerPlan, NEW w \in Workers, NEW row, CasAndExit(w, row),
         row.owner = task.owner, row.plan = task.plan,
         row.step = task.step, row.strict = task.strict
  PROVE  OwnerPlan'
  BY DEF OwnerPlan, HasCopy, Working, LocalsOK, CasAndExit, Update, KeepRow, Exit, DropLocals, Goto

LEMMA FreshCopyStep ==
  ASSUME Typed, FreshCopy, [Next]_vars
  PROVE  FreshCopy'
  <1> USE DEF FreshCopy, HasCopy, Working, Typed, RowOK, LocalsOK, TaskRow, Copy, Goto, Update
  <1>1. ASSUME NEW w \in Workers, Acquire(w)  PROVE FreshCopy'
    BY <1>1 DEF Acquire
  <1>2. ASSUME NEW w \in Workers, Loop(w)  PROVE FreshCopy'
    <2>1. CASE task.owner = w
      BY <1>2, <2>1 DEF Loop, ReadVersion
    <2>2. CASE task.owner # w
      BY <1>2, <2>2 DEF Loop, KeepRow, Exit, DropLocals
    <2>3. QED  BY <2>1, <2>2
  <1>3. ASSUME NEW w \in Workers, SafeControl(w)  PROVE FreshCopy'
    BY <1>3 DEF SafeControl, CasAndExit, KeepRow, Exit, DropLocals
  <1>4. ASSUME NEW w \in Workers, Refuse(w)  PROVE FreshCopy'
    BY <1>4 DEF Refuse
  <1>5. ASSUME NEW w \in Workers, PlanCompleted(w)  PROVE FreshCopy'
    BY <1>5 DEF PlanCompleted
  <1>6. ASSUME NEW w \in Workers, Gate(w)  PROVE FreshCopy'
    BY <1>6 DEF Gate, CasAndExit, KeepRow, KeepLocals, Exit, DropLocals
  <1>7. ASSUME NEW w \in Workers, Reserve(w)  PROVE FreshCopy'
    BY <1>7 DEF Reserve, ReserveOutcome, AfterResult
  <1>8. ASSUME NEW w \in Workers, Rearm(w)  PROVE FreshCopy'
    BY <1>8 DEF Rearm
  <1>9. ASSUME NEW w \in Workers, Condemn(w)  PROVE FreshCopy'
    BY <1>9 DEF Condemn
  <1>10. ASSUME NEW w \in Workers, StartAttempt(w)  PROVE FreshCopy'
    BY <1>10 DEF StartAttempt
  <1>11. ASSUME NEW w \in Workers, RetryAttempt(w)  PROVE FreshCopy'
    BY <1>11 DEF RetryAttempt
  <1>12. ASSUME NEW w \in Workers, CallSucceeds(w)  PROVE FreshCopy'
    BY <1>12 DEF CallSucceeds, AfterResult
  <1>13. ASSUME NEW w \in Workers, CallFails(w)  PROVE FreshCopy'
    BY <1>13 DEF CallFails
  <1>14. ASSUME NEW w \in Workers, ResultTooLarge(w)  PROVE FreshCopy'
    BY <1>14 DEF ResultTooLarge
  <1>15. ASSUME NEW w \in Workers, ToolRaises(w)  PROVE FreshCopy'
    BY <1>15 DEF ToolRaises
  <1>16. ASSUME NEW w \in Workers, VerifyStep(w)  PROVE FreshCopy'
    BY <1>16 DEF VerifyStep, VerifyPasses, VerifyRefuses, CasAndExit, KeepRow, KeepLocals, Exit, DropLocals
  <1>17. ASSUME NEW w \in Workers, VerifyFinal(w)  PROVE FreshCopy'
    BY <1>17 DEF VerifyFinal, VerifyPasses, VerifyRefuses, CasAndExit, KeepRow, KeepLocals, Exit, DropLocals
  <1>18. ASSUME NEW w \in Workers, Succeed(w)  PROVE FreshCopy'
    BY <1>18 DEF Succeed, CasAndExit, KeepRow, Exit, DropLocals
  <1>19. ASSUME NEW w \in Workers, Checkpoint(w)  PROVE FreshCopy'
    BY <1>19 DEF Checkpoint, MayCheckpoint, Advanced, KeepRow, Exit, DropLocals
  <1>20. ASSUME NEW w \in Workers, Reread(w)  PROVE FreshCopy'
    BY <1>20 DEF Reread, ReadVersion, DropLocals
  <1>21. ASSUME NEW w \in Workers, Fail(w)  PROVE FreshCopy'
    BY <1>21 DEF Fail, CasAndExit, KeepRow, Exit, DropLocals
  <1>22. ASSUME NEW w \in Workers, RequireReconciliation(w)  PROVE FreshCopy'
    BY <1>22 DEF RequireReconciliation, CasAndExit, KeepRow, Exit, DropLocals
  <1>23. ASSUME NEW w \in Workers, Release(w)  PROVE FreshCopy'
    BY <1>23 DEF Release, Forget, DropLocals
  <1>24. ASSUME NEW w \in Workers, Heartbeat(w)  PROVE FreshCopy'
    BY <1>24, CopyForgetsLease DEF Heartbeat
  <1>25. ASSUME NEW w \in Workers, Crash(w)  PROVE FreshCopy'
    BY <1>25 DEF Crash, Forget, DropLocals
  <1>26. ASSUME NEW w \in Workers, Interrupt(w)  PROVE FreshCopy'
    BY <1>26 DEF Interrupt, Exit, DropLocals
  <1>27. ASSUME NEW leased \in LeaseReadings, Pause(leased)  PROVE FreshCopy'
    BY <1>27 DEF Pause
  <1>28. ASSUME NEW leased \in LeaseReadings, Cancel(leased)  PROVE FreshCopy'
    BY <1>28 DEF Cancel
  <1>29. ASSUME Resume  PROVE FreshCopy'
    BY <1>29 DEF Resume, Reopened
  <1>30. ASSUME Retry  PROVE FreshCopy'
    BY <1>30 DEF Retry, Reopened
  <1>31. ASSUME RetryVerification  PROVE FreshCopy'
    BY <1>31 DEF RetryVerification
  <1>32. ASSUME NEW approved \in BOOLEAN, Approve(approved)  PROVE FreshCopy'
    BY <1>32 DEF Approve
  <1>33. ASSUME NEW draft \in Drafts, NEW ids \in ReplanIds(task, Len(draft)), Replan(draft, ids)
         PROVE FreshCopy'
    BY <1>33 DEF Replan
  <1>34. ASSUME LeaseExpires  PROVE FreshCopy'
    BY <1>34 DEF LeaseExpires
  <1>35. CASE UNCHANGED vars
    BY <1>35 DEF vars
  <1>36. QED
    BY <1>1, <1>2, <1>3, <1>4, <1>5, <1>6, <1>7, <1>8, <1>9, <1>10, <1>11, <1>12, <1>13, <1>14, <1>15, <1>16, <1>17,
       <1>18, <1>19, <1>20, <1>21, <1>22, <1>23, <1>24, <1>25, <1>26, <1>27, <1>28, <1>29, <1>30, <1>31, <1>32, <1>33, <1>34, <1>35
    DEF Next, RunStep, ToolStep, Control

LEMMA OwnerPlanStep ==
  ASSUME Typed, OwnerPlan, [Next]_vars
  PROVE  OwnerPlan'
  <1> USE NoneAssumption DEF OwnerPlan, HasCopy, Working, Typed, RowOK, LocalsOK, TaskRow, Copy, Goto, Update
  <1>1. ASSUME NEW w \in Workers, Acquire(w)  PROVE OwnerPlan'
    BY <1>1 DEF Acquire
  <1>2. ASSUME NEW w \in Workers, Loop(w)  PROVE OwnerPlan'
    <2>1. CASE task.owner = w
      <3>1. /\ Copy(task).plan = task.plan
            /\ Copy(task).step = task.step
            /\ Copy(task).strict = task.strict
        BY CopyFields
      <3>2. QED  BY <1>2, <2>1, <3>1 DEF Loop, ReadVersion
    <2>2. CASE task.owner # w
      BY <1>2, <2>2 DEF Loop, KeepRow, Exit, DropLocals
    <2>3. QED  BY <2>1, <2>2
  <1>3. ASSUME NEW w \in Workers, SafeControl(w)  PROVE OwnerPlan'
    BY <1>3, OwnerPlanCas DEF SafeControl
  <1>4. ASSUME NEW w \in Workers, Refuse(w)  PROVE OwnerPlan'
    BY <1>4 DEF Refuse
  <1>5. ASSUME NEW w \in Workers, PlanCompleted(w)  PROVE OwnerPlan'
    BY <1>5 DEF PlanCompleted
  <1>6. ASSUME NEW w \in Workers, Gate(w)  PROVE OwnerPlan'
    <2>1. CASE ApprovalMissing(snap[w])
      BY <1>6, <2>1, OwnerPlanCas DEF Gate
    <2>2. CASE ~ApprovalMissing(snap[w])
      BY <1>6, <2>2 DEF Gate, KeepRow, KeepLocals
    <2>3. QED  BY <2>1, <2>2
  <1>7. ASSUME NEW w \in Workers, Reserve(w)  PROVE OwnerPlan'
    BY <1>7 DEF Reserve, ReserveOutcome, AfterResult
  <1>8. ASSUME NEW w \in Workers, Rearm(w)  PROVE OwnerPlan'
    BY <1>8 DEF Rearm
  <1>9. ASSUME NEW w \in Workers, Condemn(w)  PROVE OwnerPlan'
    BY <1>9 DEF Condemn
  <1>10. ASSUME NEW w \in Workers, StartAttempt(w)  PROVE OwnerPlan'
    BY <1>10 DEF StartAttempt
  <1>11. ASSUME NEW w \in Workers, RetryAttempt(w)  PROVE OwnerPlan'
    BY <1>11 DEF RetryAttempt
  <1>12. ASSUME NEW w \in Workers, CallSucceeds(w)  PROVE OwnerPlan'
    BY <1>12 DEF CallSucceeds, AfterResult
  <1>13. ASSUME NEW w \in Workers, CallFails(w)  PROVE OwnerPlan'
    BY <1>13 DEF CallFails
  <1>14. ASSUME NEW w \in Workers, ResultTooLarge(w)  PROVE OwnerPlan'
    BY <1>14 DEF ResultTooLarge
  <1>15. ASSUME NEW w \in Workers, ToolRaises(w)  PROVE OwnerPlan'
    BY <1>15 DEF ToolRaises
  <1>16. ASSUME NEW w \in Workers, VerifyStep(w)  PROVE OwnerPlan'
    <2>1. CASE VerifyPasses(w, StepOf(w).id, StepOf(w).crits, "checkpoint")
      BY <1>16, <2>1 DEF VerifyStep, VerifyPasses, KeepRow, KeepLocals
    <2>2. CASE VerifyRefuses(w, StepOf(w).id, StepOf(w).crits)
      BY <2>2, OwnerPlanCas DEF VerifyRefuses
    <2>3. QED  BY <1>16, <2>1, <2>2 DEF VerifyStep
  <1>17. ASSUME NEW w \in Workers, VerifyFinal(w)  PROVE OwnerPlan'
    <2>1. CASE VerifyPasses(w, FINAL_STEP_ID, FinalCriteria, "succeed")
      BY <1>17, <2>1 DEF VerifyFinal, VerifyPasses, KeepRow, KeepLocals
    <2>2. CASE VerifyRefuses(w, FINAL_STEP_ID, FinalCriteria)
      BY <2>2, OwnerPlanCas DEF VerifyRefuses
    <2>3. QED  BY <1>17, <2>1, <2>2 DEF VerifyFinal
  <1>18. ASSUME NEW w \in Workers, Succeed(w)  PROVE OwnerPlan'
    BY <1>18 DEF Succeed, CasAndExit, KeepRow, Exit, DropLocals
  <1>19. ASSUME NEW w \in Workers, Checkpoint(w)  PROVE OwnerPlan'
    <2>1. CASE MayCheckpoint(w)
      BY <1>19, <2>1 DEF Checkpoint, MayCheckpoint, Advanced, DropLocals
    <2>2. CASE ~MayCheckpoint(w)
      BY <1>19, <2>2 DEF Checkpoint, KeepRow, Exit, DropLocals
    <2>3. QED  BY <2>1, <2>2
  <1>20. ASSUME NEW w \in Workers, Reread(w)  PROVE OwnerPlan'
    BY <1>20 DEF Reread, ReadVersion, DropLocals
  <1>21. ASSUME NEW w \in Workers, Fail(w)  PROVE OwnerPlan'
    BY <1>21 DEF Fail, CasAndExit, KeepRow, Exit, DropLocals
  <1>22. ASSUME NEW w \in Workers, RequireReconciliation(w)  PROVE OwnerPlan'
    BY <1>22 DEF RequireReconciliation, CasAndExit, KeepRow, Exit, DropLocals
  <1>23. ASSUME NEW w \in Workers, Release(w)  PROVE OwnerPlan'
    BY <1>23 DEF Release, Forget, DropLocals
  <1>24. ASSUME NEW w \in Workers, Heartbeat(w)  PROVE OwnerPlan'
    BY <1>24 DEF Heartbeat
  <1>25. ASSUME NEW w \in Workers, Crash(w)  PROVE OwnerPlan'
    BY <1>25 DEF Crash, Forget, DropLocals
  <1>26. ASSUME NEW w \in Workers, Interrupt(w)  PROVE OwnerPlan'
    BY <1>26 DEF Interrupt, Exit, DropLocals
  <1>27. ASSUME NEW leased \in LeaseReadings, Pause(leased)  PROVE OwnerPlan'
    BY <1>27 DEF Pause
  <1>28. ASSUME NEW leased \in LeaseReadings, Cancel(leased)  PROVE OwnerPlan'
    BY <1>28 DEF Cancel
  <1>29. ASSUME Resume  PROVE OwnerPlan'
    BY <1>29 DEF Resume, Reopened
  <1>30. ASSUME Retry  PROVE OwnerPlan'
    BY <1>30 DEF Retry, Reopened
  <1>31. ASSUME RetryVerification  PROVE OwnerPlan'
    BY <1>31 DEF RetryVerification
  <1>32. ASSUME NEW approved \in BOOLEAN, Approve(approved)  PROVE OwnerPlan'
    BY <1>32 DEF Approve
  <1>33. ASSUME NEW draft \in Drafts, NEW ids \in ReplanIds(task, Len(draft)), Replan(draft, ids)
         PROVE OwnerPlan'
    BY <1>33 DEF Replan, Replanned
  <1>34. ASSUME LeaseExpires  PROVE OwnerPlan'
    BY <1>34 DEF LeaseExpires
  <1>35. CASE UNCHANGED vars
    BY <1>35 DEF vars
  <1>36. QED
    BY <1>1, <1>2, <1>3, <1>4, <1>5, <1>6, <1>7, <1>8, <1>9, <1>10, <1>11, <1>12, <1>13, <1>14, <1>15, <1>16, <1>17,
       <1>18, <1>19, <1>20, <1>21, <1>22, <1>23, <1>24, <1>25, <1>26, <1>27, <1>28, <1>29, <1>30, <1>31, <1>32, <1>33, <1>34, <1>35
    DEF Next, RunStep, ToolStep, Control

(* Frames: what no step, or only one kind of step, changes. *)

PlanKept ==
  task'.plan = task.plan /\ task'.step = task.step /\ task'.strict = task.strict

Advances == \E w \in Workers : Checkpoint(w) /\ MayCheckpoint(w)

Revises == \E draft \in Drafts : \E ids \in ReplanIds(task, Len(draft)) : Replan(draft, ids)

(* Only a checkpoint moves the step and only a replan rewrites the plan. *)
LEMMA PlanFrame ==
  ASSUME Typed, [Next]_vars
  PROVE  PlanKept \/ Advances \/ Revises
  <1> USE DEF PlanKept, Typed, RowOK, TaskRow, Update
  <1>1. ASSUME NEW w \in Workers, Acquire(w)  PROVE PlanKept \/ Advances \/ Revises
    BY <1>1 DEF Acquire
  <1>2. ASSUME NEW w \in Workers, Loop(w)  PROVE PlanKept \/ Advances \/ Revises
    BY <1>2 DEF Loop, ReadVersion, KeepRow
  <1>3. ASSUME NEW w \in Workers, SafeControl(w)  PROVE PlanKept \/ Advances \/ Revises
    BY <1>3 DEF SafeControl, CasAndExit, KeepRow
  <1>4. ASSUME NEW w \in Workers, Refuse(w)  PROVE PlanKept \/ Advances \/ Revises
    BY <1>4 DEF Refuse
  <1>5. ASSUME NEW w \in Workers, PlanCompleted(w)  PROVE PlanKept \/ Advances \/ Revises
    BY <1>5 DEF PlanCompleted
  <1>6. ASSUME NEW w \in Workers, Gate(w)  PROVE PlanKept \/ Advances \/ Revises
    BY <1>6 DEF Gate, CasAndExit, KeepRow
  <1>7. ASSUME NEW w \in Workers, Reserve(w)  PROVE PlanKept \/ Advances \/ Revises
    BY <1>7 DEF Reserve
  <1>8. ASSUME NEW w \in Workers, Rearm(w)  PROVE PlanKept \/ Advances \/ Revises
    BY <1>8 DEF Rearm
  <1>9. ASSUME NEW w \in Workers, Condemn(w)  PROVE PlanKept \/ Advances \/ Revises
    BY <1>9 DEF Condemn
  <1>10. ASSUME NEW w \in Workers, StartAttempt(w)  PROVE PlanKept \/ Advances \/ Revises
    BY <1>10 DEF StartAttempt
  <1>11. ASSUME NEW w \in Workers, RetryAttempt(w)  PROVE PlanKept \/ Advances \/ Revises
    BY <1>11 DEF RetryAttempt
  <1>12. ASSUME NEW w \in Workers, CallSucceeds(w)  PROVE PlanKept \/ Advances \/ Revises
    BY <1>12 DEF CallSucceeds
  <1>13. ASSUME NEW w \in Workers, CallFails(w)  PROVE PlanKept \/ Advances \/ Revises
    BY <1>13 DEF CallFails
  <1>14. ASSUME NEW w \in Workers, ResultTooLarge(w)  PROVE PlanKept \/ Advances \/ Revises
    BY <1>14 DEF ResultTooLarge
  <1>15. ASSUME NEW w \in Workers, ToolRaises(w)  PROVE PlanKept \/ Advances \/ Revises
    BY <1>15 DEF ToolRaises
  <1>16. ASSUME NEW w \in Workers, VerifyStep(w)  PROVE PlanKept \/ Advances \/ Revises
    BY <1>16 DEF VerifyStep, VerifyPasses, VerifyRefuses, CasAndExit, KeepRow
  <1>17. ASSUME NEW w \in Workers, VerifyFinal(w)  PROVE PlanKept \/ Advances \/ Revises
    BY <1>17 DEF VerifyFinal, VerifyPasses, VerifyRefuses, CasAndExit, KeepRow
  <1>18. ASSUME NEW w \in Workers, Succeed(w)  PROVE PlanKept \/ Advances \/ Revises
    BY <1>18 DEF Succeed, CasAndExit, KeepRow
  <1>19. ASSUME NEW w \in Workers, Checkpoint(w)  PROVE PlanKept \/ Advances \/ Revises
    <2>1. CASE MayCheckpoint(w)
      BY <1>19, <2>1 DEF Advances
    <2>2. CASE ~MayCheckpoint(w)
      BY <1>19, <2>2 DEF Checkpoint, KeepRow
    <2>3. QED  BY <2>1, <2>2
  <1>20. ASSUME NEW w \in Workers, Reread(w)  PROVE PlanKept \/ Advances \/ Revises
    BY <1>20 DEF Reread, ReadVersion
  <1>21. ASSUME NEW w \in Workers, Fail(w)  PROVE PlanKept \/ Advances \/ Revises
    BY <1>21 DEF Fail, CasAndExit, KeepRow
  <1>22. ASSUME NEW w \in Workers, RequireReconciliation(w)  PROVE PlanKept \/ Advances \/ Revises
    BY <1>22 DEF RequireReconciliation, CasAndExit, KeepRow
  <1>23. ASSUME NEW w \in Workers, Release(w)  PROVE PlanKept \/ Advances \/ Revises
    BY <1>23 DEF Release, Forget
  <1>24. ASSUME NEW w \in Workers, Heartbeat(w)  PROVE PlanKept \/ Advances \/ Revises
    BY <1>24 DEF Heartbeat
  <1>25. ASSUME NEW w \in Workers, Crash(w)  PROVE PlanKept \/ Advances \/ Revises
    BY <1>25 DEF Crash, Forget
  <1>26. ASSUME NEW w \in Workers, Interrupt(w)  PROVE PlanKept \/ Advances \/ Revises
    BY <1>26 DEF Interrupt, Exit, DropLocals
  <1>27. ASSUME NEW leased \in LeaseReadings, Pause(leased)
         PROVE PlanKept \/ Advances \/ Revises
    BY <1>27 DEF Pause
  <1>28. ASSUME NEW leased \in LeaseReadings, Cancel(leased)
         PROVE PlanKept \/ Advances \/ Revises
    BY <1>28 DEF Cancel
  <1>29. ASSUME Resume  PROVE PlanKept \/ Advances \/ Revises
    BY <1>29 DEF Resume, Reopened
  <1>30. ASSUME Retry  PROVE PlanKept \/ Advances \/ Revises
    BY <1>30 DEF Retry, Reopened
  <1>31. ASSUME RetryVerification  PROVE PlanKept \/ Advances \/ Revises
    BY <1>31 DEF RetryVerification
  <1>32. ASSUME NEW approved \in BOOLEAN, Approve(approved)
         PROVE PlanKept \/ Advances \/ Revises
    BY <1>32 DEF Approve
  <1>33. ASSUME NEW draft \in Drafts, NEW ids \in ReplanIds(task, Len(draft)), Replan(draft, ids)
         PROVE PlanKept \/ Advances \/ Revises
    BY <1>33 DEF Revises
  <1>34. ASSUME LeaseExpires  PROVE PlanKept \/ Advances \/ Revises
    BY <1>34 DEF LeaseExpires
  <1>35. CASE UNCHANGED vars
    BY <1>35 DEF vars
  <1>36. QED
    BY <1>1, <1>2, <1>3, <1>4, <1>5, <1>6, <1>7, <1>8, <1>9, <1>10, <1>11, <1>12, <1>13, <1>14, <1>15, <1>16, <1>17,
       <1>18, <1>19, <1>20, <1>21, <1>22, <1>23, <1>24, <1>25, <1>26, <1>27, <1>28, <1>29, <1>30, <1>31, <1>32, <1>33, <1>34, <1>35
    DEF Next, RunStep, ToolStep, Control

(* A worker past the head of its loop keeps the copy it decided by. *)
LEMMA CopyKept ==
  ASSUME Typed, [Next]_vars, NEW v \in Workers, pc'[v] \in HasCopy \ {"decide"}
  PROVE  pc[v] \in HasCopy /\ snap'[v] = snap[v]
  <1> DEFINE Kept == pc[v] \in HasCopy /\ snap'[v] = snap[v]
  <1> USE DEF HasCopy, Working, Typed, LocalsOK, Goto
  <1>1. ASSUME NEW w \in Workers, Acquire(w)  PROVE Kept
    BY <1>1 DEF Acquire
  <1>2. ASSUME NEW w \in Workers, Loop(w)  PROVE Kept
    BY <1>2 DEF Loop, Exit, DropLocals
  <1>3. ASSUME NEW w \in Workers, SafeControl(w)  PROVE Kept
    BY <1>3 DEF SafeControl, CasAndExit, Exit, DropLocals
  <1>4. ASSUME NEW w \in Workers, Refuse(w)  PROVE Kept
    BY <1>4 DEF Refuse
  <1>5. ASSUME NEW w \in Workers, PlanCompleted(w)  PROVE Kept
    BY <1>5 DEF PlanCompleted
  <1>6. ASSUME NEW w \in Workers, Gate(w)  PROVE Kept
    BY <1>6 DEF Gate, CasAndExit, KeepLocals, Exit, DropLocals
  <1>7. ASSUME NEW w \in Workers, Reserve(w)  PROVE Kept
    BY <1>7 DEF Reserve, ReserveOutcome, AfterResult
  <1>8. ASSUME NEW w \in Workers, Rearm(w)  PROVE Kept
    BY <1>8 DEF Rearm
  <1>9. ASSUME NEW w \in Workers, Condemn(w)  PROVE Kept
    BY <1>9 DEF Condemn
  <1>10. ASSUME NEW w \in Workers, StartAttempt(w)  PROVE Kept
    BY <1>10 DEF StartAttempt
  <1>11. ASSUME NEW w \in Workers, RetryAttempt(w)  PROVE Kept
    BY <1>11 DEF RetryAttempt
  <1>12. ASSUME NEW w \in Workers, CallSucceeds(w)  PROVE Kept
    BY <1>12 DEF CallSucceeds, AfterResult
  <1>13. ASSUME NEW w \in Workers, CallFails(w)  PROVE Kept
    BY <1>13 DEF CallFails
  <1>14. ASSUME NEW w \in Workers, ResultTooLarge(w)  PROVE Kept
    BY <1>14 DEF ResultTooLarge
  <1>15. ASSUME NEW w \in Workers, ToolRaises(w)  PROVE Kept
    BY <1>15 DEF ToolRaises
  <1>16. ASSUME NEW w \in Workers, VerifyStep(w)  PROVE Kept
    BY <1>16 DEF VerifyStep, VerifyPasses, VerifyRefuses, CasAndExit, KeepLocals, Exit, DropLocals
  <1>17. ASSUME NEW w \in Workers, VerifyFinal(w)  PROVE Kept
    BY <1>17 DEF VerifyFinal, VerifyPasses, VerifyRefuses, CasAndExit, KeepLocals, Exit, DropLocals
  <1>18. ASSUME NEW w \in Workers, Succeed(w)  PROVE Kept
    BY <1>18 DEF Succeed, CasAndExit, Exit, DropLocals
  <1>19. ASSUME NEW w \in Workers, Checkpoint(w)  PROVE Kept
    BY <1>19 DEF Checkpoint, Exit, DropLocals
  <1>20. ASSUME NEW w \in Workers, Reread(w)  PROVE Kept
    BY <1>20 DEF Reread, DropLocals
  <1>21. ASSUME NEW w \in Workers, Fail(w)  PROVE Kept
    BY <1>21 DEF Fail, CasAndExit, Exit, DropLocals
  <1>22. ASSUME NEW w \in Workers, RequireReconciliation(w)  PROVE Kept
    BY <1>22 DEF RequireReconciliation, CasAndExit, Exit, DropLocals
  <1>23. ASSUME NEW w \in Workers, Release(w)  PROVE Kept
    BY <1>23 DEF Release, Forget, DropLocals
  <1>24. ASSUME NEW w \in Workers, Heartbeat(w)  PROVE Kept
    BY <1>24 DEF Heartbeat
  <1>25. ASSUME NEW w \in Workers, Crash(w)  PROVE Kept
    BY <1>25 DEF Crash, Forget, DropLocals
  <1>26. ASSUME NEW w \in Workers, Interrupt(w)  PROVE Kept
    BY <1>26 DEF Interrupt, Exit, DropLocals
  <1>27. ASSUME NEW leased \in LeaseReadings, Pause(leased)  PROVE Kept
    BY <1>27 DEF Pause
  <1>28. ASSUME NEW leased \in LeaseReadings, Cancel(leased)  PROVE Kept
    BY <1>28 DEF Cancel
  <1>29. ASSUME Resume  PROVE Kept
    BY <1>29 DEF Resume
  <1>30. ASSUME Retry  PROVE Kept
    BY <1>30 DEF Retry
  <1>31. ASSUME RetryVerification  PROVE Kept
    BY <1>31 DEF RetryVerification
  <1>32. ASSUME NEW approved \in BOOLEAN, Approve(approved)  PROVE Kept
    BY <1>32 DEF Approve
  <1>33. ASSUME NEW draft \in Drafts, NEW ids \in ReplanIds(task, Len(draft)), Replan(draft, ids)
         PROVE Kept
    BY <1>33 DEF Replan
  <1>34. ASSUME LeaseExpires  PROVE Kept
    BY <1>34 DEF LeaseExpires
  <1>35. CASE UNCHANGED vars
    BY <1>35 DEF vars
  <1>36. QED
    BY <1>1, <1>2, <1>3, <1>4, <1>5, <1>6, <1>7, <1>8, <1>9, <1>10, <1>11, <1>12, <1>13, <1>14, <1>15, <1>16, <1>17,
       <1>18, <1>19, <1>20, <1>21, <1>22, <1>23, <1>24, <1>25, <1>26, <1>27, <1>28, <1>29, <1>30, <1>31, <1>32, <1>33, <1>34, <1>35
    DEF Next, RunStep, ToolStep, Control

(* A result that is written stays, and so does the tool of a row: what _finish_tool_run *)
(* and _start_attempt write never undoes what another worker recorded.      *)
LedgerGrows ==
  \A id \in DOMAIN ledger :
    /\ id \in DOMAIN ledger'
    /\ ledger'[id].tool = ledger[id].tool
    /\ ledger[id].result # "none" => ledger'[id].result = ledger[id].result

LEMMA FinishGrows ==
  ASSUME LedgerOK, NEW s, NEW state, NEW result, FinishToolRun(s, state, result)
  PROVE  LedgerGrows
  BY DEF LedgerGrows, LedgerOK, ToolRun, FinishToolRun, FirstResult

LEMMA LedgerFrame ==
  ASSUME Typed, [Next]_vars
  PROVE  LedgerGrows
  <1> USE DEF Typed
  <1>1. CASE UNCHANGED ledger
    BY <1>1 DEF LedgerGrows
  <1>2. ASSUME NEW w \in Workers, Reserve(w)  PROVE LedgerGrows
    BY <1>2 DEF Reserve, LedgerGrows
  <1>3. ASSUME NEW w \in Workers, Rearm(w)  PROVE LedgerGrows
    BY <1>3 DEF Rearm, LedgerGrows, LedgerOK, ToolRun
  <1>4. ASSUME NEW w \in Workers, Condemn(w)  PROVE LedgerGrows
    BY <1>4, FinishGrows DEF Condemn
  <1>5. ASSUME NEW w \in Workers, StartAttempt(w)  PROVE LedgerGrows
    BY <1>5 DEF StartAttempt, LedgerGrows, LedgerOK, ToolRun
  <1>6. ASSUME NEW w \in Workers, CallSucceeds(w)  PROVE LedgerGrows
    BY <1>6, FinishGrows DEF CallSucceeds
  <1>7. ASSUME NEW w \in Workers, CallFails(w)  PROVE LedgerGrows
    BY <1>7, FinishGrows DEF CallFails
  <1>8. ASSUME NEW w \in Workers, ResultTooLarge(w)  PROVE LedgerGrows
    BY <1>8, FinishGrows DEF ResultTooLarge
  <1>9. QED
    BY <1>1, <1>2, <1>3, <1>4, <1>5, <1>6, <1>7, <1>8
    DEF Next, RunStep, ToolStep, Control, vars, Acquire, Loop, SafeControl, Refuse, PlanCompleted,
        Gate, RetryAttempt, ToolRaises, VerifyStep, VerifyFinal, Succeed, Checkpoint, Reread, Fail,
        RequireReconciliation, Release, Heartbeat, Crash, Interrupt, LeaseExpires, Pause, Cancel,
        Resume, Retry, RetryVerification, Approve, Replan

(* Neither a passed verification nor an approval is ever taken back. *)
LEMMA LogFrame ==
  ASSUME [Next]_vars
  PROVE  passed \subseteq passed' /\ granted \subseteq granted'
  <1> DEFINE Grows == passed \subseteq passed' /\ granted \subseteq granted'
  <1>1. CASE UNCHANGED <<passed, granted>>
    BY <1>1
  <1>2. ASSUME NEW w \in Workers, VerifyStep(w)  PROVE Grows
    BY <1>2 DEF VerifyStep, VerifyPasses, VerifyRefuses, Record
  <1>3. ASSUME NEW w \in Workers, VerifyFinal(w)  PROVE Grows
    BY <1>3 DEF VerifyFinal, VerifyPasses, VerifyRefuses, Record
  <1>4. ASSUME NEW approved \in BOOLEAN, Approve(approved)  PROVE Grows
    BY <1>4 DEF Approve
  <1>5. QED
    BY <1>1, <1>2, <1>3, <1>4
    DEF Next, RunStep, ToolStep, Control, vars, Acquire, Loop, SafeControl, Refuse, PlanCompleted,
        Gate, Reserve, Rearm, Condemn, StartAttempt, RetryAttempt, CallSucceeds, CallFails,
        ResultTooLarge, ToolRaises, Succeed, Checkpoint, Reread, Fail,
        RequireReconciliation, Release, Heartbeat, Crash, Interrupt, LeaseExpires, Pause, Cancel,
        Resume, Retry, RetryVerification, Replan

(* Only the actions of a worker change its phase, its copy and its attempts. *)

Rests(v) == pc'[v] = pc[v] /\ snap'[v] = snap[v] /\ att'[v] = att[v]

Moves(v) == Acquire(v) \/ RunStep(v) \/ Crash(v) \/ Interrupt(v)

LEMMA OwnMove ==
  ASSUME Typed, [Next]_vars, NEW v \in Workers
  PROVE  Rests(v) \/ Moves(v)
  <1> SUFFICES ASSUME ~Moves(v)  PROVE Rests(v)
    OBVIOUS
  <1> USE DEF Moves, Rests, RunStep, ToolStep, Typed, LocalsOK, Goto
  <1>1. ASSUME NEW w \in Workers, Acquire(w)  PROVE Rests(v)
    BY <1>1 DEF Acquire
  <1>2. ASSUME NEW w \in Workers, Loop(w)  PROVE Rests(v)
    BY <1>2 DEF Loop, Exit, DropLocals
  <1>3. ASSUME NEW w \in Workers, SafeControl(w)  PROVE Rests(v)
    BY <1>3 DEF SafeControl, CasAndExit, Exit, DropLocals
  <1>4. ASSUME NEW w \in Workers, Refuse(w)  PROVE Rests(v)
    BY <1>4 DEF Refuse
  <1>5. ASSUME NEW w \in Workers, PlanCompleted(w)  PROVE Rests(v)
    BY <1>5 DEF PlanCompleted
  <1>6. ASSUME NEW w \in Workers, Gate(w)  PROVE Rests(v)
    BY <1>6 DEF Gate, CasAndExit, KeepLocals, Exit, DropLocals
  <1>7. ASSUME NEW w \in Workers, Reserve(w)  PROVE Rests(v)
    BY <1>7 DEF Reserve, ReserveOutcome, AfterResult
  <1>8. ASSUME NEW w \in Workers, Rearm(w)  PROVE Rests(v)
    BY <1>8 DEF Rearm
  <1>9. ASSUME NEW w \in Workers, Condemn(w)  PROVE Rests(v)
    BY <1>9 DEF Condemn
  <1>10. ASSUME NEW w \in Workers, StartAttempt(w)  PROVE Rests(v)
    BY <1>10 DEF StartAttempt
  <1>11. ASSUME NEW w \in Workers, RetryAttempt(w)  PROVE Rests(v)
    BY <1>11 DEF RetryAttempt
  <1>12. ASSUME NEW w \in Workers, CallSucceeds(w)  PROVE Rests(v)
    BY <1>12 DEF CallSucceeds, AfterResult
  <1>13. ASSUME NEW w \in Workers, CallFails(w)  PROVE Rests(v)
    BY <1>13 DEF CallFails
  <1>14. ASSUME NEW w \in Workers, ResultTooLarge(w)  PROVE Rests(v)
    BY <1>14 DEF ResultTooLarge
  <1>15. ASSUME NEW w \in Workers, ToolRaises(w)  PROVE Rests(v)
    BY <1>15 DEF ToolRaises
  <1>16. ASSUME NEW w \in Workers, VerifyStep(w)  PROVE Rests(v)
    BY <1>16 DEF VerifyStep, VerifyPasses, VerifyRefuses, CasAndExit, KeepLocals, Exit, DropLocals
  <1>17. ASSUME NEW w \in Workers, VerifyFinal(w)  PROVE Rests(v)
    BY <1>17 DEF VerifyFinal, VerifyPasses, VerifyRefuses, CasAndExit, KeepLocals, Exit, DropLocals
  <1>18. ASSUME NEW w \in Workers, Succeed(w)  PROVE Rests(v)
    BY <1>18 DEF Succeed, CasAndExit, Exit, DropLocals
  <1>19. ASSUME NEW w \in Workers, Checkpoint(w)  PROVE Rests(v)
    BY <1>19 DEF Checkpoint, Exit, DropLocals
  <1>20. ASSUME NEW w \in Workers, Reread(w)  PROVE Rests(v)
    BY <1>20 DEF Reread, DropLocals
  <1>21. ASSUME NEW w \in Workers, Fail(w)  PROVE Rests(v)
    BY <1>21 DEF Fail, CasAndExit, Exit, DropLocals
  <1>22. ASSUME NEW w \in Workers, RequireReconciliation(w)  PROVE Rests(v)
    BY <1>22 DEF RequireReconciliation, CasAndExit, Exit, DropLocals
  <1>23. ASSUME NEW w \in Workers, Release(w)  PROVE Rests(v)
    BY <1>23 DEF Release, Forget, DropLocals
  <1>24. ASSUME NEW w \in Workers, Heartbeat(w)  PROVE Rests(v)
    BY <1>24 DEF Heartbeat
  <1>25. ASSUME NEW w \in Workers, Crash(w)  PROVE Rests(v)
    BY <1>25 DEF Crash, Forget, DropLocals
  <1>26. ASSUME NEW w \in Workers, Interrupt(w)  PROVE Rests(v)
    BY <1>26 DEF Interrupt, Exit, DropLocals
  <1>27. ASSUME NEW leased \in LeaseReadings, Pause(leased)  PROVE Rests(v)
    BY <1>27 DEF Pause
  <1>28. ASSUME NEW leased \in LeaseReadings, Cancel(leased)  PROVE Rests(v)
    BY <1>28 DEF Cancel
  <1>29. ASSUME Resume  PROVE Rests(v)
    BY <1>29 DEF Resume
  <1>30. ASSUME Retry  PROVE Rests(v)
    BY <1>30 DEF Retry
  <1>31. ASSUME RetryVerification  PROVE Rests(v)
    BY <1>31 DEF RetryVerification
  <1>32. ASSUME NEW approved \in BOOLEAN, Approve(approved)  PROVE Rests(v)
    BY <1>32 DEF Approve
  <1>33. ASSUME NEW draft \in Drafts, NEW ids \in ReplanIds(task, Len(draft)), Replan(draft, ids)
         PROVE Rests(v)
    BY <1>33 DEF Replan
  <1>34. ASSUME LeaseExpires  PROVE Rests(v)
    BY <1>34 DEF LeaseExpires
  <1>35. CASE UNCHANGED vars
    BY <1>35 DEF vars
  <1>36. QED
    BY <1>1, <1>2, <1>3, <1>4, <1>5, <1>6, <1>7, <1>8, <1>9, <1>10, <1>11, <1>12, <1>13, <1>14, <1>15, <1>16, <1>17,
       <1>18, <1>19, <1>20, <1>21, <1>22, <1>23, <1>24, <1>25, <1>26, <1>27, <1>28, <1>29, <1>30, <1>31, <1>32, <1>33, <1>34, <1>35
    DEF Next, RunStep, ToolStep, Control

-----------------------------------------------------------------------------
(* The inductive invariant.                                                 *)

(* What the phase of a worker says about its copy. *)
CopyDecided ==
  \A w \in Workers :
    /\ pc[w] \in HasCopy \ {"decide"} => ~Controlled(snap[w])
    /\ pc[w] \in {"final", "succeed"} => PlanDone(snap[w])

LEMMA CopyDecidedStep ==
  ASSUME Typed, CopyDecided, [Next]_vars
  PROVE  CopyDecided'
  <1> SUFFICES ASSUME NEW v \in Workers, pc'[v] \in HasCopy \ {"decide"}
               PROVE  /\ ~Controlled(snap'[v])
                      /\ pc'[v] \in {"final", "succeed"} => PlanDone(snap'[v])
    BY DEF CopyDecided, HasCopy, Controlled, PlanDone
  <1>1. pc[v] \in HasCopy /\ snap'[v] = snap[v]
    BY CopyKept
  <1>2. CASE Rests(v)
    BY <1>1, <1>2 DEF CopyDecided, Rests
  <1>3. CASE PlanCompleted(v)
    BY <1>1, <1>3 DEF PlanCompleted
  <1>4. CASE Gate(v)
    BY <1>1, <1>4 DEF Gate, CasAndExit, Exit, Goto, Typed, LocalsOK
  <1>5. CASE Moves(v) /\ ~PlanCompleted(v) /\ ~Gate(v)
    BY <1>1, <1>5 DEF CopyDecided, Moves, RunStep, ToolStep, Typed, LocalsOK, Goto, HasCopy, Working,
       Acquire, Loop, SafeControl, Refuse, CasAndExit, Exit, Reserve, Rearm, Condemn, StartAttempt,
       RetryAttempt, CallSucceeds, CallFails, ResultTooLarge, ToolRaises, VerifyStep, VerifyPasses,
       VerifyRefuses, VerifyFinal, Succeed, Checkpoint, Reread, Fail, RequireReconciliation, Release,
       Forget, Crash, Interrupt, ReserveOutcome, AfterResult
  <1>6. QED  BY <1>2, <1>3, <1>4, <1>5, OwnMove

(* The verdicts a worker acts on are in the log. *)
CheckpointVerified ==
  \A w \in Workers :
    pc[w] = "checkpoint" /\ snap[w].strict =>
      {StepOf(w).id} \X StepOf(w).crits \subseteq passed

FinalVerified ==
  \A w \in Workers :
    pc[w] = "succeed" /\ snap[w].strict => {FINAL_STEP_ID} \X FinalCriteria \subseteq passed

LEMMA CheckpointVerifiedStep ==
  ASSUME Typed, CheckpointVerified, [Next]_vars
  PROVE  CheckpointVerified'
  <1> SUFFICES ASSUME NEW v \in Workers, pc'[v] = "checkpoint", snap'[v].strict
               PROVE  {StepOf(v)'.id} \X StepOf(v)'.crits \subseteq passed'
    BY DEF CheckpointVerified
  <1>1. pc[v] \in HasCopy /\ snap'[v] = snap[v]
    BY CopyKept DEF HasCopy, Working
  <1>2. StepOf(v)' = StepOf(v)
    BY <1>1 DEF StepOf
  <1>3. CASE pc[v] = "checkpoint"
    BY <1>1, <1>2, <1>3, LogFrame DEF CheckpointVerified
  <1>4. CASE VerifyStep(v)
    BY <1>1, <1>2, <1>4 DEF VerifyStep, VerifyPasses, VerifyRefuses, Record, CasAndExit, Exit, Goto,
       Typed, LocalsOK
  <1>5. CASE Moves(v) /\ ~VerifyStep(v) /\ pc[v] # "checkpoint"
    BY <1>1, <1>5 DEF Moves, RunStep, ToolStep, Typed, LocalsOK, Goto, Acquire, Loop, SafeControl,
       Refuse, PlanCompleted, Gate, CasAndExit, Exit, Reserve, Rearm, Condemn, StartAttempt,
       RetryAttempt, CallSucceeds, CallFails, ResultTooLarge, ToolRaises, VerifyFinal, VerifyPasses,
       VerifyRefuses, Succeed, Checkpoint, Reread, Fail, RequireReconciliation, Release,
       Forget, Crash, Interrupt, ReserveOutcome, AfterResult
  <1>6. QED  BY <1>3, <1>4, <1>5, OwnMove DEF Rests

LEMMA FinalVerifiedStep ==
  ASSUME Typed, FinalVerified, [Next]_vars
  PROVE  FinalVerified'
  <1> SUFFICES ASSUME NEW v \in Workers, pc'[v] = "succeed", snap'[v].strict
               PROVE  {FINAL_STEP_ID} \X FinalCriteria \subseteq passed'
    BY DEF FinalVerified
  <1>1. pc[v] \in HasCopy /\ snap'[v] = snap[v]
    BY CopyKept DEF HasCopy, Working
  <1>2. CASE pc[v] = "succeed"
    BY <1>1, <1>2, LogFrame DEF FinalVerified
  <1>3. CASE VerifyFinal(v)
    BY <1>1, <1>3 DEF VerifyFinal, VerifyPasses, VerifyRefuses, Record, CasAndExit, Exit, Goto,
       Typed, LocalsOK
  <1>4. CASE Moves(v) /\ ~VerifyFinal(v) /\ pc[v] # "succeed"
    BY <1>1, <1>4 DEF Moves, RunStep, ToolStep, Typed, LocalsOK, Goto, Acquire, Loop, SafeControl,
       Refuse, PlanCompleted, Gate, CasAndExit, Exit, Reserve, Rearm, Condemn, StartAttempt,
       RetryAttempt, CallSucceeds, CallFails, ResultTooLarge, ToolRaises, VerifyStep, VerifyPasses,
       VerifyRefuses, Succeed, Checkpoint, Reread, Fail, RequireReconciliation, Release,
       Forget, Crash, Interrupt, ReserveOutcome, AfterResult
  <1>5. QED  BY <1>2, <1>3, <1>4, OwnMove DEF Rests

(* What a checkpoint does to the plan, seen from the row. *)
LEMMA AdvancesEffect ==
  ASSUME Typed, StepInPlan, OwnerPlan, NEW w \in Workers, Checkpoint(w), MayCheckpoint(w)
  PROVE  /\ pc[w] = "checkpoint" /\ snap[w].strict = task.strict
         /\ task.step < Len(task.plan)
         /\ StepOf(w) = task.plan[task.step + 1]
         /\ task' = Advanced(task)
         /\ task'.plan = task.plan /\ task'.step = task.step + 1 /\ task'.strict = task.strict
         /\ task'.state = task.state /\ task'.approval = NoApproval
  <1>1. pc[w] = "checkpoint" /\ task.owner = w /\ task' = Advanced(task)
    BY DEF Checkpoint, MayCheckpoint, Update
  <1>2. snap[w].plan = task.plan /\ snap[w].step = task.step /\ snap[w].strict = task.strict
    BY <1>1 DEF OwnerPlan, HasCopy, Working
  <1>3. QED
    BY <1>1, <1>2 DEF StepInPlan, Working, StepOf, Advanced, Typed, RowOK, TaskRow

(* What a replan does to the plan. *)
LEMMA RevisesEffect ==
  ASSUME Typed, StepBound, Revises
  PROVE  /\ task'.strict = task.strict /\ task.strict
         /\ task'.step = task.step /\ task'.step <= Len(task'.plan)
         /\ \A i \in 1..task.step : task'.plan[i] = task.plan[i]
         /\ ReferencedOnce(task'.plan)
         /\ task'.state = "paused" /\ task.state # "succeeded"
         /\ task'.approval = NoApproval
  <1>1. PICK draft \in Drafts : \E ids \in ReplanIds(task, Len(draft)) : Replan(draft, ids)
    BY DEF Revises
  <1>2. PICK ids \in ReplanIds(task, Len(draft)) : Replan(draft, ids)
    BY <1>1
  <1> DEFINE suffix == Steps(draft, ids)
             plan == Revised(task, suffix)
  <1>3. suffix \in Seq(Step) /\ Len(suffix) \in Nat
    BY DraftLen, ReplanIdsType, StepsType DEF Typed
  <1>4. /\ plan \in Seq(Step) /\ Len(plan) = task.step + Len(suffix)
        /\ \A i \in 1..task.step : plan[i] = task.plan[i]
    BY <1>3, RevisedType DEF Typed, RowOK, StepBound
  <1>5. task' = Replanned(task, plan) /\ ReferencedOnce(plan) /\ Replannable(task)
    BY <1>2 DEF Replan, Update, WellFormed
  <1> HIDE DEF plan, suffix
  <1>6. /\ task'.plan = plan /\ task'.step = task.step /\ task'.strict = task.strict
        /\ task'.state = "paused" /\ task'.approval = NoApproval
    BY <1>5 DEF Replanned, Typed, RowOK, TaskRow
  <1>7. task.strict /\ task.state # "succeeded"
    BY <1>5 DEF Replannable
  <1>8. QED  BY <1>3, <1>4, <1>5, <1>6, <1>7 DEF Typed, RowOK, TaskRow

LEMMA StepBoundStep ==
  ASSUME Typed, StepInPlan, OwnerPlan, StepBound, [Next]_vars
  PROVE  StepBound'
  <1>1. CASE PlanKept  BY <1>1 DEF PlanKept, StepBound
  <1>2. CASE Advances
    BY <1>2, AdvancesEffect DEF Advances, StepBound, Typed, RowOK, TaskRow
  <1>3. CASE Revises  BY <1>3, RevisesEffect DEF StepBound
  <1>4. QED  BY <1>1, <1>2, <1>3, PlanFrame

(* The plan references every required criterion, and the executed prefix of  *)
(* a strict task is verified.                                                *)
PlanReferences == task.strict => ReferencedOnce(task.plan)

PrefixVerified ==
  task.strict =>
    \A i \in 1..task.step : {task.plan[i].id} \X task.plan[i].crits \subseteq passed

LEMMA PlanReferencesStep ==
  ASSUME Typed, StepInPlan, OwnerPlan, StepBound, PlanReferences, [Next]_vars
  PROVE  PlanReferences'
  <1>1. CASE PlanKept  BY <1>1 DEF PlanKept, PlanReferences, ReferencedOnce
  <1>2. CASE Advances  BY <1>2, AdvancesEffect DEF Advances, PlanReferences, ReferencedOnce
  <1>3. CASE Revises  BY <1>3, RevisesEffect DEF PlanReferences, ReferencedOnce
  <1>4. QED  BY <1>1, <1>2, <1>3, PlanFrame

LEMMA PrefixVerifiedStep ==
  ASSUME Typed, StepInPlan, OwnerPlan, StepBound, CheckpointVerified, PrefixVerified, [Next]_vars
  PROVE  PrefixVerified'
  <1> SUFFICES ASSUME task'.strict, NEW i \in 1..task'.step
               PROVE  {task'.plan[i].id} \X task'.plan[i].crits \subseteq passed'
    BY DEF PrefixVerified
  <1>1. CASE PlanKept  BY <1>1, LogFrame DEF PlanKept, PrefixVerified
  <1>2. CASE Advances
    <2>1. PICK w \in Workers : Checkpoint(w) /\ MayCheckpoint(w)  BY <1>2 DEF Advances
    <2>2. i \in 1..task.step \/ i = task.step + 1
      <3>1. task'.step = task.step + 1  BY <2>1, AdvancesEffect
      <3>2. task.step \in Nat  BY DEF Typed, RowOK, TaskRow
      <3>3. QED  BY <3>1, <3>2
    <2>3. CASE i \in 1..task.step
      BY <2>1, <2>3, AdvancesEffect, LogFrame DEF PrefixVerified
    <2>4. CASE i = task.step + 1
      BY <2>1, <2>4, AdvancesEffect, LogFrame DEF CheckpointVerified
    <2>5. QED  BY <2>2, <2>3, <2>4
  <1>3. CASE Revises  BY <1>3, RevisesEffect, LogFrame DEF PrefixVerified
  <1>4. QED  BY <1>1, <1>2, <1>3, PlanFrame

(* Only Succeed puts a task into `succeeded`. *)
Succeeds == \E w \in fresh : Succeed(w)

LEMMA SuccessFrame ==
  ASSUME Typed, [Next]_vars, task'.state = "succeeded"
  PROVE  task.state = "succeeded" \/ Succeeds
  <1> DEFINE Goal == task.state = "succeeded" \/ Succeeds
  <1> USE DEF Succeeds, Typed, RowOK, TaskRow, Update
  <1>1. ASSUME NEW w \in Workers, Acquire(w)  PROVE Goal
    BY <1>1 DEF Acquire
  <1>2. ASSUME NEW w \in Workers, Loop(w)  PROVE Goal
    BY <1>2 DEF Loop, ReadVersion, KeepRow
  <1>3. ASSUME NEW w \in Workers, SafeControl(w)  PROVE Goal
    BY <1>3 DEF SafeControl, CasAndExit, KeepRow
  <1>4. ASSUME NEW w \in Workers, Refuse(w)  PROVE Goal
    BY <1>4 DEF Refuse
  <1>5. ASSUME NEW w \in Workers, PlanCompleted(w)  PROVE Goal
    BY <1>5 DEF PlanCompleted
  <1>6. ASSUME NEW w \in Workers, Gate(w)  PROVE Goal
    BY <1>6 DEF Gate, CasAndExit, KeepRow
  <1>7. ASSUME NEW w \in Workers, Reserve(w)  PROVE Goal
    BY <1>7 DEF Reserve
  <1>8. ASSUME NEW w \in Workers, Rearm(w)  PROVE Goal
    BY <1>8 DEF Rearm
  <1>9. ASSUME NEW w \in Workers, Condemn(w)  PROVE Goal
    BY <1>9 DEF Condemn
  <1>10. ASSUME NEW w \in Workers, StartAttempt(w)  PROVE Goal
    BY <1>10 DEF StartAttempt
  <1>11. ASSUME NEW w \in Workers, RetryAttempt(w)  PROVE Goal
    BY <1>11 DEF RetryAttempt
  <1>12. ASSUME NEW w \in Workers, CallSucceeds(w)  PROVE Goal
    BY <1>12 DEF CallSucceeds
  <1>13. ASSUME NEW w \in Workers, CallFails(w)  PROVE Goal
    BY <1>13 DEF CallFails
  <1>14. ASSUME NEW w \in Workers, ResultTooLarge(w)  PROVE Goal
    BY <1>14 DEF ResultTooLarge
  <1>15. ASSUME NEW w \in Workers, ToolRaises(w)  PROVE Goal
    BY <1>15 DEF ToolRaises
  <1>16. ASSUME NEW w \in Workers, VerifyStep(w)  PROVE Goal
    BY <1>16 DEF VerifyStep, VerifyPasses, VerifyRefuses, CasAndExit, KeepRow
  <1>17. ASSUME NEW w \in Workers, VerifyFinal(w)  PROVE Goal
    BY <1>17 DEF VerifyFinal, VerifyPasses, VerifyRefuses, CasAndExit, KeepRow
  <1>18. ASSUME NEW w \in Workers, Succeed(w)  PROVE Goal
    BY <1>18 DEF Succeed, CasAndExit, KeepRow
  <1>19. ASSUME NEW w \in Workers, Checkpoint(w)  PROVE Goal
    BY <1>19 DEF Checkpoint, Advanced, KeepRow
  <1>20. ASSUME NEW w \in Workers, Reread(w)  PROVE Goal
    BY <1>20 DEF Reread, ReadVersion
  <1>21. ASSUME NEW w \in Workers, Fail(w)  PROVE Goal
    BY <1>21 DEF Fail, CasAndExit, KeepRow
  <1>22. ASSUME NEW w \in Workers, RequireReconciliation(w)  PROVE Goal
    BY <1>22 DEF RequireReconciliation, CasAndExit, KeepRow
  <1>23. ASSUME NEW w \in Workers, Release(w)  PROVE Goal
    BY <1>23 DEF Release, Forget
  <1>24. ASSUME NEW w \in Workers, Heartbeat(w)  PROVE Goal
    BY <1>24 DEF Heartbeat
  <1>25. ASSUME NEW w \in Workers, Crash(w)  PROVE Goal
    BY <1>25 DEF Crash, Forget
  <1>26. ASSUME NEW w \in Workers, Interrupt(w)  PROVE Goal
    BY <1>26 DEF Interrupt, Exit, DropLocals
  <1>27. ASSUME NEW leased \in LeaseReadings, Pause(leased)  PROVE Goal
    BY <1>27 DEF Pause, Pausable
  <1>28. ASSUME NEW leased \in LeaseReadings, Cancel(leased)  PROVE Goal
    BY <1>28 DEF Cancel, Cancellable
  <1>29. ASSUME Resume  PROVE Goal
    BY <1>29 DEF Resume, Reopened
  <1>30. ASSUME Retry  PROVE Goal
    BY <1>30 DEF Retry, Reopened
  <1>31. ASSUME RetryVerification  PROVE Goal
    BY <1>31 DEF RetryVerification
  <1>32. ASSUME NEW approved \in BOOLEAN, Approve(approved)  PROVE Goal
    BY <1>32 DEF Approve
  <1>33. ASSUME NEW draft \in Drafts, NEW ids \in ReplanIds(task, Len(draft)), Replan(draft, ids)
         PROVE Goal
    BY <1>33 DEF Replan, Replanned
  <1>34. ASSUME LeaseExpires  PROVE Goal
    BY <1>34 DEF LeaseExpires
  <1>35. CASE UNCHANGED vars
    BY <1>35 DEF vars
  <1>36. QED
    BY <1>1, <1>2, <1>3, <1>4, <1>5, <1>6, <1>7, <1>8, <1>9, <1>10, <1>11, <1>12, <1>13, <1>14, <1>15, <1>16, <1>17,
       <1>18, <1>19, <1>20, <1>21, <1>22, <1>23, <1>24, <1>25, <1>26, <1>27, <1>28, <1>29, <1>30, <1>31, <1>32, <1>33, <1>34, <1>35
    DEF Next, RunStep, ToolStep, Control

(* A task that succeeded has no step left and its final criteria passed. *)
DoneVerified ==
  task.state = "succeeded" =>
    /\ task.step >= Len(task.plan)
    /\ task.strict => {FINAL_STEP_ID} \X FinalCriteria \subseteq passed

LEMMA DoneVerifiedStep ==
  ASSUME Typed, StepInPlan, FreshCopy, OwnerPlan, StepBound, CopyDecided, FinalVerified,
         DoneVerified, [Next]_vars
  PROVE  DoneVerified'
  <1> SUFFICES ASSUME task'.state = "succeeded"
               PROVE  /\ task'.step >= Len(task'.plan)
                      /\ task'.strict => {FINAL_STEP_ID} \X FinalCriteria \subseteq passed'
    BY DEF DoneVerified
  <1>1. ASSUME NEW w \in fresh, Succeed(w)
        PROVE  /\ task'.step >= Len(task'.plan)
               /\ task'.strict => {FINAL_STEP_ID} \X FinalCriteria \subseteq passed'
    <2>1. w \in Workers /\ pc[w] = "succeed" /\ task' = [task EXCEPT !.state = "succeeded"]
      BY <1>1 DEF Succeed, CasAndExit, Update, Typed, RowOK
    <2>2. snap[w] = Copy(task)
      BY <1>1, <2>1 DEF FreshCopy, HasCopy
    <2>3. snap[w].plan = task.plan /\ snap[w].step = task.step /\ snap[w].strict = task.strict
      BY <2>2, CopyFields DEF Typed, RowOK
    <2>4. task'.plan = task.plan /\ task'.step = task.step /\ task'.strict = task.strict
      BY <2>1 DEF Typed, RowOK, TaskRow
    <2>5. snap[w].step >= Len(snap[w].plan)
      BY <2>1 DEF CopyDecided, PlanDone
    <2>6. QED
      BY <2>1, <2>3, <2>4, <2>5, LogFrame DEF FinalVerified
  <1>2. CASE task.state = "succeeded"
    <2>1. CASE PlanKept  BY <1>2, <2>1, LogFrame DEF PlanKept, DoneVerified
    <2>2. CASE Advances
      <3>1. task.step < Len(task.plan)  BY <2>2, AdvancesEffect DEF Advances
      <3>2. QED  BY <1>2, <3>1 DEF DoneVerified, Typed, RowOK, TaskRow
    <2>3. CASE Revises  BY <1>2, <2>3, RevisesEffect
    <2>4. QED  BY <2>1, <2>2, <2>3, PlanFrame
  <1>3. QED  BY <1>1, <1>2, SuccessFrame DEF Succeeds
-----------------------------------------------------------------------------
(* Approvals.                                                               *)

Asks == \E w \in fresh : Gate(w) /\ ApprovalMissing(snap[w])

Answers == \E approved \in BOOLEAN : Approve(approved)

LEMMA ApprovalFrame ==
  ASSUME Typed, [Next]_vars
  PROVE  task'.approval = task.approval \/ Advances \/ Revises \/ Asks \/ Answers
  <1> DEFINE Goal == task'.approval = task.approval \/ Advances \/ Revises \/ Asks \/ Answers
  <1> USE DEF Typed, RowOK, TaskRow, Update
  <1>1. ASSUME NEW w \in Workers, Acquire(w)  PROVE Goal
    BY <1>1 DEF Acquire
  <1>2. ASSUME NEW w \in Workers, Loop(w)  PROVE Goal
    BY <1>2 DEF Loop, ReadVersion, KeepRow
  <1>3. ASSUME NEW w \in Workers, SafeControl(w)  PROVE Goal
    BY <1>3 DEF SafeControl, CasAndExit, KeepRow
  <1>4. ASSUME NEW w \in Workers, Refuse(w)  PROVE Goal
    BY <1>4 DEF Refuse
  <1>5. ASSUME NEW w \in Workers, PlanCompleted(w)  PROVE Goal
    BY <1>5 DEF PlanCompleted
  <1>6. ASSUME NEW w \in Workers, Gate(w)  PROVE Goal
    BY <1>6 DEF Gate, CasAndExit, KeepRow, Asks
  <1>7. ASSUME NEW w \in Workers, Reserve(w)  PROVE Goal
    BY <1>7 DEF Reserve
  <1>8. ASSUME NEW w \in Workers, Rearm(w)  PROVE Goal
    BY <1>8 DEF Rearm
  <1>9. ASSUME NEW w \in Workers, Condemn(w)  PROVE Goal
    BY <1>9 DEF Condemn
  <1>10. ASSUME NEW w \in Workers, StartAttempt(w)  PROVE Goal
    BY <1>10 DEF StartAttempt
  <1>11. ASSUME NEW w \in Workers, RetryAttempt(w)  PROVE Goal
    BY <1>11 DEF RetryAttempt
  <1>12. ASSUME NEW w \in Workers, CallSucceeds(w)  PROVE Goal
    BY <1>12 DEF CallSucceeds
  <1>13. ASSUME NEW w \in Workers, CallFails(w)  PROVE Goal
    BY <1>13 DEF CallFails
  <1>14. ASSUME NEW w \in Workers, ResultTooLarge(w)  PROVE Goal
    BY <1>14 DEF ResultTooLarge
  <1>15. ASSUME NEW w \in Workers, ToolRaises(w)  PROVE Goal
    BY <1>15 DEF ToolRaises
  <1>16. ASSUME NEW w \in Workers, VerifyStep(w)  PROVE Goal
    BY <1>16 DEF VerifyStep, VerifyPasses, VerifyRefuses, CasAndExit, KeepRow
  <1>17. ASSUME NEW w \in Workers, VerifyFinal(w)  PROVE Goal
    BY <1>17 DEF VerifyFinal, VerifyPasses, VerifyRefuses, CasAndExit, KeepRow
  <1>18. ASSUME NEW w \in Workers, Succeed(w)  PROVE Goal
    BY <1>18 DEF Succeed, CasAndExit, KeepRow
  <1>19. ASSUME NEW w \in Workers, Checkpoint(w)  PROVE Goal
    <2>1. CASE MayCheckpoint(w)
      BY <1>19, <2>1 DEF Advances
    <2>2. CASE ~MayCheckpoint(w)
      BY <1>19, <2>2 DEF Checkpoint, KeepRow
    <2>3. QED  BY <2>1, <2>2
  <1>20. ASSUME NEW w \in Workers, Reread(w)  PROVE Goal
    BY <1>20 DEF Reread, ReadVersion
  <1>21. ASSUME NEW w \in Workers, Fail(w)  PROVE Goal
    BY <1>21 DEF Fail, CasAndExit, KeepRow
  <1>22. ASSUME NEW w \in Workers, RequireReconciliation(w)  PROVE Goal
    BY <1>22 DEF RequireReconciliation, CasAndExit, KeepRow
  <1>23. ASSUME NEW w \in Workers, Release(w)  PROVE Goal
    BY <1>23 DEF Release, Forget
  <1>24. ASSUME NEW w \in Workers, Heartbeat(w)  PROVE Goal
    BY <1>24 DEF Heartbeat
  <1>25. ASSUME NEW w \in Workers, Crash(w)  PROVE Goal
    BY <1>25 DEF Crash, Forget
  <1>26. ASSUME NEW w \in Workers, Interrupt(w)  PROVE Goal
    BY <1>26 DEF Interrupt, Exit, DropLocals
  <1>27. ASSUME NEW leased \in LeaseReadings, Pause(leased)  PROVE Goal
    BY <1>27 DEF Pause
  <1>28. ASSUME NEW leased \in LeaseReadings, Cancel(leased)  PROVE Goal
    BY <1>28 DEF Cancel
  <1>29. ASSUME Resume  PROVE Goal
    BY <1>29 DEF Resume, Reopened
  <1>30. ASSUME Retry  PROVE Goal
    BY <1>30 DEF Retry, Reopened
  <1>31. ASSUME RetryVerification  PROVE Goal
    BY <1>31 DEF RetryVerification
  <1>32. ASSUME NEW approved \in BOOLEAN, Approve(approved)  PROVE Goal
    BY <1>32 DEF Answers
  <1>33. ASSUME NEW draft \in Drafts, NEW ids \in ReplanIds(task, Len(draft)), Replan(draft, ids)
         PROVE Goal
    BY <1>33 DEF Revises
  <1>34. ASSUME LeaseExpires  PROVE Goal
    BY <1>34 DEF LeaseExpires
  <1>35. CASE UNCHANGED vars
    BY <1>35 DEF vars
  <1>36. QED
    BY <1>1, <1>2, <1>3, <1>4, <1>5, <1>6, <1>7, <1>8, <1>9, <1>10, <1>11, <1>12, <1>13, <1>14, <1>15, <1>16, <1>17,
       <1>18, <1>19, <1>20, <1>21, <1>22, <1>23, <1>24, <1>25, <1>26, <1>27, <1>28, <1>29, <1>30, <1>31, <1>32, <1>33, <1>34, <1>35
    DEF Next, RunStep, ToolStep, Control

(* The approval of the row names the step the task stands at, and a granted  *)
(* one has been granted to that step.                                        *)
ApprovalOfCurrentStep ==
  task.approval.status # "none" =>
    /\ task.step < Len(task.plan)
    /\ task.approval.step = task.plan[task.step + 1]
    /\ task.approval.status = "granted" => task.approval.step \in granted

LEMMA ApprovalOfCurrentStepStep ==
  ASSUME Typed, StepInPlan, FreshCopy, OwnerPlan, StepBound, ApprovalOfCurrentStep, [Next]_vars
  PROVE  ApprovalOfCurrentStep'
  <1>1. CASE Advances  BY <1>1, AdvancesEffect DEF Advances, ApprovalOfCurrentStep, NoApproval
  <1>2. CASE Revises  BY <1>2, RevisesEffect DEF ApprovalOfCurrentStep, NoApproval
  <1>3. CASE Asks
    <2>1. PICK w \in fresh : Gate(w) /\ ApprovalMissing(snap[w])  BY <1>3 DEF Asks
    <2>2. /\ w \in Workers /\ pc[w] = "decide" /\ ~PlanDone(snap[w])
          /\ task' = [task EXCEPT !.state = "waiting_approval",
                                  !.approval = [step |-> StepOf(w), status |-> "requested"]]
      BY <2>1 DEF Gate, CasAndExit, Update, Typed, RowOK
    <2>3. snap[w] = Copy(task)  BY <2>1, <2>2 DEF FreshCopy, HasCopy
    <2>4. snap[w].plan = task.plan /\ snap[w].step = task.step
      BY <2>3, CopyFields DEF Typed, RowOK
    <2>5. /\ task'.plan = task.plan /\ task'.step = task.step
          /\ task'.approval = [step |-> StepOf(w), status |-> "requested"]
      BY <2>2 DEF Typed, RowOK, TaskRow
    <2>6. task.step < Len(task.plan)
      BY <2>2, <2>4 DEF PlanDone, Typed, RowOK, TaskRow
    <2>7. QED  BY <2>4, <2>5, <2>6 DEF ApprovalOfCurrentStep, StepOf
  <1>4. CASE Answers
    <2>1. PICK approved \in BOOLEAN : Approve(approved)  BY <1>4 DEF Answers
    <2>2. task.approval.status # "none"  BY <2>1 DEF Approve
    <2>3. task.approval \in [step : Step, status : {"requested", "granted", "rejected"}]
      BY <2>2 DEF Approval, NoApproval, Typed, RowOK, TaskRow
    <2>4. /\ task'.plan = task.plan /\ task'.step = task.step
          /\ task'.approval.step = task.approval.step
          /\ task'.approval.status = IF approved THEN "granted" ELSE "rejected"
      BY <2>1, <2>3 DEF Approve, Update, Typed, RowOK, TaskRow
    <2>5. approved => task.approval.step \in granted'  BY <2>1 DEF Approve
    <2>6. QED  BY <2>2, <2>4, <2>5 DEF ApprovalOfCurrentStep
  <1>5. CASE task'.approval = task.approval /\ PlanKept
    BY <1>5, LogFrame DEF PlanKept, ApprovalOfCurrentStep
  <1>6. QED  BY <1>1, <1>2, <1>3, <1>4, <1>5, ApprovalFrame, PlanFrame

(* A worker reads a granted approval only together with the step it was      *)
(* granted to, and passes the gate of a protected tool only with it.         *)
ReadApproval ==
  \A w \in Workers :
    pc[w] = "decide" /\ snap[w].approval.status = "granted" => StepOf(w) \in granted

PassedGate ==
  \A w \in Workers :
    pc[w] \in {"reserve", "rearm", "condemn", "start", "call"} /\ StepOf(w).tool \in NeedsApproval
      => StepOf(w) \in granted

LEMMA ReadApprovalStep ==
  ASSUME Typed, ApprovalOfCurrentStep, ReadApproval, [Next]_vars
  PROVE  ReadApproval'
  <1> SUFFICES ASSUME NEW v \in Workers, pc'[v] = "decide", snap'[v].approval.status = "granted"
               PROVE  StepOf(v)' \in granted'
    BY DEF ReadApproval
  <1>1. CASE Rests(v)
    BY <1>1, LogFrame DEF Rests, ReadApproval, StepOf
  <1>2. CASE Loop(v)
    <2>1. snap'[v] = Copy(task) /\ granted' = granted
      BY <1>2 DEF Loop, Exit, Goto, Typed, LocalsOK
    <2>2. /\ snap'[v].plan = task.plan /\ snap'[v].step = task.step
          /\ snap'[v].approval = task.approval
      BY <2>1, CopyFields DEF Typed, RowOK
    <2>3. StepOf(v)' = task.plan[task.step + 1]  BY <2>2 DEF StepOf
    <2>4. QED  BY <2>1, <2>2, <2>3 DEF ApprovalOfCurrentStep
  <1>3. CASE Moves(v) /\ ~Loop(v)
    BY <1>3 DEF Moves, RunStep, ToolStep, Typed, LocalsOK, Goto, Acquire, SafeControl,
       Refuse, PlanCompleted, Gate, CasAndExit, Exit, Reserve, Rearm, Condemn, StartAttempt,
       RetryAttempt, CallSucceeds, CallFails, ResultTooLarge, ToolRaises, VerifyStep, VerifyPasses,
       VerifyRefuses, VerifyFinal, Succeed, Checkpoint, Reread, Fail, RequireReconciliation,
       Release, Forget, Crash, Interrupt, ReserveOutcome, AfterResult
  <1>4. QED  BY <1>1, <1>2, <1>3, OwnMove

LEMMA PassedGateStep ==
  ASSUME Typed, ReadApproval, PassedGate, [Next]_vars
  PROVE  PassedGate'
  <1> DEFINE Inside == {"reserve", "rearm", "condemn", "start", "call"}
  <1> SUFFICES ASSUME NEW v \in Workers, pc'[v] \in Inside, StepOf(v)'.tool \in NeedsApproval
               PROVE  StepOf(v)' \in granted'
    BY DEF PassedGate
  <1>1. pc[v] \in HasCopy /\ snap'[v] = snap[v]
    BY CopyKept DEF HasCopy, Working
  <1>2. StepOf(v)' = StepOf(v)  BY <1>1 DEF StepOf
  <1>3. CASE pc[v] \in Inside
    BY <1>2, <1>3, LogFrame DEF PassedGate
  <1>4. CASE Gate(v)
    <2>1. pc[v] = "decide" /\ ~ApprovalMissing(snap[v])
      BY <1>4 DEF Gate, CasAndExit, Exit, Goto, Typed, LocalsOK
    <2>2. snap[v].approval.status = "granted"
      BY <1>2, <2>1 DEF ApprovalMissing, StepOf
    <2>3. QED  BY <1>2, <2>1, <2>2, LogFrame DEF ReadApproval
  <1>5. CASE Moves(v) /\ ~Gate(v) /\ pc[v] \notin Inside
    BY <1>5 DEF Moves, RunStep, ToolStep, Typed, LocalsOK, Goto, Acquire, Loop, SafeControl,
       Refuse, PlanCompleted, CasAndExit, Exit, Reserve, Rearm, Condemn, StartAttempt,
       RetryAttempt, CallSucceeds, CallFails, ResultTooLarge, ToolRaises, VerifyStep, VerifyPasses,
       VerifyRefuses, VerifyFinal, Succeed, Checkpoint, Reread, Fail, RequireReconciliation,
       Release, Forget, Crash, Interrupt
  <1>6. QED  BY <1>3, <1>4, <1>5, OwnMove DEF Rests

-----------------------------------------------------------------------------
(* The ledger.                                                              *)

(* The attempts of a row change only when a worker inside that step starts   *)
(* one, and a new row is one that a worker has just reserved.                *)
LEMMA AttemptFrame ==
  ASSUME Typed, [Next]_vars
  PROVE  \/ \E u \in Workers : Reserve(u)
         \/ \E u \in Workers : StartAttempt(u)
         \/ /\ DOMAIN ledger' = DOMAIN ledger
            /\ \A id \in DOMAIN ledger : ledger'[id].attempt = ledger[id].attempt
  <1> DEFINE Kept == /\ DOMAIN ledger' = DOMAIN ledger
                     /\ \A id \in DOMAIN ledger : ledger'[id].attempt = ledger[id].attempt
  <1> USE DEF Typed
  <1>1. CASE UNCHANGED ledger
    BY <1>1
  <1>2. ASSUME NEW w \in Workers, Rearm(w)  PROVE Kept
    BY <1>2 DEF Rearm, LedgerOK, ToolRun
  <1>3. ASSUME NEW w \in Workers, Condemn(w)  PROVE Kept
    BY <1>3 DEF Condemn, FinishToolRun, LedgerOK, ToolRun
  <1>4. ASSUME NEW w \in Workers, CallSucceeds(w)  PROVE Kept
    BY <1>4 DEF CallSucceeds, FinishToolRun, LedgerOK, ToolRun
  <1>5. ASSUME NEW w \in Workers, CallFails(w)  PROVE Kept
    BY <1>5 DEF CallFails, FinishToolRun, LedgerOK, ToolRun
  <1>6. ASSUME NEW w \in Workers, ResultTooLarge(w)  PROVE Kept
    BY <1>6 DEF ResultTooLarge, FinishToolRun, LedgerOK, ToolRun
  <1>7. QED
    BY <1>1, <1>2, <1>3, <1>4, <1>5, <1>6
    DEF Next, RunStep, ToolStep, Control, vars, Acquire, Loop, SafeControl, Refuse, PlanCompleted,
        Gate, RetryAttempt, ToolRaises, VerifyStep, VerifyFinal, Succeed, Checkpoint, Reread, Fail,
        RequireReconciliation, Release, Heartbeat, Crash, Interrupt, LeaseExpires, Pause, Cancel,
        Resume, Retry, RetryVerification, Approve, Replan

(* A worker past the reservation has a row of its own tool. *)
HasRow ==
  \A w \in Workers :
    pc[w] \in Working \ {"reserve"} =>
      StepOf(w).id \in DOMAIN ledger /\ ledger[StepOf(w).id].tool = StepOf(w).tool

LEMMA HasRowStep ==
  ASSUME Typed, StepInPlan, HasRow, [Next]_vars
  PROVE  HasRow'
  <1> SUFFICES ASSUME NEW v \in Workers, pc'[v] \in Working \ {"reserve"}
               PROVE  /\ StepOf(v)'.id \in DOMAIN ledger'
                      /\ ledger'[StepOf(v)'.id].tool = StepOf(v)'.tool
    BY DEF HasRow
  <1>1. pc[v] \in HasCopy /\ snap'[v] = snap[v]
    BY CopyKept DEF HasCopy, Working
  <1>2. StepOf(v)' = StepOf(v)  BY <1>1 DEF StepOf
  <1>3. CASE pc[v] \in Working \ {"reserve"}
    BY <1>2, <1>3, LedgerFrame DEF HasRow, LedgerGrows
  <1>4. CASE Reserve(v)
    <2>1. CASE StepOf(v).id \in DOMAIN ledger
      <3>1. pc'[v] = ReserveOutcome(v, StepOf(v)) /\ UNCHANGED ledger
        BY <1>4, <2>1 DEF Reserve, Goto, Typed, LocalsOK
      <3>2. ~Hidden(StepOf(v))
        BY <3>1 DEF ReserveOutcome, Working
      <3>3. QED  BY <1>2, <2>1, <3>1, <3>2 DEF Hidden
    <2>2. CASE StepOf(v).id \notin DOMAIN ledger
      BY <1>2, <1>4, <2>2 DEF Reserve, NewRun
    <2>3. QED  BY <2>1, <2>2
  <1>5. CASE Moves(v) /\ ~Reserve(v) /\ pc[v] \notin Working \ {"reserve"}
    BY <1>1, <1>5 DEF Moves, RunStep, ToolStep, Typed, LocalsOK, Goto, HasCopy, Working,
       Acquire, Loop, SafeControl, Refuse, PlanCompleted, Gate, CasAndExit, Exit, Rearm, Condemn,
       StartAttempt, RetryAttempt, CallSucceeds, CallFails, ResultTooLarge, ToolRaises,
       VerifyStep, VerifyFinal, VerifyPasses, VerifyRefuses, Succeed, Checkpoint, Reread, Fail,
       RequireReconciliation, Release, Forget, Crash, Interrupt, DropLocals, KeepLocals
  <1>6. QED  BY <1>3, <1>4, <1>5, OwnMove DEF Rests

(* A worker that verifies or checkpoints a step has a terminal ToolResult. *)
ResultFirst ==
  \A w \in Workers :
    pc[w] \in {"verify", "checkpoint"} => ledger[StepOf(w).id].result # "none"

LEMMA ResultFirstStep ==
  ASSUME Typed, StepInPlan, HasRow, ResultFirst, [Next]_vars
  PROVE  ResultFirst'
  <1> SUFFICES ASSUME NEW v \in Workers, pc'[v] \in {"verify", "checkpoint"}
               PROVE  ledger'[StepOf(v)'.id].result # "none"
    BY DEF ResultFirst
  <1>1. pc[v] \in HasCopy /\ snap'[v] = snap[v]
    BY CopyKept DEF HasCopy, Working
  <1>2. StepOf(v)' = StepOf(v)  BY <1>1 DEF StepOf
  <1>3. CASE pc[v] \in {"verify", "checkpoint"}
    BY <1>2, <1>3, LedgerFrame DEF ResultFirst, HasRow, Working, LedgerGrows
  <1>4. CASE Reserve(v)
    <2>1. CASE StepOf(v).id \in DOMAIN ledger
      <3>1. pc'[v] = ReserveOutcome(v, StepOf(v)) /\ UNCHANGED ledger
        BY <1>4, <2>1 DEF Reserve, Goto, Typed, LocalsOK
      <3>2. QED  BY <1>2, <3>1 DEF ReserveOutcome, Cached
    <2>2. CASE StepOf(v).id \notin DOMAIN ledger
      BY <1>4, <2>2 DEF Reserve, Goto, Typed, LocalsOK
    <2>3. QED  BY <2>1, <2>2
  <1>5. CASE CallSucceeds(v)
    <2>1. StepOf(v).id \in DOMAIN ledger  BY <1>5 DEF CallSucceeds, HasRow, Working
    <2>2. ledger[StepOf(v).id] \in ToolRun  BY <2>1 DEF Typed, LedgerOK
    <2>3. ledger'[StepOf(v).id].result = FirstResult(ledger[StepOf(v).id], "succeeded")
      BY <1>5, <2>1, <2>2 DEF CallSucceeds, FinishToolRun, ToolRun
    <2>4. QED  BY <1>2, <2>3 DEF FirstResult
  <1>6. CASE Moves(v) /\ ~Reserve(v) /\ ~CallSucceeds(v) /\ pc[v] \notin {"verify", "checkpoint"}
    BY <1>6 DEF Moves, RunStep, ToolStep, Typed, LocalsOK, Goto,
       Acquire, Loop, SafeControl, Refuse, PlanCompleted, Gate, CasAndExit, Exit, Rearm, Condemn,
       StartAttempt, RetryAttempt, CallFails, ResultTooLarge, ToolRaises, VerifyStep,
       VerifyFinal, VerifyPasses, VerifyRefuses, Succeed, Checkpoint, Reread, Fail,
       RequireReconciliation, Release, Forget, Crash, Interrupt, DropLocals, KeepLocals
  <1>7. QED  BY <1>3, <1>4, <1>5, <1>6, OwnMove DEF Rests

(* Attempts are counted from zero in each call, and only a read-only step is *)
(* reserved again.                                                           *)
CountFromZero == \A w \in Workers : pc[w] \notin {"start", "call"} => att[w] = 0

RearmReadOnly == \A w \in Workers : pc[w] = "rearm" => ~SideEffect(StepOf(w))

LEMMA CountFromZeroStep ==
  ASSUME Typed, CountFromZero, [Next]_vars
  PROVE  CountFromZero'
  <1> SUFFICES ASSUME NEW v \in Workers, pc'[v] \notin {"start", "call"}
               PROVE  att'[v] = 0
    BY DEF CountFromZero
  <1>1. CASE Rests(v)  BY <1>1 DEF Rests, CountFromZero
  <1>2. CASE Moves(v)
    BY <1>2 DEF Moves, RunStep, ToolStep, Typed, LocalsOK, Goto, CountFromZero,
       Acquire, Loop, SafeControl, Refuse, PlanCompleted, Gate, CasAndExit, Exit, Reserve, Rearm,
       Condemn, StartAttempt, RetryAttempt, CallSucceeds, CallFails, ResultTooLarge, ToolRaises,
       VerifyStep, VerifyFinal, VerifyPasses, VerifyRefuses, Succeed, Checkpoint, Reread, Fail,
       RequireReconciliation, Release, Forget, Crash, Interrupt, DropLocals, KeepLocals
  <1>3. QED  BY <1>1, <1>2, OwnMove

LEMMA RearmReadOnlyStep ==
  ASSUME Typed, RearmReadOnly, [Next]_vars
  PROVE  RearmReadOnly'
  <1> SUFFICES ASSUME NEW v \in Workers, pc'[v] = "rearm"
               PROVE  ~SideEffect(StepOf(v)')
    BY DEF RearmReadOnly, SideEffect
  <1>1. pc[v] \in HasCopy /\ snap'[v] = snap[v]
    BY CopyKept DEF HasCopy, Working
  <1>2. StepOf(v)' = StepOf(v)  BY <1>1 DEF StepOf
  <1>3. CASE Rests(v)  BY <1>2, <1>3 DEF Rests, RearmReadOnly
  <1>4. CASE Reserve(v)
    BY <1>2, <1>4 DEF Reserve, ReserveOutcome, AfterResult, Rearmable, Goto, Typed, LocalsOK
  <1>5. CASE Moves(v) /\ ~Reserve(v)
    BY <1>5 DEF Moves, RunStep, ToolStep, Typed, LocalsOK, Goto, AfterResult,
       Acquire, Loop, SafeControl, Refuse, PlanCompleted, Gate, CasAndExit, Exit, Rearm, Condemn,
       StartAttempt, RetryAttempt, CallSucceeds, CallFails, ResultTooLarge, ToolRaises,
       VerifyStep, VerifyFinal, VerifyPasses, VerifyRefuses, Succeed, Checkpoint, Reread, Fail,
       RequireReconciliation, Release, Forget, Crash, Interrupt, DropLocals, KeepLocals
  <1>6. QED  BY <1>3, <1>4, <1>5, OwnMove

(* Inside a side-effecting step the row counts the attempts of the one       *)
(* worker that is there.                                                     *)
EffectCount ==
  \A w \in Workers : pc[w] \in {"start", "call"} /\ SideEffect(StepOf(w)) =>
    /\ ledger[StepOf(w).id].attempt = att[w]
    /\ att[w] <= MaxRetries[StepOf(w).tool] + (IF pc[w] = "start" THEN 0 ELSE 1)

EffectExclusive ==
  \A v, w \in Workers :
    v # w /\ pc[v] \in {"start", "call"} /\ pc[w] \in {"start", "call"} /\ SideEffect(StepOf(v))
      => StepOf(v).id # StepOf(w).id

LEMMA EffectEntered ==
  ASSUME Typed, RearmReadOnly, [Next]_vars,
         NEW v \in Workers, pc'[v] \in {"start", "call"}, SideEffect(StepOf(v))
  PROVE  /\ snap'[v] = snap[v] /\ StepOf(v)' = StepOf(v)
         /\ \/ Rests(v) /\ pc[v] \in {"start", "call"}
            \/ StartAttempt(v)
            \/ RetryAttempt(v)
            \/ Reserve(v) /\ StepOf(v).id \notin DOMAIN ledger
  <1>1. pc[v] \in HasCopy /\ snap'[v] = snap[v]
    BY CopyKept DEF HasCopy, Working
  <1>2. StepOf(v)' = StepOf(v)  BY <1>1 DEF StepOf
  <1>3. CASE Rests(v)  BY <1>1, <1>2, <1>3 DEF Rests
  <1>4. CASE Reserve(v)
    BY <1>1, <1>2, <1>4 DEF Reserve, ReserveOutcome, AfterResult, Goto, Typed, LocalsOK
  <1>5. CASE Moves(v) /\ ~Reserve(v) /\ ~StartAttempt(v) /\ ~RetryAttempt(v)
    BY <1>5 DEF Moves, RunStep, ToolStep, Typed, LocalsOK, Goto, AfterResult, RearmReadOnly,
       Acquire, Loop, SafeControl, Refuse, PlanCompleted, Gate, CasAndExit, Exit, Rearm, Condemn,
       CallSucceeds, CallFails, ResultTooLarge, ToolRaises,
       VerifyStep, VerifyFinal, VerifyPasses, VerifyRefuses, Succeed, Checkpoint, Reread, Fail,
       RequireReconciliation, Release, Forget, Crash, Interrupt, DropLocals, KeepLocals
  <1>6. QED  BY <1>1, <1>2, <1>3, <1>4, <1>5, OwnMove

LEMMA EffectExclusiveStep ==
  ASSUME Typed, StepInPlan, HasRow, RearmReadOnly, EffectExclusive, [Next]_vars
  PROVE  EffectExclusive'
  <1> SUFFICES ASSUME NEW v \in Workers, NEW u \in Workers, v # u,
                      pc'[v] \in {"start", "call"}, pc'[u] \in {"start", "call"},
                      SideEffect(StepOf(v)'), StepOf(v)'.id = StepOf(u)'.id
               PROVE  FALSE
    BY DEF EffectExclusive, SideEffect
  <1>1. /\ pc[v] \in HasCopy /\ snap'[v] = snap[v]
        /\ pc[u] \in HasCopy /\ snap'[u] = snap[u]
    BY CopyKept DEF HasCopy, Working
  <1>2. StepOf(v)' = StepOf(v) /\ StepOf(u)' = StepOf(u)  BY <1>1 DEF StepOf
  <1>3. StepOf(u)'.tool = StepOf(v)'.tool
    BY HasRowStep DEF HasRow, Working
  <1>4. SideEffect(StepOf(v)) /\ SideEffect(StepOf(u))
    BY <1>2, <1>3 DEF SideEffect
  <1>5. /\ pc[v] \in {"start", "call"} \/ (Reserve(v) /\ StepOf(v).id \notin DOMAIN ledger)
        /\ pc[u] \in {"start", "call"} \/ (Reserve(u) /\ StepOf(u).id \notin DOMAIN ledger)
    BY <1>4, EffectEntered DEF StartAttempt, RetryAttempt
  <1>6. CASE pc[v] \in {"start", "call"} /\ pc[u] \in {"start", "call"}
    BY <1>2, <1>4, <1>6 DEF EffectExclusive
  <1>7. CASE pc[v] \in {"start", "call"} /\ StepOf(u).id \notin DOMAIN ledger
    BY <1>2, <1>7 DEF HasRow, Working
  <1>8. CASE pc[u] \in {"start", "call"} /\ StepOf(v).id \notin DOMAIN ledger
    BY <1>2, <1>8 DEF HasRow, Working
  <1>9. CASE Reserve(v) /\ Reserve(u)
    BY <1>9 DEF Reserve, Goto, Typed, LocalsOK
  <1>10. QED  BY <1>5, <1>6, <1>7, <1>8, <1>9

LEMMA EffectCountStep ==
  ASSUME Typed, StepInPlan, HasRow, RearmReadOnly, CountFromZero, EffectExclusive, EffectCount,
         [Next]_vars
  PROVE  EffectCount'
  <1> SUFFICES ASSUME NEW v \in Workers, pc'[v] \in {"start", "call"}, SideEffect(StepOf(v)')
               PROVE  /\ ledger'[StepOf(v)'.id].attempt = att'[v]
                      /\ att'[v] <= MaxRetries[StepOf(v)'.tool]
                                       + (IF pc'[v] = "start" THEN 0 ELSE 1)
    BY DEF EffectCount, SideEffect
  <1> DEFINE s == StepOf(v)
  <1>1. pc[v] \in HasCopy /\ snap'[v] = snap[v]
    BY CopyKept DEF HasCopy, Working
  <1>2. StepOf(v)' = s  BY <1>1 DEF StepOf
  <1>3. SideEffect(s)  BY <1>2 DEF SideEffect
  <1>4. CASE Reserve(v) /\ s.id \notin DOMAIN ledger
    <2>1. ledger'[s.id].attempt = 0 /\ att' = att /\ pc'[v] = "start" /\ pc[v] = "reserve"
      BY <1>4 DEF Reserve, NewRun, Goto, Typed, LocalsOK
    <2>2. att[v] = 0  BY <2>1 DEF CountFromZero
    <2>3. MaxRetries[s.tool] \in Nat
      BY <1>3, ToolsAssumption DEF SideEffect
    <2>4. QED  BY <1>2, <2>1, <2>2, <2>3
  <1>5. CASE pc[v] \in {"start", "call"}
    <2>1. s.id \in DOMAIN ledger /\ ledger[s.id] \in ToolRun
      BY <1>5 DEF HasRow, Working, Typed, LedgerOK
    <2>2. /\ ledger[s.id].attempt = att[v]
          /\ att[v] <= MaxRetries[s.tool] + (IF pc[v] = "start" THEN 0 ELSE 1)
      BY <1>3, <1>5 DEF EffectCount
    <2>3. att[v] \in Nat /\ MaxRetries[s.tool] \in Nat /\ MaxAttempt > MaxRetries[s.tool] + 1
      BY <1>3, ToolsAssumption, BoundsAssumption DEF SideEffect, Typed, LocalsOK
    <2>4. CASE StartAttempt(v)
      <3>1. /\ pc[v] = "start" /\ pc'[v] = "call" /\ att'[v] = att[v] + 1
            /\ ledger'[s.id].attempt = IF ledger[s.id].attempt < MaxAttempt
                                       THEN ledger[s.id].attempt + 1 ELSE ledger[s.id].attempt
        BY <2>1, <2>4 DEF StartAttempt, Goto, Typed, LocalsOK, ToolRun
      <3>2. QED  BY <1>2, <2>2, <2>3, <3>1, BoundsAssumption
    <2>5. CASE RetryAttempt(v)
      BY <1>2, <2>2, <2>3, <2>5 DEF RetryAttempt, Goto, Typed, LocalsOK
    <2>6. CASE Rests(v)
      <3>1. ledger'[s.id].attempt = ledger[s.id].attempt
        <4>1. ASSUME NEW u \in Workers, Reserve(u)
              PROVE  ledger'[s.id].attempt = ledger[s.id].attempt
          BY <2>1, <4>1 DEF Reserve
        <4>2. ASSUME NEW u \in Workers, StartAttempt(u)
              PROVE  ledger'[s.id].attempt = ledger[s.id].attempt
          <5>1. u # v
            BY <2>6, <4>2 DEF Rests, StartAttempt, Goto, Typed, LocalsOK
          <5>2. StepOf(u).id # s.id
            BY <1>3, <1>5, <4>2, <5>1 DEF EffectExclusive, StartAttempt
          <5>3. QED  BY <2>1, <4>2, <5>2 DEF StartAttempt, Typed, LedgerOK
        <4>3. QED  BY <2>1, <4>1, <4>2, AttemptFrame
      <3>2. QED  BY <1>2, <2>2, <2>6, <3>1 DEF Rests
    <2>7. QED  BY <1>3, <1>5, <2>4, <2>5, <2>6, EffectEntered DEF Reserve
  <1>6. QED  BY <1>3, <1>4, <1>5, EffectEntered DEF StartAttempt, RetryAttempt

LEMMA SideEffectBudgetStep ==
  ASSUME Typed, StepInPlan, HasRow, EffectCount, SideEffectBudget, [Next]_vars
  PROVE  SideEffectBudget'
  <1> SUFFICES ASSUME NEW id \in DOMAIN ledger', ledger'[id].tool \in SideEffecting
               PROVE  ledger'[id].attempt <= MaxRetries[ledger'[id].tool] + 1
    BY DEF SideEffectBudget
  <1>1. MaxRetries[ledger'[id].tool] \in Nat
    BY ToolsAssumption
  <1>2. CASE id \notin DOMAIN ledger
    <2>1. PICK u \in Workers : Reserve(u)
      BY <1>2, AttemptFrame DEF StartAttempt
    <2>2. ledger'[id] = NewRun(StepOf(u).tool)
      BY <1>2, <2>1 DEF Reserve
    <2>3. QED  BY <1>1, <2>2 DEF NewRun
  <1>3. CASE id \in DOMAIN ledger
    <2>1. /\ ledger[id] \in ToolRun /\ ledger'[id].tool = ledger[id].tool
          /\ ledger[id].attempt <= MaxRetries[ledger[id].tool] + 1
      BY <1>3, LedgerFrame DEF Typed, LedgerOK, LedgerGrows, SideEffectBudget
    <2>2. ASSUME NEW u \in Workers, Reserve(u)
          PROVE  ledger'[id].attempt = ledger[id].attempt
      BY <1>3, <2>2 DEF Reserve
    <2>3. ASSUME NEW u \in Workers, StartAttempt(u), id # StepOf(u).id
          PROVE  ledger'[id].attempt = ledger[id].attempt
      BY <1>3, <2>3 DEF StartAttempt, Typed, LedgerOK
    <2>4. ASSUME NEW u \in Workers, StartAttempt(u), id = StepOf(u).id
          PROVE  ledger'[id].attempt <= MaxRetries[ledger'[id].tool] + 1
      <3>1. pc[u] = "start" /\ ledger[id].tool = StepOf(u).tool
        BY <2>4 DEF StartAttempt, HasRow, Working
      <3>2. ledger[id].attempt <= MaxRetries[ledger[id].tool]
        BY <1>1, <2>1, <2>4, <3>1 DEF EffectCount, SideEffect, Typed, LocalsOK
      <3>3. ledger'[id].attempt <= ledger[id].attempt + 1
        BY <2>1, <2>4, <1>3 DEF StartAttempt, ToolRun
      <3>4. ledger'[id].attempt \in Nat
        BY <1>3, <2>1, <2>4, BoundsAssumption DEF StartAttempt, ToolRun
      <3>5. QED  BY <1>1, <2>1, <3>2, <3>3, <3>4 DEF ToolRun
    <2>5. QED  BY <1>3, <2>1, <2>2, <2>3, <2>4, AttemptFrame
  <1>4. QED  BY <1>2, <1>3

(* Every step behind the checkpoint has a terminal ToolResult of its own   *)
(* tool in the ledger, also when step ids are reused by a replan.          *)
CheckpointHasResult ==
  \A i \in 1..task.step :
    /\ task.plan[i].id \in DOMAIN ledger
    /\ ledger[task.plan[i].id].tool = task.plan[i].tool
    /\ ledger[task.plan[i].id].result # "none"

LEMMA CheckpointHasResultStep ==
  ASSUME Typed, StepInPlan, OwnerPlan, StepBound, HasRow, ResultFirst, CheckpointHasResult,
         [Next]_vars
  PROVE  CheckpointHasResult'
  <1> SUFFICES ASSUME NEW i \in 1..task'.step
               PROVE  /\ task'.plan[i].id \in DOMAIN ledger'
                      /\ ledger'[task'.plan[i].id].tool = task'.plan[i].tool
                      /\ ledger'[task'.plan[i].id].result # "none"
    BY DEF CheckpointHasResult
  <1>1. CASE i \in 1..task.step /\ task'.plan[i] = task.plan[i]
    BY <1>1, LedgerFrame DEF LedgerGrows, CheckpointHasResult
  <1>2. CASE PlanKept  BY <1>1, <1>2 DEF PlanKept
  <1>3. CASE Advances
    <2>1. PICK w \in Workers : Checkpoint(w) /\ MayCheckpoint(w)  BY <1>3 DEF Advances
    <2>2. /\ pc[w] = "checkpoint" /\ StepOf(w) = task.plan[task.step + 1]
          /\ task'.plan = task.plan /\ task'.step = task.step + 1
      BY <2>1, AdvancesEffect
    <2>3. /\ StepOf(w).id \in DOMAIN ledger /\ ledger[StepOf(w).id].tool = StepOf(w).tool
          /\ ledger[StepOf(w).id].result # "none"
      BY <2>2 DEF HasRow, ResultFirst, Working
    <2>4. CASE i = task.step + 1
      BY <2>2, <2>3, <2>4, LedgerFrame DEF LedgerGrows
    <2>5. QED  BY <1>1, <2>2, <2>4 DEF Typed, RowOK, TaskRow
  <1>4. CASE Revises  BY <1>1, <1>4, RevisesEffect
  <1>5. QED  BY <1>2, <1>3, <1>4, PlanFrame

-----------------------------------------------------------------------------
(* Where a pending request may be.  A worker writes the row only under the   *)
(* version of a copy without a request, or to honour the request.            *)
RequestPending ==
  /\ task.cancel => task.state \in {"cancelling", "failed", "reconciliation_required"}
  /\ task.pause => task.state \in {"pausing", "cancelling", "cancelled", "failed",
                                   "reconciliation_required"}

LEMMA RequestPendingStep ==
  ASSUME Typed, FreshCopy, CopyDecided, RequestPending, [Next]_vars
  PROVE  RequestPending'
  <1> USE DEF RequestPending, Typed, RowOK, TaskRow, Update, StopStates
  <1>1. ASSUME NEW w \in Workers, Acquire(w)  PROVE RequestPending'
    BY <1>1 DEF Acquire
  <1>2. ASSUME NEW w \in Workers, Loop(w)  PROVE RequestPending'
    BY <1>2 DEF Loop, ReadVersion, KeepRow
  <1>3. ASSUME NEW w \in Workers, SafeControl(w)  PROVE RequestPending'
    <2>1. CASE w \in fresh
      <3>1. task.cancel = snap[w].cancel
        BY <1>3, <2>1, CopyFields DEF SafeControl, FreshCopy, HasCopy
      <3>2. QED  BY <1>3, <2>1, <3>1 DEF SafeControl, CasAndExit
    <2>2. CASE w \notin fresh
      BY <1>3, <2>2 DEF SafeControl, CasAndExit, KeepRow
    <2>3. QED  BY <2>1, <2>2
  <1>4. ASSUME NEW w \in Workers, Refuse(w)  PROVE RequestPending'
    BY <1>4 DEF Refuse
  <1>5. ASSUME NEW w \in Workers, PlanCompleted(w)  PROVE RequestPending'
    BY <1>5 DEF PlanCompleted
  <1>6. ASSUME NEW w \in Workers, Gate(w)  PROVE RequestPending'
    <2>1. CASE w \in fresh
      <3>1. ~Controlled(snap[w]) /\ task.pause = snap[w].pause /\ task.cancel = snap[w].cancel
        BY <1>6, <2>1, CopyFields DEF Gate, FreshCopy, CopyDecided, HasCopy, Working
      <3>2. QED  BY <1>6, <2>1, <3>1 DEF Gate, KeepLocals, CasAndExit, KeepRow, Controlled
    <2>2. CASE w \notin fresh
      BY <1>6, <2>2 DEF Gate, KeepLocals, CasAndExit, KeepRow
    <2>3. QED  BY <2>1, <2>2
  <1>7. ASSUME NEW w \in Workers, Reserve(w)  PROVE RequestPending'
    BY <1>7 DEF Reserve
  <1>8. ASSUME NEW w \in Workers, Rearm(w)  PROVE RequestPending'
    BY <1>8 DEF Rearm
  <1>9. ASSUME NEW w \in Workers, Condemn(w)  PROVE RequestPending'
    BY <1>9 DEF Condemn
  <1>10. ASSUME NEW w \in Workers, StartAttempt(w)  PROVE RequestPending'
    BY <1>10 DEF StartAttempt
  <1>11. ASSUME NEW w \in Workers, RetryAttempt(w)  PROVE RequestPending'
    BY <1>11 DEF RetryAttempt
  <1>12. ASSUME NEW w \in Workers, CallSucceeds(w)  PROVE RequestPending'
    BY <1>12 DEF CallSucceeds
  <1>13. ASSUME NEW w \in Workers, CallFails(w)  PROVE RequestPending'
    BY <1>13 DEF CallFails
  <1>14. ASSUME NEW w \in Workers, ResultTooLarge(w)  PROVE RequestPending'
    BY <1>14 DEF ResultTooLarge
  <1>15. ASSUME NEW w \in Workers, ToolRaises(w)  PROVE RequestPending'
    BY <1>15 DEF ToolRaises
  <1>16. ASSUME NEW w \in Workers, VerifyStep(w)  PROVE RequestPending'
    <2>1. CASE w \in fresh
      <3>1. ~Controlled(snap[w]) /\ task.pause = snap[w].pause /\ task.cancel = snap[w].cancel
        BY <1>16, <2>1, CopyFields DEF VerifyStep, FreshCopy, CopyDecided, HasCopy, Working
      <3>2. QED  BY <1>16, <2>1, <3>1 DEF VerifyStep, VerifyPasses, VerifyRefuses, CasAndExit, KeepRow, Controlled
    <2>2. CASE w \notin fresh
      BY <1>16, <2>2 DEF VerifyStep, VerifyPasses, VerifyRefuses, CasAndExit, KeepRow
    <2>3. QED  BY <2>1, <2>2
  <1>17. ASSUME NEW w \in Workers, VerifyFinal(w)  PROVE RequestPending'
    <2>1. CASE w \in fresh
      <3>1. ~Controlled(snap[w]) /\ task.pause = snap[w].pause /\ task.cancel = snap[w].cancel
        BY <1>17, <2>1, CopyFields DEF VerifyFinal, FreshCopy, CopyDecided, HasCopy, Working
      <3>2. QED  BY <1>17, <2>1, <3>1 DEF VerifyFinal, VerifyPasses, VerifyRefuses, CasAndExit, KeepRow, Controlled
    <2>2. CASE w \notin fresh
      BY <1>17, <2>2 DEF VerifyFinal, VerifyPasses, VerifyRefuses, CasAndExit, KeepRow
    <2>3. QED  BY <2>1, <2>2
  <1>18. ASSUME NEW w \in Workers, Succeed(w)  PROVE RequestPending'
    <2>1. CASE w \in fresh
      <3>1. ~Controlled(snap[w]) /\ task.pause = snap[w].pause /\ task.cancel = snap[w].cancel
        BY <1>18, <2>1, CopyFields DEF Succeed, FreshCopy, CopyDecided, HasCopy, Working
      <3>2. QED  BY <1>18, <2>1, <3>1 DEF Succeed, CasAndExit, KeepRow, Controlled
    <2>2. CASE w \notin fresh
      BY <1>18, <2>2 DEF Succeed, CasAndExit, KeepRow
    <2>3. QED  BY <2>1, <2>2
  <1>19. ASSUME NEW w \in Workers, Checkpoint(w)  PROVE RequestPending'
    BY <1>19 DEF Checkpoint, Advanced, KeepRow
  <1>20. ASSUME NEW w \in Workers, Reread(w)  PROVE RequestPending'
    BY <1>20 DEF Reread, ReadVersion
  <1>21. ASSUME NEW w \in Workers, Fail(w)  PROVE RequestPending'
    BY <1>21 DEF Fail, CasAndExit, KeepRow
  <1>22. ASSUME NEW w \in Workers, RequireReconciliation(w)  PROVE RequestPending'
    BY <1>22 DEF RequireReconciliation, CasAndExit, KeepRow
  <1>23. ASSUME NEW w \in Workers, Release(w)  PROVE RequestPending'
    BY <1>23 DEF Release, Forget
  <1>24. ASSUME NEW w \in Workers, Heartbeat(w)  PROVE RequestPending'
    BY <1>24 DEF Heartbeat
  <1>25. ASSUME NEW w \in Workers, Crash(w)  PROVE RequestPending'
    BY <1>25 DEF Crash, Forget
  <1>26. ASSUME NEW w \in Workers, Interrupt(w)  PROVE RequestPending'
    BY <1>26 DEF Interrupt, Exit
  <1>27. ASSUME NEW leased \in LeaseReadings, Pause(leased)  PROVE RequestPending'
    BY <1>27 DEF Pause, Pausable, TerminalStates
  <1>28. ASSUME NEW leased \in LeaseReadings, Cancel(leased)  PROVE RequestPending'
    BY <1>28 DEF Cancel, Cancellable, TerminalStates
  <1>29. ASSUME Resume  PROVE RequestPending'
    BY <1>29 DEF Resume, Reopened
  <1>30. ASSUME Retry  PROVE RequestPending'
    BY <1>30 DEF Retry, Reopened
  <1>31. ASSUME RetryVerification  PROVE RequestPending'
    BY <1>31 DEF RetryVerification
  <1>32. ASSUME NEW approved \in BOOLEAN, Approve(approved)  PROVE RequestPending'
    BY <1>32 DEF Approve
  <1>33. ASSUME NEW draft \in Drafts, NEW ids \in ReplanIds(task, Len(draft)), Replan(draft, ids)
         PROVE RequestPending'
    BY <1>33 DEF Replan, Replanned
  <1>34. ASSUME LeaseExpires  PROVE RequestPending'
    BY <1>34 DEF LeaseExpires
  <1>35. CASE UNCHANGED vars
    BY <1>35 DEF vars
  <1>36. QED
    BY <1>1, <1>2, <1>3, <1>4, <1>5, <1>6, <1>7, <1>8, <1>9, <1>10, <1>11, <1>12, <1>13, <1>14, <1>15, <1>16, <1>17,
       <1>18, <1>19, <1>20, <1>21, <1>22, <1>23, <1>24, <1>25, <1>26, <1>27, <1>28, <1>29, <1>30, <1>31, <1>32, <1>33, <1>34, <1>35
    DEF Next, RunStep, ToolStep, Control

-----------------------------------------------------------------------------
(* The theorems.  IInv is inductive: what the row, the copies of the row,    *)
(* the ledger and the log know of each other.                                *)
RowInv ==
  StepBound /\ PlanReferences /\ PrefixVerified /\ DoneVerified /\ ApprovalOfCurrentStep
    /\ RequestPending

CopyInv ==
  StepInPlan /\ FreshCopy /\ OwnerPlan /\ CopyDecided /\ CheckpointVerified /\ FinalVerified
    /\ ReadApproval /\ PassedGate

LedgerInv ==
  HasRow /\ ResultFirst /\ CountFromZero /\ RearmReadOnly /\ EffectCount /\ EffectExclusive
    /\ SideEffectBudget /\ CheckpointHasResult

IInv == Typed /\ RowInv /\ CopyInv /\ LedgerInv

LEMMA InitIInv == Init => IInv
  <1> SUFFICES ASSUME Init PROVE IInv
    OBVIOUS
  <1>1. Typed /\ StepInPlan
    BY InitType
  <1>2. PICK draft \in Drafts, strict \in BOOLEAN :
          LET plan == Steps(draft, FreshIds(Len(draft), 1, 0)) IN
            WellFormed(plan, strict) /\ task = NewTask(plan, strict)
    BY DEF Init
  <1>3. /\ task.state = "created" /\ task.step = 0 /\ task.approval = NoApproval
        /\ task.pause = FALSE /\ task.cancel = FALSE /\ task.owner = None
        /\ task.strict => ReferencedOnce(task.plan)
    BY <1>2 DEF NewTask, WellFormed
  <1>4. \A w \in Workers : pc[w] = "idle" /\ att[w] = 0
    BY DEF Init
  <1>5. fresh = {} /\ DOMAIN ledger = {}
    BY DEF Init
  <1>6. RowInv
    BY <1>1, <1>3 DEF RowInv, StepBound, PlanReferences, PrefixVerified, DoneVerified,
       ApprovalOfCurrentStep, NoApproval, RequestPending, Typed, RowOK, TaskRow
  <1>7. CopyInv
    BY <1>1, <1>4, <1>5 DEF CopyInv, FreshCopy, OwnerPlan, HasCopy, Working, CopyDecided,
       CheckpointVerified, FinalVerified, ReadApproval, PassedGate
  <1>8. LedgerInv
    BY <1>3, <1>4, <1>5 DEF LedgerInv, HasRow, Working, ResultFirst, CountFromZero, RearmReadOnly,
       EffectCount, EffectExclusive, SideEffectBudget, CheckpointHasResult
  <1>9. QED  BY <1>1, <1>6, <1>7, <1>8 DEF IInv

LEMMA StepIInv == IInv /\ [Next]_vars => IInv'
  <1> SUFFICES ASSUME IInv, [Next]_vars  PROVE IInv'
    OBVIOUS
  <1> USE DEF IInv, RowInv, CopyInv, LedgerInv
  <1>1. Typed'
    BY TypedStep DEF StepBound
  <1>2. RowInv'
    BY StepBoundStep, PlanReferencesStep, PrefixVerifiedStep, DoneVerifiedStep,
       ApprovalOfCurrentStepStep, RequestPendingStep
  <1>3. CopyInv'
    BY StepInPlanStep, FreshCopyStep, OwnerPlanStep, CopyDecidedStep, CheckpointVerifiedStep,
       FinalVerifiedStep, ReadApprovalStep, PassedGateStep
  <1>4. LedgerInv'
    BY HasRowStep, ResultFirstStep, CountFromZeroStep, RearmReadOnlyStep, EffectCountStep,
       EffectExclusiveStep, SideEffectBudgetStep, CheckpointHasResultStep
  <1>5. QED  BY <1>1, <1>2, <1>3, <1>4

LEMMA SpecIInv == Spec => []IInv
  BY InitIInv, StepIInv, PTL DEF Spec

(* Every reachable row, ledger, log and local variable of agent_runtime.py   *)
(* has the values the code can read back, and no checkpoint, replan or       *)
(* takeover puts the current step behind the end of the plan.                *)
THEOREM TypeCorrect == Spec => []TypeOK
  <1>1. IInv => TypeOK  BY DEF IInv, RowInv, TypeOK
  <1>2. QED  BY <1>1, SpecIInv, PTL

(* A strict task becomes `succeeded` only with every required criterion      *)
(* verified against the step of its final plan that references it: each      *)
(* step is checkpointed with its verdicts in the log, no replan touches the  *)
(* checkpointed steps, and every accepted plan references each criterion.    *)
THEOREM SucceededVerified == Spec => []SucceededMeansVerified
  <1>1. IInv => SucceededMeansVerified
    <2> SUFFICES ASSUME IInv, task.state = "succeeded", task.strict
                 PROVE  /\ \A c \in Criteria : \E i \in 1..task.step :
                             c \in task.plan[i].crits /\ <<task.plan[i].id, c>> \in passed
                        /\ \A c \in FinalCriteria : <<FINAL_STEP_ID, c>> \in passed
      BY DEF SucceededMeansVerified
    <2>1. task.step >= Len(task.plan) /\ {FINAL_STEP_ID} \X FinalCriteria \subseteq passed
      BY DEF IInv, RowInv, DoneVerified
    <2>2. task.plan \in Seq(Step) /\ task.step \in Nat
      BY DEF IInv, Typed, RowOK, TaskRow
    <2>3. ASSUME NEW c \in Criteria
          PROVE  \E i \in 1..task.step :
                   c \in task.plan[i].crits /\ <<task.plan[i].id, c>> \in passed
      <3>1. PICK i \in DOMAIN task.plan : c \in task.plan[i].crits
        BY DEF IInv, RowInv, PlanReferences, ReferencedOnce
      <3>2. i \in 1..task.step
        BY <2>1, <2>2
      <3>3. <<task.plan[i].id, c>> \in passed
        BY <3>1, <3>2 DEF IInv, RowInv, PrefixVerified
      <3>4. QED  BY <3>1, <3>2, <3>3
    <2>4. QED  BY <2>1, <2>3
  <1>2. QED  BY <1>1, SpecIInv, PTL

(* No handler of a protected tool is called for a step no approver approved, *)
(* although run() looks only at the approved flag: the approval of the row   *)
(* always names the step the row stands at, and a worker that passes the     *)
(* gate has read both together.                                              *)
THEOREM ApprovalBound == Spec => []ApprovalBinding
  <1>1. IInv => ApprovalBinding
    BY DEF IInv, CopyInv, PassedGate, ApprovalBinding
  <1>2. QED  BY <1>1, SpecIInv, PTL

(* A side-effecting step is attempted at most 1 + max_retries times, however *)
(* many workers take the task over and however often it is retried: at most  *)
(* one worker is ever inside such a step, and nothing re-arms its row.       *)
THEOREM SideEffectBounded == Spec => []SideEffectBudget
  <1>1. IInv => SideEffectBudget  BY DEF IInv, LedgerInv
  <1>2. QED  BY <1>1, SpecIInv, PTL

(* The checkpoint never passes a step without a terminal ToolResult of its   *)
(* own tool in agent_tool_runs.                                              *)
THEOREM CheckpointBacked == Spec => []CheckpointHasResult
  <1>1. IInv => CheckpointHasResult  BY DEF IInv, LedgerInv
  <1>2. QED  BY <1>1, SpecIInv, PTL

(* replan cannot swap the plan under the worker that holds the lease.        *)
THEOREM LeaseHolderPlan == Spec => []LeaseHolderWorksOnPlan
  <1>1. IInv => LeaseHolderWorksOnPlan
    BY DEF IInv, CopyInv, OwnerPlan, HasCopy, Working, LeaseHolderWorksOnPlan
  <1>2. QED  BY <1>1, SpecIInv, PTL

(* A pause or cancel request is never pending on a task that was reopened.   *)
THEOREM RequestsFresh == Spec => []NoStaleRequest
  <1>1. IInv => NoStaleRequest
    BY DEF IInv, RowInv, RequestPending, NoStaleRequest
  <1>2. QED  BY <1>1, SpecIInv, PTL

(* The checkpoint moves forward one step at a time and the steps behind it   *)
(* never change, through every replan.                                       *)
THEOREM PrefixStays == Spec => PrefixImmutable
  <1> DEFINE Kept == /\ task'.step \in {task.step, task.step + 1}
                     /\ \A i \in 1..task.step : task'.plan[i] = task.plan[i]
  <1>1. IInv /\ [Next]_vars => [Kept]_vars
    <2> SUFFICES ASSUME IInv, [Next]_vars  PROVE Kept
      OBVIOUS
    <2>1. CASE PlanKept  BY <2>1 DEF PlanKept
    <2>2. CASE Advances  BY <2>2, AdvancesEffect DEF Advances, IInv, CopyInv
    <2>3. CASE Revises  BY <2>3, RevisesEffect DEF IInv, RowInv
    <2>4. QED  BY <2>1, <2>2, <2>3, PlanFrame DEF IInv
  <1>2. QED  BY <1>1, SpecIInv, PTL DEF Spec, PrefixImmutable
=============================================================================
