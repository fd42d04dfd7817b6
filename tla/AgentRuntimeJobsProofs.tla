----------------------- MODULE AgentRuntimeJobsProofs -----------------------
(***************************************************************************)
(* Proofs about AgentRuntimeJobs, for any workers, tools, criteria, plans  *)
(* and bounds that satisfy its assumptions.                                *)
(*                                                                         *)
(* What AgentRuntimeProofs proves of the row, the copies of it and the     *)
(* ledger holds with jobs as well, as far as a result in the ledger needs  *)
(* it (Kernel).  The rest follows three rows.  A ledger row of a job is    *)
(* reserved once and never fails, so it is started once.  It gets a result *)
(* only after a call of reconcile has read the one of its own job, and a   *)
(* valid result stays.  And a row of agent_jobs is never removed, so the   *)
(* job that was requested for the step a task stops at is still there.     *)
(***************************************************************************)
EXTENDS AgentRuntimeJobs, AgentRuntimeProofs

Kernel ==
  /\ Typed /\ StepBound /\ StepInPlan /\ FreshCopy /\ OwnerPlan
  /\ HasRow /\ ResultFirst /\ CheckpointHasResult

(* Every step of the plan, and of a copy of it, may become a job.          *)
Numbered(row) ==
  Len(row.plan) <= MaxSteps /\ \A i \in DOMAIN row.plan : row.plan[i].id \in StepIds

StepsNumbered ==
  /\ task.planVersion <= MaxPlanVersion
  /\ Numbered(task) /\ \A w \in Workers : Numbered(snap[w])

JobState == {"absent", "requested", "running", "cancel_requested", "succeeded", "failed",
             "cancelled", "orphaned"}

Request ==
  [at : {"idle", "backend", "result", "record", "done", "raised"},
   id : StepIds \cup {None}, state : JobState]

TailState == {"none", "requested", "lookup", "reconciling", "materialized", "cancel_read",
              "cancel_job"}

JobsTyped ==
  /\ job \in [StepIds -> JobState]
  /\ cluster \in [StepIds -> {"absent", "running", "terminating", "succeeded", "failed"}]
  /\ result \in [StepIds -> {"none", "valid", "invalid"}]
  /\ call \in [Workers -> Request]
  /\ tail \in [Workers -> TailState]

(* The call that holds the present version is the last that took the lease. *)
FreshOwner == \A w \in fresh : pc[w] \in HasCopy => task.owner \in {w, None}

(* The ledger row of a job: what inline tools can run into cannot happen.  *)
JobRow(id) ==
  /\ ledger[id].state # "failed"
  /\ ledger[id].attempt <= 1
  /\ ledger[id].result # "none" => id \in StepIds /\ result[id] = "valid"

JobRows == \A id \in DOMAIN ledger : ledger[id].tool \in JobTools => JobRow(id)

Starts(w) == pc[w] = "start" /\ IsJob(StepOf(w))

(* Who reserved the row of a job starts it, and nobody else does.          *)
StartsOnce ==
  /\ \A w \in Workers : Starts(w) => ledger[StepOf(w).id].attempt = 0
  /\ \A w \in Workers : pc[w] = "rearm" => ~IsJob(StepOf(w))
  /\ \A v, w \in Workers : Starts(v) /\ Starts(w) /\ StepOf(v).id = StepOf(w).id => v = w

Inside(w) == snap[w].step < Len(snap[w].plan)

(* Where a thread is with a job, and with which one.                       *)
Follows(w) ==
  /\ tail[w] = "requested" =>
       pc[w] = "call" /\ IsJob(StepOf(w)) /\ job[StepOf(w).id] # "absent"
  /\ tail[w] \notin {"none", "requested"} => pc[w] = "idle"
  /\ tail[w] \in {"lookup", "reconciling", "cancel_job"} => Inside(w)
  /\ tail[w] = "reconciling" <=> call[w].at # "idle"
  /\ tail[w] = "reconciling" => call[w].id = StepOf(w).id /\ call[w].state # "absent"

(* A call that says a job succeeded has seen its result.                   *)
SaysWhatItSaw(w) ==
  call[w].at \in {"record", "done"} /\ call[w].state = "succeeded" => result[call[w].id] = "valid"

(* Nobody advances the task while it waits.                                *)
WaitsStill ==
  task.state = "waiting_job" =>
    \A w \in Workers : task.owner = w => pc[w] \in {"idle", "release"}

JobInv ==
  /\ Kernel /\ StepsNumbered /\ JobsTyped /\ FreshOwner /\ JobRows /\ StartsOnce
  /\ \A w \in Workers : Follows(w) /\ SaysWhatItSaw(w)
  /\ WaitsStill /\ WaitingHasJob
-----------------------------------------------------------------------------
(* What the steps of AgentRuntime leave alone, beyond the frames of        *)
(* AgentRuntimeProofs.                                                     *)

SameRun ==
  /\ task'.plan = task.plan /\ task'.planVersion = task.planVersion
  /\ task'.state = "waiting_job" => task.state = "waiting_job"
  /\ (fresh' # {} \/ task'.state = "waiting_job") => task'.owner \in {task.owner, None}

LEMMA CasSame ==
  ASSUME RowOK, NEW w \in Workers, NEW row, CasAndExit(w, row),
         row.plan = task.plan, row.planVersion = task.planVersion, row.owner = task.owner,
         row.state = "waiting_job" => task.state = "waiting_job"
  PROVE  SameRun
  BY DEF SameRun, CasAndExit, Update, KeepRow

(* Only a replan revises the plan, no inline step makes a task wait, and   *)
(* the lease of a version that stays does not go to another worker.        *)
LEMMA RowFrame ==
  ASSUME Typed, [Next]_vars
  PROVE  SameRun \/ Revises
  <1> USE DEF Typed, RowOK, TaskRow, Update, StopStates, TerminalStates
  <1>1. ASSUME task' = task  PROVE SameRun
    BY <1>1 DEF SameRun
  <1>2. ASSUME NEW w \in Workers, Acquire(w)  PROVE SameRun
    BY <1>2 DEF Acquire, SameRun
  <1>3. ASSUME NEW w \in Workers, SafeControl(w)  PROVE SameRun
    BY <1>3, CasSame DEF SafeControl
  <1>4. ASSUME NEW w \in Workers, Gate(w)  PROVE SameRun
    <2>1. CASE ApprovalMissing(snap[w])
      <3> DEFINE row == [task EXCEPT !.state = "waiting_approval",
                                     !.approval = [step |-> StepOf(w), status |-> "requested"]]
      <3>1. /\ row.plan = task.plan /\ row.planVersion = task.planVersion
            /\ row.owner = task.owner /\ row.state = "waiting_approval"
        OBVIOUS
      <3>2. CasAndExit(w, row)
        BY <1>4, <2>1 DEF Gate
      <3> HIDE DEF row
      <3> QED  BY <3>1, <3>2, CasSame
    <2>2. CASE ~ApprovalMissing(snap[w])
      BY <1>1, <1>4, <2>2 DEF Gate, KeepRow
    <2> QED  BY <2>1, <2>2
  <1>5. ASSUME NEW w \in Workers, VerifyStep(w) \/ VerifyFinal(w)  PROVE SameRun
    <2> DEFINE refused(verdict) == [task EXCEPT !.state = verdict]
    <2>1. CASE task' = task
      BY <1>1, <2>1
    <2>2. CASE \E verdict \in {"verification_failed", "verification_blocked"} :
                 CasAndExit(w, refused(verdict))
      <3>1. PICK verdict \in {"verification_failed", "verification_blocked"} :
              CasAndExit(w, refused(verdict))
        BY <2>2
      <3> QED  BY <3>1, CasSame
    <2>3. QED
      BY <1>5, <2>1, <2>2 DEF VerifyStep, VerifyFinal, VerifyPasses, VerifyRefuses, KeepRow
  <1>6. ASSUME NEW w \in Workers, Succeed(w)  PROVE SameRun
    BY <1>6, CasSame DEF Succeed
  <1>7. ASSUME NEW w \in Workers, Fail(w)  PROVE SameRun
    BY <1>7, CasSame DEF Fail
  <1>8. ASSUME NEW w \in Workers, RequireReconciliation(w)  PROVE SameRun
    BY <1>8, CasSame DEF RequireReconciliation
  <1>9. ASSUME NEW w \in Workers, Checkpoint(w)  PROVE SameRun
    BY <1>9 DEF Checkpoint, Advanced, KeepRow, SameRun
  <1>10. ASSUME NEW w \in Workers, Heartbeat(w)  PROVE SameRun
    BY <1>10 DEF Heartbeat, SameRun
  <1>11. ASSUME NEW w \in Workers, Release(w)  PROVE SameRun
    BY <1>11 DEF Release, SameRun
  <1>12. ASSUME LeaseExpires  PROVE SameRun
    BY <1>12 DEF LeaseExpires, SameRun
  <1>13. ASSUME NEW leased \in LeaseReadings, Pause(leased)  PROVE SameRun
    BY <1>13 DEF Pause, Pausable, SameRun
  <1>14. ASSUME NEW leased \in LeaseReadings, Cancel(leased)  PROVE SameRun
    BY <1>14 DEF Cancel, SameRun
  <1>15. ASSUME Resume \/ Retry \/ RetryVerification  PROVE SameRun
    BY <1>15 DEF Resume, Retry, RetryVerification, Reopened, SameRun
  <1>16. ASSUME NEW approved \in BOOLEAN, Approve(approved)  PROVE SameRun
    BY <1>16 DEF Approve, SameRun
  <1> QED
    BY <1>1, <1>2, <1>3, <1>4, <1>5, <1>6, <1>7, <1>8, <1>9, <1>10, <1>11, <1>12, <1>13, <1>14,
       <1>15, <1>16
    DEF Next, RunStep, ToolStep, Control, vars, Revises, Loop, ReadVersion, KeepRow, Refuse,
        PlanCompleted, Reserve, Rearm, Condemn, StartAttempt, RetryAttempt, CallSucceeds, CallFails,
        ResultTooLarge, ToolRaises, Reread, Crash, Interrupt

(* A worker that has a copy of the present version took it before, or has  *)
(* just read the row that it holds the lease of.                           *)
LEMMA FreshFrame ==
  ASSUME Typed, [Next]_vars, NEW v \in fresh', pc'[v] \in HasCopy
  PROVE  (v \in fresh /\ pc[v] \in HasCopy) \/ task.owner = v
  <1> DEFINE Before == (v \in fresh /\ pc[v] \in HasCopy) \/ task.owner = v
  <1> USE DEF Typed, RowOK, LocalsOK, Goto, Update, HasCopy, Working
  <1>1. CASE fresh' = fresh /\ pc' = pc
    BY <1>1
  <1>2. ASSUME NEW w \in Workers, Acquire(w)  PROVE Before
    BY <1>2 DEF Acquire
  <1>3. ASSUME NEW w \in Workers, Loop(w)  PROVE Before
    BY <1>3 DEF Loop, ReadVersion, KeepRow, Exit
  <1>4. ASSUME NEW w \in Workers, SafeControl(w) \/ Gate(w) \/ Succeed(w) \/ Fail(w) \/ RequireReconciliation(w)
        PROVE Before
    BY <1>4 DEF SafeControl, Gate, Succeed, Fail, RequireReconciliation, CasAndExit, Exit, KeepRow
  <1>5. ASSUME NEW w \in Workers, VerifyStep(w) \/ VerifyFinal(w)  PROVE Before
    BY <1>5 DEF VerifyStep, VerifyFinal, VerifyPasses, VerifyRefuses, CasAndExit, Exit, KeepRow
  <1>6. ASSUME NEW w \in Workers, Refuse(w) \/ PlanCompleted(w) \/ ToolStep(w)  PROVE Before
    BY <1>6 DEF Refuse, PlanCompleted, ToolStep, Reserve, Rearm, Condemn, StartAttempt, RetryAttempt,
                CallSucceeds, CallFails, ResultTooLarge, ToolRaises
  <1>7. ASSUME NEW w \in Workers, Checkpoint(w) \/ Reread(w) \/ Release(w) \/ Crash(w) \/ Interrupt(w)
        PROVE Before
    BY <1>7 DEF Checkpoint, Reread, ReadVersion, Release, Crash, Forget, Interrupt, Exit, KeepRow
  <1>8. CASE Control
    BY <1>8 DEF Control, Pause, Cancel, Resume, Retry, RetryVerification, Approve, Replan
  <1> QED
    BY <1>1, <1>2, <1>3, <1>4, <1>5, <1>6, <1>7, <1>8
    DEF Next, RunStep, vars, Heartbeat, LeaseExpires

(* A copy of the row is kept, taken again, or dropped.                     *)
LEMMA CopyFrame ==
  ASSUME Typed, [Next]_vars, NEW v \in Workers
  PROVE  snap'[v] \in {snap[v], NoCopy, Copy(task)}
  <1>1. CASE Rests(v)
    BY <1>1 DEF Rests
  <1>2. CASE Moves(v)
    BY <1>2 DEF Moves, RunStep, ToolStep, Typed, LocalsOK,
       Acquire, Loop, SafeControl, Refuse, PlanCompleted, Gate, CasAndExit, Exit, Reserve, Rearm,
       Condemn, StartAttempt, RetryAttempt, CallSucceeds, CallFails, ResultTooLarge, ToolRaises,
       VerifyStep, VerifyFinal, VerifyPasses, VerifyRefuses, Succeed, Checkpoint, Reread, Fail,
       RequireReconciliation, Release, Forget, Crash, Interrupt, DropLocals, KeepLocals
  <1> QED  BY <1>1, <1>2, OwnMove

(* A step of one call is no step of another.                               *)
LEMMA OthersRest ==
  ASSUME Typed, NEW w \in Workers, Acquire(w) \/ RunStep(w) \/ Interrupt(w),
         NEW v \in Workers, v # w
  PROVE  Rests(v)
  <1> USE DEF Rests, Typed, LocalsOK, Goto, Exit, DropLocals, KeepLocals, CasAndExit
  <1>1. CASE Acquire(w) \/ Interrupt(w)
    BY <1>1 DEF Acquire, Interrupt
  <1>2. CASE Loop(w) \/ SafeControl(w) \/ Refuse(w) \/ PlanCompleted(w) \/ Gate(w)
    BY <1>2 DEF Loop, SafeControl, Refuse, PlanCompleted, Gate
  <1>3. CASE ToolStep(w)
    BY <1>3 DEF ToolStep, Reserve, Rearm, Condemn, StartAttempt, RetryAttempt, CallSucceeds, CallFails,
                ResultTooLarge, ToolRaises
  <1>4. CASE VerifyStep(w) \/ VerifyFinal(w) \/ Succeed(w) \/ Checkpoint(w)
    BY <1>4 DEF VerifyStep, VerifyFinal, VerifyPasses, VerifyRefuses, Succeed, Checkpoint
  <1>5. CASE Reread(w) \/ Fail(w) \/ RequireReconciliation(w) \/ Release(w)
    BY <1>5 DEF Reread, Fail, RequireReconciliation, Release, Forget
  <1> QED
    BY <1>1, <1>2, <1>3, <1>4, <1>5 DEF RunStep

(* Of the workers of a task that waits, the one with the lease is leaving. *)
LEMMA LeavingFrame ==
  ASSUME Typed, [Next]_vars, NEW v \in Workers, pc[v] \in {"idle", "release"},
         task.state = "waiting_job"
  PROVE  pc'[v] \in {"idle", "release"}
  <1>1. CASE Rests(v)
    BY <1>1 DEF Rests
  <1>2. CASE Moves(v)
    BY <1>2 DEF Moves, RunStep, ToolStep, Typed, LocalsOK, StopStates, Goto,
       Acquire, Loop, SafeControl, Refuse, PlanCompleted, Gate, Reserve, Rearm,
       Condemn, StartAttempt, RetryAttempt, CallSucceeds, CallFails, ResultTooLarge, ToolRaises,
       VerifyStep, VerifyFinal, Succeed, Checkpoint, Reread, Fail,
       RequireReconciliation, Release, Forget, Crash, Interrupt
  <1> QED  BY <1>1, <1>2, OwnMove
-----------------------------------------------------------------------------
(* What the invariant of AgentRuntime says of a result in the ledger.      *)

LEMMA KernelStep == Kernel /\ [Next]_vars => Kernel'
  BY TypedStep, StepBoundStep, StepInPlanStep, FreshCopyStep, OwnerPlanStep, HasRowStep,
     ResultFirstStep, CheckpointHasResultStep
  DEF Kernel, StepBound

(* A thread takes or drops a copy, or leaves run(), and may write the state of the row. *)
LEMMA KernelLeaves ==
  ASSUME Kernel, NEW w \in Workers, NEW phase \in Phases \ HasCopy, NEW copy \in TaskRow, NEW n \in Nat,
         NEW state \in TaskStates,
         pc' = [pc EXCEPT ![w] = phase],
         snap' = [snap EXCEPT ![w] = copy],
         att' = [att EXCEPT ![w] = n],
         UNCHANGED <<ledger, passed, granted>>,
         \/ UNCHANGED <<task, wasLeased>> /\ fresh' \subseteq fresh \cup {w}
         \/ Update([task EXCEPT !.state = state])
  PROVE  Kernel'
  <1> USE DEF Kernel, Typed, RowOK, LocalsOK
  <1>1. /\ task'.plan = task.plan /\ task'.step = task.step /\ task'.strict = task.strict
        /\ task'.owner = task.owner
        /\ task' = task \/ fresh' = {}
    BY DEF Update, TaskRow
  <1>2. \A v \in Workers : pc'[v] \in HasCopy => v # w /\ pc[v] = pc'[v] /\ snap'[v] = snap[v]
    OBVIOUS
  <1>3. Typed'
    <2>1. RowOK'
      BY UpdateType DEF TaskRow, Update
    <2>2. LocalsOK'
      OBVIOUS
    <2> QED  BY <2>1, <2>2 DEF LedgerOK, LogOK
  <1>4. StepBound'
    BY <1>1 DEF StepBound
  <1>5. StepInPlan'
    BY <1>2 DEF StepInPlan, HasCopy
  <1>6. FreshCopy'
    <2>1. CASE fresh' = {}
      BY <2>1 DEF FreshCopy
    <2>2. CASE task' = task /\ fresh' \subseteq fresh \cup {w}
      <3>1. \A v \in fresh' : v \in Workers /\ (v # w => v \in fresh)
        BY <2>2
      <3> QED  BY <1>2, <2>2, <3>1 DEF FreshCopy
    <2> QED  BY <2>1, <2>2 DEF Update
  <1>7. OwnerPlan'
    BY <1>1, <1>2 DEF OwnerPlan
  <1>8. HasRow' /\ ResultFirst'
    <2>1. \A v \in Workers : pc'[v] \in Working => pc[v] = pc'[v] /\ StepOf(v)' = StepOf(v)
      BY <1>2 DEF HasCopy, StepOf
    <2> QED  BY <2>1 DEF HasRow, ResultFirst, Working
  <1>9. CheckpointHasResult'
    BY <1>1 DEF CheckpointHasResult
  <1> QED
    BY <1>3, <1>4, <1>5, <1>6, <1>7, <1>8, <1>9

(* A row of the ledger is written, and a worker may turn away from its step. *)
LEMMA KernelFinishes ==
  ASSUME Kernel, NEW w \in Workers, NEW phase \in Phases \ HasCopy, NEW s,
         NEW state \in {"succeeded", "reconciliation_required"}, NEW outcome \in {"none", "succeeded"},
         FinishToolRun(s, state, outcome), Goto(w, phase),
         UNCHANGED <<task, fresh, wasLeased, passed, granted, snap, att>>
  PROVE  Kernel'
  <1> USE DEF Kernel, Typed, LocalsOK
  <1>1. LedgerGrows
    BY FinishGrows
  <1>2. \A v \in Workers : pc'[v] \in HasCopy => pc[v] = pc'[v] /\ StepOf(v)' = StepOf(v)
    BY DEF Goto, StepOf
  <1>3. Typed'
    BY FinishType, GotoType DEF RowOK, LogOK
  <1>4. StepBound' /\ FreshCopy' /\ OwnerPlan'
    BY <1>2 DEF StepBound, FreshCopy, OwnerPlan, RowOK
  <1>5. StepInPlan'
    BY <1>2 DEF StepInPlan, HasCopy
  <1>6. HasRow'
    BY <1>1, <1>2 DEF HasRow, LedgerGrows, HasCopy, Working
  <1>7. ResultFirst'
    BY <1>1, <1>2 DEF ResultFirst, HasRow, LedgerGrows, HasCopy, Working
  <1>8. CheckpointHasResult'
    BY <1>1 DEF CheckpointHasResult, LedgerGrows
  <1> QED
    BY <1>3, <1>4, <1>5, <1>6, <1>7, <1>8

(* A job is reserved as any other step, but for where an error leads.      *)
LEMMA KernelReserves ==
  ASSUME Kernel, NEW w \in Workers, ReserveJob(w)
  PROVE  Kernel'
  <1> USE DEF Kernel, Typed, LocalsOK
  <1> DEFINE s == StepOf(w)
  <1>1. pc[w] = "reserve" /\ s \in Step
    BY StepOfType DEF ReserveJob, Working
  <1>2. PICK phase \in {"start", "verify", "checkpoint", "rearm", "condemn", "fail"} :
          /\ Goto(w, phase)
          /\ \/ /\ s.id \in DOMAIN ledger /\ UNCHANGED ledger
                /\ phase # "fail" => ledger[s.id].tool = s.tool
                /\ phase \in {"verify", "checkpoint"} => ledger[s.id].result # "none"
             \/ /\ s.id \notin DOMAIN ledger /\ phase = "start"
                /\ ledger' = [id \in DOMAIN ledger \cup {s.id} |->
                                IF id = s.id THEN NewRun(s.tool) ELSE ledger[id]]
    <2>1. CASE s.id \in DOMAIN ledger
      <3> DEFINE phase == JobReserveOutcome(w, s)
      <3>1. /\ phase \in {"start", "verify", "checkpoint", "rearm", "condemn", "fail"}
            /\ phase # "fail" => ledger[s.id].tool = s.tool
            /\ phase \in {"verify", "checkpoint"} => ledger[s.id].result # "none"
        BY DEF JobReserveOutcome, ReserveOutcome, AfterResult, Hidden, Cached
      <3>2. Goto(w, phase) /\ UNCHANGED ledger
        BY <2>1 DEF ReserveJob
      <3> HIDE DEF phase
      <3> QED  BY <2>1, <3>1, <3>2
    <2>2. CASE s.id \notin DOMAIN ledger
      BY <2>2 DEF ReserveJob
    <2> QED  BY <2>1, <2>2
  <1>3. LedgerGrows
    BY <1>2 DEF LedgerGrows
  <1>4. /\ snap' = snap /\ att' = att /\ UNCHANGED <<task, fresh, wasLeased, passed, granted>>
        /\ pc' = [pc EXCEPT ![w] = phase]
    BY <1>2 DEF ReserveJob, Goto
  <1>5. \A v \in Workers : StepOf(v)' = StepOf(v) /\ (v # w => pc'[v] = pc[v])
    BY <1>4 DEF StepOf
  <1>6. Typed'
    <2>1. LedgerOK'
      BY <1>1, <1>2, BoundsAssumption DEF LedgerOK, NewRun, ToolRun, Step
    <2>2. LocalsOK'
      BY <1>4 DEF Phases
    <2> QED  BY <1>4, <2>1, <2>2 DEF RowOK, LogOK
  <1>7. StepBound' /\ FreshCopy' /\ OwnerPlan'
    BY <1>1, <1>4 DEF StepBound, FreshCopy, OwnerPlan, HasCopy, Working
  <1>8. StepInPlan'
    BY <1>1, <1>4 DEF StepInPlan, Working
  <1>9. HasRow'
    <2> SUFFICES ASSUME NEW v \in Workers, pc'[v] \in Working \ {"reserve"}
                 PROVE  StepOf(v).id \in DOMAIN ledger' /\ ledger'[StepOf(v).id].tool = StepOf(v).tool
      BY <1>5 DEF HasRow
    <2>1. CASE v = w
      BY <1>2, <1>4, <2>1 DEF NewRun, Working
    <2>2. CASE v # w
      BY <1>3, <1>5, <2>2 DEF HasRow, LedgerGrows
    <2> QED  BY <2>1, <2>2
  <1>10. ResultFirst'
    <2> SUFFICES ASSUME NEW v \in Workers, pc'[v] \in {"verify", "checkpoint"}
                 PROVE  ledger'[StepOf(v).id].result # "none"
      BY <1>5 DEF ResultFirst
    <2>1. CASE v = w
      BY <1>2, <1>4, <2>1
    <2>2. CASE v # w
      BY <1>3, <1>5, <2>2 DEF HasRow, ResultFirst, LedgerGrows, Working
    <2> QED  BY <2>1, <2>2
  <1>11. CheckpointHasResult'
    BY <1>3, <1>4 DEF CheckpointHasResult, LedgerGrows
  <1> QED
    BY <1>6, <1>7, <1>8, <1>9, <1>10, <1>11
-----------------------------------------------------------------------------
(* The steps of a plan have the numbers that may become a job.             *)

LEMMA NumberedStep ==
  ASSUME StepsNumbered, LocalsOK, NEW w \in Workers, Inside(w)
  PROVE  StepOf(w).id \in StepIds
  <1>1. snap[w].step + 1 \in DOMAIN snap[w].plan
    BY DEF Inside, LocalsOK, TaskRow
  <1> QED  BY <1>1 DEF StepsNumbered, Numbered, StepOf

LEMMA NumberedCopy ==
  ASSUME RowOK, StepsNumbered
  PROVE  Numbered(Copy(task)) /\ Numbered(NoCopy)
  <1>1. Copy(task).plan = task.plan
    BY CopyFields DEF RowOK
  <1>2. NoCopy.plan = << >>
    BY DEF NoCopy, NewTask
  <1>3. Numbered(NoCopy)
    BY <1>2, BoundsAssumption DEF Numbered
  <1> QED  BY <1>1, <1>3 DEF Numbered, StepsNumbered

LEMMA NumberedStart == Init => StepsNumbered
  <1> SUFFICES ASSUME Init  PROVE StepsNumbered
    OBVIOUS
  <1>1. PICK draft \in Drafts, strict \in BOOLEAN :
          task = NewTask(Steps(draft, FreshIds(Len(draft), 1, 0)), strict)
    BY DEF Init
  <1>2. PICK n \in 1..MaxSteps : draft \in [1..n -> Tools \X SUBSET Criteria]
    BY DEF Drafts
  <1>3. n \in Nat /\ Len(draft) = n /\ DOMAIN draft = 1..n
    BY <1>2, BoundsAssumption
  <1> DEFINE plan == Steps(draft, FreshIds(Len(draft), 1, 0))
  <1>4. plan \in Seq(Step) /\ Len(plan) = n
    <2>1. FreshIds(Len(draft), 1, 0) \in [1..Len(draft) -> Id]
      BY <1>3, FreshIdsType
    <2> QED  BY <1>3, <2>1, StepsType
  <1>5. ASSUME NEW i \in 1..n  PROVE plan[i].id \in StepIds
    <2>1. plan[i].id = FreshIds(n, 1, 0)[i]
      BY <1>3, <1>5 DEF Steps
    <2>2. FreshIds(n, 1, 0)[i] = <<1, 0 + i>>
      BY <1>5 DEF FreshIds
    <2> QED  BY <2>1, <2>2, <1>2, <1>5, BoundsAssumption DEF StepIds
  <1>6. task.plan = plan /\ task.planVersion = 1
    BY <1>1 DEF NewTask
  <1> HIDE DEF plan
  <1>7. Numbered(task)
    BY <1>2, <1>4, <1>5, <1>6, BoundsAssumption DEF Numbered
  <1>8. NoCopy.plan = << >> /\ \A w \in Workers : snap[w] = NoCopy
    BY DEF NoCopy, NewTask, Init
  <1> QED
    BY <1>6, <1>7, <1>8, BoundsAssumption DEF StepsNumbered, Numbered

(* A replan numbers new steps by its version and their place in the plan.  *)
LEMMA NumberedRevision ==
  ASSUME Typed, StepBound, StepsNumbered, Revises
  PROVE  Numbered(task') /\ task'.planVersion <= MaxPlanVersion
  <1>1. PICK draft \in Drafts : \E ids \in ReplanIds(task, Len(draft)) : Replan(draft, ids)
    BY DEF Revises
  <1>2. PICK ids \in ReplanIds(task, Len(draft)) : Replan(draft, ids)
    BY <1>1
  <1> DEFINE suffix == Steps(draft, ids)
             plan == Revised(task, suffix)
             n == Len(draft)
  <1>3. /\ n \in Nat \ {0} /\ DOMAIN draft = 1..n
        /\ suffix \in Seq(Step) /\ Len(suffix) = n
    <2>1. PICK m \in 1..MaxSteps : draft \in [1..m -> Tools \X SUBSET Criteria]
      BY DEF Drafts
    <2>2. n \in Nat \ {0} /\ DOMAIN draft = 1..n
      BY <2>1, DraftLen, BoundsAssumption
    <2>3. ids \in [1..n -> Id]
      BY <2>2, ReplanIdsType DEF Typed
    <2> QED  BY <2>2, <2>3, StepsType
  <1>4. /\ plan \in Seq(Step) /\ Len(plan) = task.step + n
        /\ \A i \in 1..task.step : plan[i] = task.plan[i]
    BY <1>3, RevisedType DEF Typed, RowOK, StepBound
  <1>5. /\ task' = Replanned(task, plan) /\ Len(plan) <= MaxSteps
        /\ task.planVersion < MaxPlanVersion
    BY <1>2 DEF Replan, Update, WellFormed
  <1>6. \A j \in 1..n : suffix[j].id = ids[j]
    BY <1>3 DEF Steps
  <1> HIDE DEF suffix, plan
  <1>7. task.step \in Nat /\ task.plan \in Seq(Step) /\ task.planVersion \in Nat
    BY DEF Typed, RowOK, TaskRow
  <1>8. ASSUME NEW j \in 1..n  PROVE ids[j] \in StepIds
    <2> DEFINE new == FreshIds(n, task.planVersion + 1, task.step)
    <2>1. ids[j] \in {task.plan[i].id : i \in DOMAIN task.plan} \cup {new[i] : i \in 1..n}
      BY <1>8 DEF ReplanIds
    <2>2. \A i \in DOMAIN task.plan : task.plan[i].id \in StepIds
      BY DEF StepsNumbered, Numbered
    <2>3. \A i \in 1..n : new[i] = <<task.planVersion + 1, task.step + i>>
      BY DEF FreshIds
    <2>4. \A i \in 1..n : task.planVersion + 1 \in 1..MaxPlanVersion /\ task.step + i \in 1..MaxSteps
      BY <1>3, <1>4, <1>5, <1>7, BoundsAssumption
    <2>5. \A i \in 1..n : <<task.planVersion + 1, task.step + i>> \in StepIds
      BY <2>4 DEF StepIds
    <2> HIDE DEF new
    <2> QED  BY <2>1, <2>2, <2>3, <2>5
  <1>9. ASSUME NEW j \in 1..n  PROVE plan[task.step + j] = suffix[j]
    <2> DEFINE old == task.plan
    <2>1. old \in Seq(Step) /\ task.step <= Len(old)
      BY <1>7 DEF StepBound
    <2> HIDE DEF old
    <2>2. (SubSeq(old, 1, task.step) \o suffix)[task.step + j] = suffix[j]
      BY <1>3, <1>7, <1>9, <2>1
    <2> QED  BY <2>2 DEF Revised, old, plan
  <1>10. ASSUME NEW i \in DOMAIN plan  PROVE plan[i].id \in StepIds
    <2>1. CASE i <= task.step
      BY <1>4, <1>7, <1>10, <2>1 DEF StepsNumbered, Numbered, StepBound
    <2>2. CASE i > task.step
      <3> DEFINE j == i - task.step
      <3>1. j \in 1..n /\ i = task.step + j
        BY <1>3, <1>4, <1>7, <1>10, <2>2
      <3> QED  BY <3>1, <1>6, <1>8, <1>9
    <2> QED  BY <1>4, <1>7, <1>10, <2>1, <2>2
  <1>11. task'.plan = plan /\ task'.planVersion = task.planVersion + 1
    BY <1>5 DEF Replanned, Typed, RowOK, TaskRow
  <1> QED
    BY <1>5, <1>7, <1>10, <1>11, BoundsAssumption DEF Numbered
-----------------------------------------------------------------------------
(* What no step of the job service takes back.                             *)

JobGrows ==
  \A id \in StepIds :
    /\ job[id] # "absent" => job'[id] # "absent"
    /\ result[id] = "valid" => result'[id] = "valid"

(* The calls of reconcile and the cluster change rows and results only.    *)
LEMMA ServiceMoves ==
  ASSUME JobInv, \/ \E w \in Workers : BackendStep(w)
                 \/ \E id \in StepIds : J!ClusterStep(id) /\ UNCHANGED <<vars, tail>>
  PROVE  JobsTyped' /\ JobGrows
  <1> USE DEF JobInv, JobsTyped, Request, JobState, JobGrows
  <1>1. ASSUME NEW w \in Workers, J!ReconcileStep(w) \/ J!Escape(w), tail' = tail
        PROVE  JobsTyped' /\ JobGrows
    <2> USE DEF J!At, J!Goto, J!Observed
    <2>1. CASE J!Submit(w)
      BY <1>1, <2>1 DEF J!Submit
    <2>2. CASE J!Delete(w)
      BY <1>1, <2>2 DEF J!Delete
    <2>3. CASE J!Observe(w)
      BY <1>1, <2>3 DEF J!Observe, J!AfterComplete
    <2>4. CASE J!ReadResult(w)
      BY <1>1, <2>4 DEF J!ReadResult
    <2>5. CASE J!Record(w)
      <3>1. call[w].at = "record" /\ call[w].state # "absent"
        BY <2>5 DEF J!Record, Follows
      <3> QED  BY <1>1, <2>5, <3>1 DEF J!Record
    <2>6. CASE J!Escape(w)
      BY <1>1, <2>6 DEF J!Escape
    <2> QED  BY <1>1, <2>1, <2>2, <2>3, <2>4, <2>5, <2>6 DEF J!ReconcileStep
  <1>2. ASSUME NEW id \in StepIds, J!ClusterStep(id), tail' = tail
        PROVE  JobsTyped' /\ JobGrows
    BY <1>2 DEF J!ClusterStep, J!PodWrites, J!PodEnds, J!JobRemoved
  <1> QED
    BY <1>1, <1>2 DEF BackendStep

(* A thread that is left alone is where it was with its job.               *)
LEMMA FollowsOn ==
  ASSUME JobInv, JobGrows, NEW v \in Workers,
         pc'[v] = pc[v], snap'[v] = snap[v], tail'[v] = tail[v], call'[v] = call[v]
  PROVE  (Follows(v) /\ SaysWhatItSaw(v))'
  <1> USE DEF JobInv, Kernel, Typed
  <1>1. StepOf(v)' = StepOf(v) /\ Inside(v)' = Inside(v)
    BY DEF StepOf, Inside
  <1>2. Inside(v) => StepOf(v).id \in StepIds
    BY NumberedStep
  <1>3. tail[v] \in {"requested", "reconciling"} => Inside(v)
    BY DEF Follows, StepInPlan, Working, Inside
  <1>4. Follows(v)'
    BY <1>1, <1>2, <1>3 DEF Follows, JobGrows, IsJob
  <1>5. SaysWhatItSaw(v)'
    BY <1>2, <1>3 DEF SaysWhatItSaw, Follows, JobGrows
  <1> QED  BY <1>4, <1>5
-----------------------------------------------------------------------------
(* The steps of AgentRuntime.                                              *)

(* What they leave of the invariant, whoever takes them.                   *)
LEMMA RuntimeKeeps ==
  ASSUME JobInv, [Next]_vars, UNCHANGED job
  PROVE  Kernel' /\ StepsNumbered' /\ FreshOwner' /\ WaitsStill' /\ WaitingHasJob'
  <1> USE DEF JobInv, Kernel
  <1>1. Kernel'
    BY KernelStep
  <1>2. SameRun \/ Revises
    BY RowFrame
  <1>3. StepsNumbered'
    <2>1. Numbered(task') /\ task'.planVersion <= MaxPlanVersion
      BY <1>2, NumberedRevision DEF SameRun, StepsNumbered, Numbered
    <2>2. ASSUME NEW v \in Workers  PROVE Numbered(snap'[v])
      BY CopyFrame, NumberedCopy DEF StepsNumbered, Typed
    <2> QED  BY <2>1, <2>2 DEF StepsNumbered, Numbered
  <1>4. FreshOwner'
    <2> SUFFICES ASSUME NEW v \in fresh', pc'[v] \in HasCopy
                 PROVE  task'.owner \in {v, None}
      BY DEF FreshOwner
    <2>1. task.owner \in {v, None}
      BY FreshFrame DEF FreshOwner
    <2>2. CASE SameRun
      BY <2>1, <2>2 DEF SameRun
    <2>3. CASE Revises
      BY <2>3 DEF Revises, Replan, Update
    <2> QED  BY <1>2, <2>2, <2>3
  <1>5. ASSUME task'.state = "waiting_job"
        PROVE  task.state = "waiting_job" /\ SameRun
    BY <1>2, <1>5, RevisesEffect DEF SameRun
  <1>6. WaitsStill'
    <2> SUFFICES ASSUME task'.state = "waiting_job", NEW v \in Workers, task'.owner = v
                 PROVE  pc'[v] \in {"idle", "release"}
      BY DEF WaitsStill
    <2>1. task.owner = v
      BY <1>5, NoneAssumption DEF SameRun
    <2> QED  BY <1>5, <2>1, LeavingFrame DEF WaitsStill
  <1>7. WaitingHasJob'
    <2> SUFFICES ASSUME task'.state = "waiting_job"  PROVE (~PlanDone(task) /\ job[CurrentId] # "absent")'
      BY DEF WaitingHasJob
    <2>1. ~Advances /\ ~Revises
      BY <1>5, AdvancesEffect, RevisesEffect DEF Advances, MayCheckpoint, WaitsStill
    <2>2. PlanKept
      BY <2>1, PlanFrame
    <2> QED  BY <1>5, <2>2 DEF WaitingHasJob, PlanKept, PlanDone, CurrentId
  <1> QED
    BY <1>1, <1>3, <1>4, <1>6, <1>7

(* Rows of jobs, and workers about to start one. *)
SameJobRows ==
  \A id \in DOMAIN ledger' :
    ledger'[id].tool \in JobTools => id \in DOMAIN ledger /\ ledger'[id] = ledger[id]

NoNewStart ==
  \A v \in Workers :
    pc'[v] \in {"start", "rearm"} /\ IsJob(StepOf(v)') => pc[v] = pc'[v] /\ StepOf(v)' = StepOf(v)

LEMMA JobRowsKept ==
  ASSUME JobInv, SameJobRows, NoNewStart, JobGrows, Kernel'
  PROVE  JobRows' /\ StartsOnce'
  <1> USE DEF JobInv
  <1>1. JobRows'
    BY DEF JobRows, JobRow, SameJobRows, JobGrows
  <1>2. \A v \in Workers : Starts(v)' => Starts(v) /\ StepOf(v)' = StepOf(v)
    BY DEF Starts, NoNewStart, IsJob
  <1>3. ASSUME NEW v \in Workers, Starts(v)'  PROVE ledger'[StepOf(v)'.id] = ledger[StepOf(v).id]
    <2>1. StepOf(v)' = StepOf(v) /\ StepOf(v).tool \in JobTools /\ pc'[v] \in Working \ {"reserve"}
      BY <1>2, <1>3 DEF Starts, IsJob, Working
    <2>2. StepOf(v).id \in DOMAIN ledger' /\ ledger'[StepOf(v).id].tool = StepOf(v).tool
      BY <2>1 DEF Kernel, HasRow
    <2> QED  BY <2>1, <2>2 DEF SameJobRows
  <1>4. \A v \in Workers : pc'[v] = "rearm" => ~IsJob(StepOf(v)')
    BY DEF NoNewStart, StartsOnce
  <1>5. StartsOnce'
    BY <1>2, <1>3, <1>4 DEF StartsOnce, IsJob
  <1> QED  BY <1>1, <1>5

(* A call that is not inside a job step touches no row of a job.           *)
LEMMA InlineSteps ==
  ASSUME JobInv, NEW w \in Workers, RuntimeStep(w)
  PROVE  SameJobRows /\ NoNewStart
  <1> USE DEF JobInv, Kernel
  <1>1. Acquire(w) \/ RunStep(w) \/ Interrupt(w)
    BY DEF RuntimeStep
  <1>2. pc[w] \in {"rearm", "condemn", "start", "call"} =>
          /\ StepOf(w).id \in DOMAIN ledger
          /\ ledger[StepOf(w).id].tool = StepOf(w).tool /\ StepOf(w).tool \notin JobTools
    BY DEF RuntimeStep, InJobBranch, IsJob, HasRow, Working
  <1>3. pc[w] = "reserve" => StepOf(w).tool \notin JobTools
    BY DEF RuntimeStep, InJobBranch, IsJob
  <1>4. SameJobRows
    <2>1. CASE UNCHANGED ledger
      BY <2>1 DEF SameJobRows
    <2>2. CASE Reserve(w)
      BY <1>3, <2>2 DEF Reserve, SameJobRows, NewRun
    <2>3. CASE Rearm(w) \/ StartAttempt(w) \/ Condemn(w) \/ CallSucceeds(w) \/ CallFails(w) \/ ResultTooLarge(w)
      <3>1. pc[w] \in {"rearm", "condemn", "start", "call"}
        BY <2>3 DEF Rearm, StartAttempt, Condemn, CallSucceeds, CallFails, ResultTooLarge
      <3>2. \A id \in DOMAIN ledger : id # StepOf(w).id => ledger'[id] = ledger[id]
        BY <2>3 DEF Rearm, StartAttempt, Condemn, CallSucceeds, CallFails, ResultTooLarge, FinishToolRun
      <3>3. DOMAIN ledger' = DOMAIN ledger
        BY <2>3 DEF Rearm, StartAttempt, Condemn, CallSucceeds, CallFails, ResultTooLarge, FinishToolRun
      <3>4. ledger'[StepOf(w).id].tool = ledger[StepOf(w).id].tool
        <4>1. LedgerGrows
          BY <2>3, LedgerFrame DEF Next, RunStep, ToolStep
        <4> QED  BY <1>2, <3>1, <4>1 DEF LedgerGrows
      <3> QED  BY <1>2, <3>1, <3>2, <3>3, <3>4 DEF SameJobRows
    <2> QED
      BY <1>1, <2>1, <2>2, <2>3
      DEF RunStep, ToolStep, Acquire, Loop, SafeControl, Refuse, PlanCompleted,
          Gate, RetryAttempt, ToolRaises, VerifyStep, VerifyFinal, Succeed, Checkpoint, Reread, Fail,
          RequireReconciliation, Release, Interrupt
  <1>5. NoNewStart
    <2> SUFFICES ASSUME NEW v \in Workers, pc'[v] \in {"start", "rearm"}, IsJob(StepOf(v)')
                 PROVE  pc[v] = pc'[v] /\ StepOf(v)' = StepOf(v)
      BY DEF NoNewStart
    <2>1. StepOf(v)' = StepOf(v)
      <3>1. [Next]_vars
        BY <1>1 DEF Next
      <3> QED  BY <3>1, CopyKept DEF HasCopy, Working, StepOf
    <2>2. CASE v # w
      BY <1>1, <2>1, <2>2, OthersRest DEF Rests
    <2>3. CASE v = w
      <3>1. ~(pc[w] \in {"reserve", "rearm", "condemn", "start", "call"})
        BY <2>1, <2>3 DEF RuntimeStep, InJobBranch, IsJob
      <3> QED
        BY <1>1, <2>3, <3>1
        DEF Typed, LocalsOK, Goto, AfterResult,
            RunStep, ToolStep, Acquire, Loop, SafeControl, Refuse, PlanCompleted, Gate, CasAndExit, Exit,
            Reserve, Rearm, Condemn, StartAttempt, RetryAttempt, CallSucceeds, CallFails, ResultTooLarge,
            ToolRaises, VerifyStep, VerifyFinal, VerifyPasses, VerifyRefuses, Succeed, Checkpoint, Reread,
            Fail, RequireReconciliation, Release, Forget, Interrupt
    <2> QED  BY <2>2, <2>3
  <1> QED  BY <1>4, <1>5

(* A step of run() that is not about a job.                                *)
LEMMA RuntimeStepInv ==
  ASSUME JobInv, NEW w \in Workers, RuntimeStep(w)
  PROVE  JobInv'
  <1> USE DEF JobInv, Kernel
  <1>1. /\ Acquire(w) \/ RunStep(w) \/ Interrupt(w)
        /\ tail[w] = "none" /\ UNCHANGED <<job, cluster, result, call, tail>>
    BY DEF RuntimeStep, jobVars
  <1>2. [Next]_vars /\ JobGrows
    BY <1>1 DEF Next, JobGrows
  <1>3. Kernel' /\ StepsNumbered' /\ FreshOwner' /\ WaitsStill' /\ WaitingHasJob'
    BY <1>1, <1>2, RuntimeKeeps
  <1>4. JobRows' /\ StartsOnce'
    BY <1>2, <1>3, InlineSteps, JobRowsKept
  <1>5. JobsTyped'
    BY <1>1 DEF JobsTyped
  <1>6. ASSUME NEW v \in Workers  PROVE (Follows(v) /\ SaysWhatItSaw(v))'
    <2>1. CASE v = w
      BY <1>1, <2>1 DEF Follows, SaysWhatItSaw
    <2>2. CASE v # w
      BY <1>1, <1>2, <2>2, OthersRest, FollowsOn DEF Rests
    <2> QED  BY <2>1, <2>2
  <1> QED  BY <1>3, <1>4, <1>5, <1>6

(* Time, and whoever controls the task.                                    *)
LEMMA ControlInv ==
  ASSUME JobInv, Control \/ LeaseExpires \/ \E w \in Workers : Heartbeat(w),
         UNCHANGED jobVars,
         \/ UNCHANGED tail
         \/ \E w \in Workers : tail[w] = "none" /\ pc[w] = "idle" /\ Then(w, "cancel_read")
  PROVE  JobInv'
  <1> USE DEF JobInv, Kernel, jobVars
  <1>1. [Next]_vars /\ JobGrows
    BY DEF Next, JobGrows
  <1>2. UNCHANGED <<ledger, pc, snap>>
    BY DEF Control, LeaseExpires, Heartbeat, Pause, Cancel, Resume, Retry, RetryVerification, Approve,
           Replan
  <1>3. Kernel' /\ StepsNumbered' /\ FreshOwner' /\ WaitsStill' /\ WaitingHasJob'
    BY <1>1, RuntimeKeeps
  <1>4. JobRows' /\ StartsOnce'
    <2>1. SameJobRows /\ NoNewStart
      BY <1>2 DEF SameJobRows, NoNewStart, StepOf
    <2> QED  BY <1>1, <1>3, <2>1, JobRowsKept
  <1>5. JobsTyped'
    BY DEF JobsTyped, Then, TailState
  <1>6. ASSUME NEW v \in Workers  PROVE (Follows(v) /\ SaysWhatItSaw(v))'
    <2>1. CASE tail'[v] = tail[v]
      BY <1>1, <1>2, <2>1, FollowsOn
    <2>2. CASE tail[v] = "none" /\ pc[v] = "idle" /\ tail'[v] = "cancel_read"
      BY <1>2, <2>2 DEF Follows, SaysWhatItSaw
    <2> QED  BY <2>1, <2>2 DEF JobsTyped, Then
  <1> QED  BY <1>3, <1>4, <1>5, <1>6
-----------------------------------------------------------------------------
(* The steps of the job branch.                                            *)

(* The row, the copies of it and who has one stay.                         *)
LEMMA RowStays ==
  ASSUME JobInv, UNCHANGED <<task, fresh, snap>>, JobGrows,
         \A v \in Workers : pc'[v] \in HasCopy => pc[v] \in HasCopy,
         \A v \in Workers : pc[v] \in {"idle", "release"} => pc'[v] = pc[v]
  PROVE  StepsNumbered' /\ FreshOwner' /\ WaitsStill' /\ WaitingHasJob'
  <1> USE DEF JobInv, Kernel, Typed, RowOK
  <1>1. StepsNumbered' /\ FreshOwner' /\ WaitsStill'
    BY DEF StepsNumbered, Numbered, FreshOwner, WaitsStill
  <1>2. ~PlanDone(task) => CurrentId \in StepIds
    <2> SUFFICES ASSUME ~PlanDone(task)  PROVE CurrentId \in StepIds
      OBVIOUS
    <2>1. task.step + 1 \in DOMAIN task.plan
      BY DEF PlanDone, TaskRow
    <2> QED  BY <2>1 DEF StepsNumbered, Numbered, CurrentId
  <1>3. WaitingHasJob'
    BY <1>2 DEF WaitingHasJob, JobGrows, PlanDone, CurrentId
  <1> QED  BY <1>1, <1>3

LEMMA ReserveJobInv ==
  ASSUME JobInv, NEW w \in Workers, IsJob(StepOf(w)), ReserveJob(w), UNCHANGED <<jobVars, tail>>
  PROVE  JobInv'
  <1> USE DEF JobInv, Kernel, Typed, LocalsOK, jobVars
  <1> DEFINE s == StepOf(w)
  <1>1. /\ pc[w] = "reserve" /\ UNCHANGED <<task, fresh, snap>> /\ JobGrows
        /\ \A v \in Workers : v # w => pc'[v] = pc[v]
        /\ \A v \in Workers : StepOf(v)' = StepOf(v)
    BY DEF ReserveJob, Goto, JobGrows, StepOf
  <1>2. Kernel'
    BY KernelReserves
  <1>3. StepsNumbered' /\ FreshOwner' /\ WaitsStill' /\ WaitingHasJob'
    BY <1>1, RowStays DEF HasCopy, Working
  <1>4. JobRows' /\ StartsOnce'
    <2>1. CASE s.id \in DOMAIN ledger
      <3>1. UNCHANGED ledger /\ Goto(w, JobReserveOutcome(w, s))
        BY <2>1 DEF ReserveJob
      <3>2. JobReserveOutcome(w, s) \notin {"start", "rearm"}
        BY <2>1 DEF JobReserveOutcome, ReserveOutcome, AfterResult, Hidden, Rearmable, JobRows, JobRow, IsJob
      <3>3. SameJobRows /\ NoNewStart
        BY <1>1, <3>1, <3>2 DEF SameJobRows, NoNewStart, Goto
      <3> QED  BY <1>1, <1>2, <3>3, JobRowsKept DEF Kernel
    <2>2. CASE s.id \notin DOMAIN ledger
      <3>1. /\ ledger' = [id \in DOMAIN ledger \cup {s.id} |->
                            IF id = s.id THEN NewRun(s.tool) ELSE ledger[id]]
            /\ pc' = [pc EXCEPT ![w] = "start"]
        BY <2>2 DEF ReserveJob, Goto
      <3>2. ledger'[s.id] = NewRun(s.tool) /\ \A id \in DOMAIN ledger : ledger'[id] = ledger[id]
        BY <2>2, <3>1
      <3>3. JobRows'
        BY <3>1, <3>2 DEF JobRows, JobRow, NewRun
      <3>4. \A v \in Workers : Starts(v) => StepOf(v).id \in DOMAIN ledger
        BY DEF Starts, HasRow, Working
      <3>5. \A v \in Workers : v # w => (Starts(v)' <=> Starts(v))
        BY <1>1 DEF Starts, IsJob
      <3>6. \A v \in Workers : Starts(v)' => ledger'[StepOf(v).id].attempt = 0
        <4> SUFFICES ASSUME NEW v \in Workers, Starts(v)'  PROVE ledger'[StepOf(v).id].attempt = 0
          OBVIOUS
        <4>1. CASE v = w
          BY <3>2, <4>1 DEF NewRun
        <4>2. CASE v # w
          BY <3>2, <3>4, <3>5, <4>2 DEF StartsOnce
        <4> QED  BY <4>1, <4>2
      <3>7. \A v \in Workers : pc'[v] = "rearm" => ~IsJob(StepOf(v)')
        BY <1>1, <3>1 DEF StartsOnce
      <3>8. ASSUME NEW v \in Workers, NEW x \in Workers, Starts(v)', Starts(x)', StepOf(v).id = StepOf(x).id
            PROVE  v = x
        BY <2>2, <3>4, <3>5, <3>8 DEF StartsOnce
      <3> QED  BY <1>1, <3>3, <3>6, <3>7, <3>8 DEF StartsOnce
    <2> QED  BY <2>1, <2>2
  <1>5. JobsTyped'
    BY DEF JobsTyped
  <1>6. ASSUME NEW v \in Workers  PROVE (Follows(v) /\ SaysWhatItSaw(v))'
    <2>1. CASE v = w
      BY <1>1, <2>1 DEF Follows, SaysWhatItSaw
    <2>2. CASE v # w
      BY <1>1, <2>2, FollowsOn
    <2> QED  BY <2>1, <2>2
  <1> QED  BY <1>2, <1>3, <1>4, <1>5, <1>6

(* The first attempt of a job, which is the last.                          *)
LEMMA StartJobInv ==
  ASSUME JobInv, NEW w \in Workers, IsJob(StepOf(w)), StartAttempt(w), UNCHANGED <<jobVars, tail>>
  PROVE  JobInv'
  <1> USE DEF JobInv, Kernel, Typed, LocalsOK, jobVars
  <1> DEFINE s == StepOf(w)
  <1>1. /\ pc[w] = "start" /\ pc'[w] = "call" /\ UNCHANGED <<task, fresh, snap>> /\ JobGrows
        /\ \A v \in Workers : v # w => pc'[v] = pc[v]
        /\ \A v \in Workers : StepOf(v)' = StepOf(v)
    BY DEF StartAttempt, Goto, JobGrows, StepOf
  <1>2. Kernel'
    <2>1. [Next]_vars
      BY DEF Next, RunStep, ToolStep
    <2> QED  BY <2>1, KernelStep
  <1>3. StepsNumbered' /\ FreshOwner' /\ WaitsStill' /\ WaitingHasJob'
    BY <1>1, RowStays DEF HasCopy, Working
  <1>4. /\ s.id \in DOMAIN ledger /\ ledger[s.id] \in ToolRun /\ ledger[s.id].tool = s.tool
        /\ ledger[s.id].attempt = 0
    BY <1>1 DEF HasRow, Working, LedgerOK, StartsOnce, Starts
  <1>5. /\ DOMAIN ledger' = DOMAIN ledger
        /\ \A id \in DOMAIN ledger : id # s.id => ledger'[id] = ledger[id]
        /\ ledger'[s.id].state = "running" /\ ledger'[s.id].attempt <= 1
        /\ ledger'[s.id].result = ledger[s.id].result
    BY <1>4, BoundsAssumption DEF StartAttempt, ToolRun
  <1>6. JobRows'
    <2> SUFFICES ASSUME NEW id \in DOMAIN ledger', ledger'[id].tool \in JobTools  PROVE JobRow(id)'
      BY DEF JobRows
    <2>1. CASE id = s.id
      BY <1>4, <1>5, <2>1 DEF JobRows, JobRow, IsJob
    <2>2. CASE id # s.id
      BY <1>5, <2>2 DEF JobRows, JobRow
    <2> QED  BY <2>1, <2>2
  <1>7. StartsOnce'
    <2>1. \A v \in Workers : Starts(v)' => Starts(v) /\ v # w
      BY <1>1 DEF Starts, IsJob
    <2>2. \A v \in Workers : Starts(v)' => StepOf(v).id # s.id /\ StepOf(v).id \in DOMAIN ledger
      BY <1>1, <2>1 DEF StartsOnce, Starts, HasRow, Working
    <2>3. \A v \in Workers : Starts(v)' => ledger'[StepOf(v).id].attempt = 0
      BY <1>5, <2>1, <2>2 DEF StartsOnce
    <2>4. \A v \in Workers : pc'[v] = "rearm" => ~IsJob(StepOf(v)')
      BY <1>1 DEF StartsOnce
    <2> QED  BY <1>1, <2>1, <2>3, <2>4 DEF StartsOnce
  <1>8. JobsTyped'
    BY DEF JobsTyped
  <1>9. ASSUME NEW v \in Workers  PROVE (Follows(v) /\ SaysWhatItSaw(v))'
    <2>1. CASE v = w
      BY <1>1, <2>1 DEF Follows, SaysWhatItSaw
    <2>2. CASE v # w
      BY <1>1, <2>2, FollowsOn
    <2> QED  BY <2>1, <2>2
  <1> QED  BY <1>2, <1>3, <1>6, <1>7, <1>8, <1>9
-----------------------------------------------------------------------------
(* A thread turns away from a step, for good or to wait.                   *)

LEMMA Leaves ==
  ASSUME JobInv, NEW w \in Workers, NEW phase \in Phases \ HasCopy, NEW copy \in TaskRow, NEW n \in Nat,
         NEW state \in TaskStates,
         pc' = [pc EXCEPT ![w] = phase],
         snap' = [snap EXCEPT ![w] = copy],
         att' = [att EXCEPT ![w] = n],
         UNCHANGED <<ledger, passed, granted>>,
         \/ UNCHANGED <<task, wasLeased>> /\ fresh' \subseteq fresh \cup {w}
         \/ Update([task EXCEPT !.state = state]),
         Numbered(copy), JobGrows
  PROVE  Kernel' /\ StepsNumbered' /\ FreshOwner' /\ JobRows' /\ StartsOnce'
  <1> USE DEF JobInv
  <1>1. Kernel'
    BY KernelLeaves
  <1>2. /\ task'.plan = task.plan /\ task'.planVersion = task.planVersion
        /\ task'.owner = task.owner
        /\ \A v \in fresh' : v \in fresh \cup {w}
    BY DEF Update, Kernel, Typed, RowOK, TaskRow
  <1>3. \A v \in Workers : pc'[v] \in HasCopy => v # w /\ pc[v] = pc'[v] /\ snap'[v] = snap[v]
    BY DEF Kernel, Typed, LocalsOK
  <1>4. StepsNumbered'
    <2>1. \A v \in Workers : snap'[v] \in {snap[v], copy}
      BY DEF Kernel, Typed, LocalsOK
    <2> QED  BY <1>2, <2>1 DEF StepsNumbered, Numbered
  <1>5. FreshOwner'
    BY <1>2, <1>3 DEF FreshOwner
  <1>6. JobRows' /\ StartsOnce'
    <2>1. SameJobRows
      BY DEF SameJobRows
    <2>2. NoNewStart
      BY <1>3 DEF NoNewStart, HasCopy, Working, StepOf
    <2> QED  BY <1>1, <2>1, <2>2, JobRowsKept
  <1> QED  BY <1>1, <1>4, <1>5, <1>6

(* It does not make the task wait, and is no longer with its job. *)
LEMMA LeavesInv ==
  ASSUME JobInv, NEW w \in Workers, NEW phase \in Phases \ HasCopy, NEW copy \in TaskRow, NEW n \in Nat,
         NEW state \in TaskStates \ {"waiting_job"},
         pc' = [pc EXCEPT ![w] = phase],
         snap' = [snap EXCEPT ![w] = copy],
         att' = [att EXCEPT ![w] = n],
         UNCHANGED <<ledger, passed, granted>>,
         \/ UNCHANGED <<task, wasLeased>> /\ fresh' \subseteq fresh \cup {w}
         \/ Update([task EXCEPT !.state = state]),
         Numbered(copy), JobGrows,
         pc[w] \in {"idle", "release"} => phase \in {"idle", "release"},
         \A v \in Workers : v # w => tail'[v] = tail[v] /\ call'[v] = call[v],
         JobsTyped', (Follows(w) /\ SaysWhatItSaw(w))'
  PROVE  JobInv'
  <1>1. Kernel' /\ StepsNumbered' /\ FreshOwner' /\ JobRows' /\ StartsOnce'
    BY Leaves
  <1> USE DEF JobInv, Kernel, Typed, RowOK, LocalsOK
  <1>2. task' = task \/ task'.state = state
    BY DEF Update, TaskRow
  <1>3. WaitsStill'
    BY <1>2 DEF WaitsStill
  <1>4. WaitingHasJob'
    <2> SUFFICES ASSUME task' = task, task.state = "waiting_job"
                 PROVE  (~PlanDone(task) /\ job[CurrentId] # "absent")'
      BY <1>2 DEF WaitingHasJob
    <2>1. ~PlanDone(task) /\ job[CurrentId] # "absent"
      BY DEF WaitingHasJob
    <2>2. task.step + 1 \in DOMAIN task.plan
      BY <2>1 DEF PlanDone, TaskRow
    <2>3. CurrentId \in StepIds
      BY <2>2 DEF StepsNumbered, Numbered, CurrentId
    <2> QED  BY <2>1, <2>3 DEF JobGrows, PlanDone, CurrentId
  <1>5. ASSUME NEW v \in Workers  PROVE (Follows(v) /\ SaysWhatItSaw(v))'
    <2>1. CASE v # w
      BY <2>1, FollowsOn
    <2> QED  BY <2>1
  <1> QED  BY <1>1, <1>3, <1>4, <1>5

(* Once it is with no job, it is nowhere with one.                         *)
LEMMA NoJobFollows ==
  ASSUME NEW w \in Workers, tail'[w] = "none", call'[w].at = "idle"
  PROVE  (Follows(w) /\ SaysWhatItSaw(w))'
  BY DEF Follows, SaysWhatItSaw

LEMMA CallsTyped == JobsTyped => J!NoCall \in Request
  BY DEF J!NoCall, Request, JobState

(* Only the thread itself returns from its call, and its tail ends.        *)
LEMMA ReturnsTyped ==
  ASSUME JobInv, NEW w \in Workers, UNCHANGED <<job, cluster, result>>,
         call' = call \/ call' = [call EXCEPT ![w] = J!NoCall],
         NEW next \in TailState, Then(w, next)
  PROVE  /\ JobsTyped' /\ JobGrows
         /\ tail'[w] = next /\ (call' = [call EXCEPT ![w] = J!NoCall] => call'[w].at = "idle")
         /\ \A v \in Workers : v # w => tail'[v] = tail[v] /\ call'[v] = call[v]
  <1> USE DEF JobInv, JobsTyped
  <1>1. J!NoCall \in Request /\ J!NoCall.at = "idle"
    BY CallsTyped DEF J!NoCall
  <1> QED  BY <1>1 DEF JobGrows, Then

LEMMA IdlePhase == "idle" \in Phases \ HasCopy /\ "fail" \in Phases \ HasCopy /\ "release" \in Phases \ HasCopy
  BY DEF Phases, HasCopy, Working

(* Each way of leaving ends with no job in hand. *)
LEMMA JobLeft ==
  ASSUME JobInv, NEW w \in Workers, NEW phase \in {"idle", "fail", "release"}, NEW copy \in TaskRow, NEW n \in Nat,
         NEW state \in TaskStates \ {"waiting_job"},
         pc' = [pc EXCEPT ![w] = phase],
         snap' = [snap EXCEPT ![w] = copy],
         att' = [att EXCEPT ![w] = n],
         UNCHANGED <<ledger, passed, granted, job, cluster, result>>,
         \/ UNCHANGED <<task, wasLeased>> /\ fresh' \subseteq fresh \cup {w}
         \/ Update([task EXCEPT !.state = state]),
         Numbered(copy),
         pc[w] \in {"idle", "release"} => phase \in {"idle", "release"},
         \/ call' = call /\ call[w].at = "idle"
         \/ call' = [call EXCEPT ![w] = J!NoCall],
         Then(w, "none")
  PROVE  JobInv'
  <1>1. /\ JobsTyped' /\ JobGrows
        /\ tail'[w] = "none" /\ call'[w].at = "idle"
        /\ \A v \in Workers : v # w => tail'[v] = tail[v] /\ call'[v] = call[v]
    BY ReturnsTyped DEF TailState
  <1>2. (Follows(w) /\ SaysWhatItSaw(w))'
    BY <1>1, NoJobFollows
  <1>3. phase \in Phases \ HasCopy
    BY IdlePhase
  <1> QED  BY <1>1, <1>2, <1>3, LeavesInv

LEMMA JobRefusedInv ==
  ASSUME JobInv, NEW w \in Workers, JobRefused(w), UNCHANGED <<jobVars, tail>>
  PROVE  JobInv'
  <1> USE DEF JobInv, Kernel, Typed, LocalsOK, jobVars
  <1>1. /\ pc[w] = "call" /\ tail[w] = "none" /\ call[w].at = "idle"
        /\ pc' = [pc EXCEPT ![w] = "fail"]
        /\ UNCHANGED <<task, fresh, wasLeased, ledger, passed, granted>>
        /\ fresh' \subseteq fresh \cup {w}
    BY DEF JobRefused, Goto, Follows
  <1>2. /\ snap[w] \in TaskRow /\ att[w] \in Nat /\ Numbered(snap[w])
        /\ snap' = [snap EXCEPT ![w] = snap[w]] /\ att' = [att EXCEPT ![w] = att[w]]
    BY DEF JobRefused, StepsNumbered
  <1>3. Then(w, "none")
    BY <1>1 DEF Then, JobsTyped
  <1>4. "failed" \in TaskStates \ {"waiting_job"}
    BY DEF TaskStates, StopStates, TerminalStates
  <1> HIDE DEF Kernel, Typed, LocalsOK
  <1> QED  BY <1>1, <1>2, <1>3, <1>4, JobLeft

(* run() is left, or a call of a client ends, and the row stays.            *)
LEMMA GivesUp ==
  ASSUME JobInv, NEW w \in Workers, NEW phase \in {"idle", "release"},
         Goto(w, phase), DropLocals(w), fresh' \subseteq fresh \cup {w}, Then(w, "none"),
         UNCHANGED <<task, wasLeased, ledger, passed, granted, job, cluster, result>>,
         \/ call' = call /\ call[w].at = "idle"
         \/ call' = [call EXCEPT ![w] = J!NoCall]
  PROVE  JobInv'
  <1>1. NoCopy \in TaskRow /\ Numbered(NoCopy) /\ 0 \in Nat /\ "failed" \in TaskStates \ {"waiting_job"}
    BY NoCopyType, NumberedCopy DEF JobInv, Kernel, Typed, TaskStates, StopStates, TerminalStates
  <1>2. /\ pc' = [pc EXCEPT ![w] = phase]
        /\ snap' = [snap EXCEPT ![w] = NoCopy]
        /\ att' = [att EXCEPT ![w] = 0]
    BY DEF Goto, DropLocals
  <1> QED  BY <1>1, <1>2, JobLeft

LEMMA JobInterruptInv ==
  ASSUME JobInv, NEW w \in Workers, JobInterrupt(w)
  PROVE  JobInv'
  <1>1. call[w].at = "idle"
    BY DEF JobInterrupt, InJobBranch, JobInv, JobsTyped, Follows
  <1> QED  BY <1>1, GivesUp DEF JobInterrupt, Exit, jobVars

LEMMA JobMissingInv ==
  ASSUME JobInv, NEW w \in Workers, JobMissing(w)
  PROVE  JobInv'
  <1>1. call[w].at = "idle" /\ fresh' \subseteq fresh \cup {w}
    BY DEF JobMissing, Forget, JobInv, JobsTyped, Follows
  <1> QED  BY <1>1, GivesUp DEF JobMissing, Forget, jobVars

LEMMA TailInterruptInv ==
  ASSUME JobInv, NEW w \in Workers, TailInterrupt(w)
  PROVE  JobInv'
  <1>1. call[w].at = "idle" /\ fresh' \subseteq fresh \cup {w}
    BY DEF TailInterrupt, Forget, J!At
  <1> QED  BY <1>1, GivesUp DEF TailInterrupt, Forget, jobVars

LEMMA CrashInv ==
  ASSUME JobInv, NEW w \in Workers, CrashJ(w)
  PROVE  JobInv'
  <1>1. fresh' \subseteq fresh \cup {w}
    BY DEF CrashJ, Forget
  <1> QED  BY <1>1, GivesUp DEF CrashJ, Forget

LEMMA JobReturnsInv ==
  ASSUME JobInv, NEW w \in Workers, JobReturns(w)
  PROVE  JobInv'
  <1>1. pc[w] = "idle"
    BY DEF JobReturns, JobInv, Follows
  <1>2. Goto(w, "idle") /\ fresh' \subseteq fresh \cup {w}
    BY <1>1 DEF JobReturns, Goto, JobInv, Kernel, Typed, LocalsOK
  <1>3. call' = [call EXCEPT ![w] = J!NoCall] /\ UNCHANGED <<job, cluster, result>>
    BY DEF JobReturns, J!Return
  <1> QED  BY <1>2, <1>3, GivesUp DEF JobReturns

(* A client's call ends with a verdict on the task, or with none.          *)
LEMMA Concludes ==
  ASSUME JobInv, NEW w \in Workers, NEW state \in TaskStates \ {"waiting_job"}, pc[w] = "idle",
         IF w \in fresh THEN Update([task EXCEPT !.state = state]) ELSE KeepRow,
         DropLocals(w), Then(w, "none"),
         UNCHANGED <<ledger, passed, granted, pc, job, cluster, result>>,
         \/ call' = call /\ call[w].at = "idle"
         \/ call' = [call EXCEPT ![w] = J!NoCall]
  PROVE  JobInv'
  <1>1. NoCopy \in TaskRow /\ Numbered(NoCopy) /\ 0 \in Nat
    BY NoCopyType, NumberedCopy DEF JobInv, Kernel, Typed
  <1>2. /\ pc' = [pc EXCEPT ![w] = "idle"]
        /\ snap' = [snap EXCEPT ![w] = NoCopy]
        /\ att' = [att EXCEPT ![w] = 0]
    BY DEF DropLocals, JobInv, Kernel, Typed, LocalsOK
  <1>3. \/ UNCHANGED <<task, wasLeased>> /\ fresh' \subseteq fresh \cup {w}
        \/ Update([task EXCEPT !.state = state])
    BY DEF KeepRow
  <1> QED  BY <1>1, <1>2, <1>3, JobLeft

LEMMA SettleJobInv ==
  ASSUME JobInv, NEW w \in Workers, SettleJob(w)
  PROVE  JobInv'
  <1>1. VerdictOf(Outcome(w)) \in TaskStates \ {"waiting_job"}
    BY DEF VerdictOf, TaskStates, StopStates, TerminalStates
  <1>2. pc[w] = "idle"
    BY DEF SettleJob, Settled, JobInv, Follows
  <1>3. call' = [call EXCEPT ![w] = J!NoCall] /\ UNCHANGED <<job, cluster, result>>
    BY DEF SettleJob, J!Return
  <1> QED  BY <1>1, <1>2, <1>3, Concludes DEF SettleJob

LEMMA ContinueRunInv ==
  ASSUME JobInv, NEW w \in Workers, ContinueRun(w)
  PROVE  JobInv'
  <1>1. "created" \in TaskStates \ {"waiting_job"}
    BY DEF TaskStates, StopStates, TerminalStates
  <1>2. pc[w] = "idle" /\ call[w].at = "idle"
    BY DEF ContinueRun, JobInv, JobsTyped, Follows
  <1> QED  BY <1>1, <1>2, Concludes DEF ContinueRun, jobVars

(* A client's call reads the row, or hands its cancel to the job.          *)
LEMMA Reads ==
  ASSUME JobInv, NEW w \in Workers, pc[w] = "idle", call[w].at = "idle",
         fresh' \subseteq fresh \cup {w},
         NEW copy \in {Copy(task), NoCopy}, NEW n \in Nat, NEW next \in TailState,
         snap' = [snap EXCEPT ![w] = copy], att' = [att EXCEPT ![w] = n], Then(w, next),
         next \in {"lookup", "cancel_job"} => copy = Copy(task) /\ ~PlanDone(task),
         next \in {"none", "lookup", "cancel_job"},
         UNCHANGED <<task, wasLeased, ledger, passed, granted, pc, cluster, result, call>>,
         job' \in [StepIds -> JobState], JobGrows
  PROVE  JobInv'
  <1> USE DEF JobInv, Kernel, Typed, RowOK, LocalsOK
  <1>1. copy \in TaskRow /\ Numbered(copy)
    BY NoCopyType, CopyType, NumberedCopy
  <1>2. pc' = [pc EXCEPT ![w] = "idle"]
    OBVIOUS
  <1>3. JobsTyped'
    BY DEF JobsTyped, Then
  <1>4. \A v \in Workers : v # w => tail'[v] = tail[v] /\ call'[v] = call[v]
    BY DEF JobsTyped, Then
  <1>5. tail'[w] = next /\ snap'[w] = copy /\ pc'[w] = "idle" /\ call'[w].at = "idle"
    BY DEF JobsTyped, Then
  <1>6. copy = Copy(task) /\ ~PlanDone(task) => copy.step < Len(copy.plan)
    BY CopyFields DEF PlanDone, TaskRow
  <1>7. (Follows(w) /\ SaysWhatItSaw(w))'
    BY <1>5, <1>6 DEF Follows, SaysWhatItSaw, Inside
  <1>8. "failed" \in TaskStates \ {"waiting_job"}
    BY DEF TaskStates, StopStates, TerminalStates
  <1> HIDE DEF Kernel, Typed, RowOK, LocalsOK
  <1> QED  BY <1>1, <1>2, <1>3, <1>4, <1>7, <1>8, IdlePhase, LeavesInv

LEMMA SameJobsGrow ==
  ASSUME JobInv, UNCHANGED <<job, result>>
  PROVE  JobGrows /\ job' \in [StepIds -> JobState]
  BY DEF JobGrows, JobInv, JobsTyped

LEMMA AttAgain ==
  ASSUME JobInv, NEW w \in Workers, UNCHANGED att
  PROVE  att[w] \in Nat /\ att' = [att EXCEPT ![w] = att[w]]
  BY DEF JobInv, Kernel, Typed, LocalsOK

LEMMA ClientReconcilesInv ==
  ASSUME JobInv, NEW w \in Workers, ClientReconcilesJob(w)
  PROVE  JobInv'
  <1>1. pc[w] = "idle" /\ call[w].at = "idle"
    BY DEF ClientReconcilesJob, JobInv, JobsTyped, Follows
  <1>2. JobGrows /\ job' \in [StepIds -> JobState]
    BY SameJobsGrow DEF ClientReconcilesJob, jobVars
  <1>3. att[w] \in Nat /\ att' = [att EXCEPT ![w] = att[w]]
    BY AttAgain DEF ClientReconcilesJob
  <1>4. "lookup" \in TailState
    BY DEF TailState
  <1> QED  BY <1>1, <1>2, <1>3, <1>4, Reads DEF ClientReconcilesJob, ReadVersion, jobVars

LEMMA CancelReadsInv ==
  ASSUME JobInv, NEW w \in Workers, CancelReads(w)
  PROVE  JobInv'
  <1>1. pc[w] = "idle" /\ call[w].at = "idle"
    BY DEF CancelReads, JobInv, JobsTyped, Follows
  <1>2. JobGrows /\ job' \in [StepIds -> JobState]
    BY SameJobsGrow DEF CancelReads, jobVars
  <1>3. att[w] \in Nat /\ att' = [att EXCEPT ![w] = att[w]]
    BY AttAgain DEF CancelReads
  <1>4. PICK next \in {"none", "cancel_job"} : Then(w, next) /\ (next = "cancel_job" => ~PlanDone(task))
    BY DEF CancelReads
  <1>5. next \in TailState
    BY <1>4 DEF TailState
  <1> QED  BY <1>1, <1>2, <1>3, <1>4, <1>5, Reads DEF CancelReads, jobVars

LEMMA CancelJobInv ==
  ASSUME JobInv, NEW w \in Workers, CancelJob(w)
  PROVE  JobInv'
  <1>1. pc[w] = "idle" /\ call[w].at = "idle"
    BY DEF CancelJob, JobInv, JobsTyped, Follows
  <1>2. JobGrows /\ job' \in [StepIds -> JobState] /\ UNCHANGED <<cluster, result, call>>
    BY DEF CancelJob, J!RequestCancel, JobGrows, JobInv, JobsTyped, JobState
  <1>3. "none" \in TailState /\ 0 \in Nat
    BY DEF TailState
  <1> QED  BY <1>1, <1>2, <1>3, Reads DEF CancelJob, DropLocals

(* The task waits for the job it has just requested.                       *)
LEMMA WaitForJobInv ==
  ASSUME JobInv, NEW w \in Workers, WaitForJob(w)
  PROVE  JobInv'
  <1> DEFINE row == [task EXCEPT !.state = "waiting_job"]
  <1>1. /\ tail[w] = "requested" /\ CasAndExit(w, row) /\ Then(w, "none")
        /\ UNCHANGED <<ledger, passed, granted, job, cluster, result, call>>
    BY DEF WaitForJob, jobVars
  <1>2. /\ pc[w] = "call" /\ call[w].at = "idle" /\ job[StepOf(w).id] # "absent"
        /\ task \in TaskRow
    BY <1>1 DEF JobInv, Follows, Kernel, Typed, RowOK
  <1>3. Exit(w) /\ Goto(w, "release") /\ DropLocals(w)
    BY <1>1 DEF CasAndExit, Exit
  <1>4. CASE w \notin fresh
    BY <1>1, <1>2, <1>3, <1>4, GivesUp DEF CasAndExit, KeepRow
  <1>5. CASE w \in fresh
    <2>1. Update(row)
      BY <1>1, <1>5 DEF CasAndExit
    <2>2. NoCopy \in TaskRow /\ Numbered(NoCopy) /\ 0 \in Nat /\ "waiting_job" \in TaskStates
      BY NoCopyType, NumberedCopy DEF JobInv, Kernel, Typed, TaskStates, StopStates
    <2>3. JobGrows
      BY <1>1, SameJobsGrow
    <2>4. /\ pc' = [pc EXCEPT ![w] = "release"]
          /\ snap' = [snap EXCEPT ![w] = NoCopy]
          /\ att' = [att EXCEPT ![w] = 0]
      BY <1>3 DEF Goto, DropLocals
    <2>5. Kernel' /\ StepsNumbered' /\ FreshOwner' /\ JobRows' /\ StartsOnce'
      BY <1>1, <2>1, <2>2, <2>3, <2>4, IdlePhase, Leaves
    <2>6. /\ task'.owner = task.owner /\ task'.plan = task.plan /\ task'.step = task.step
      BY <1>2, <2>1 DEF Update, TaskRow
    <2>7. WaitsStill'
      <3>1. task.owner \in {w, None}
        BY <1>2, <1>5 DEF JobInv, FreshOwner, HasCopy, Working
      <3>2. pc'[w] = "release"
        BY <2>4 DEF JobInv, Kernel, Typed, LocalsOK
      <3> QED  BY <2>6, <3>1, <3>2, NoneAssumption DEF WaitsStill
    <2>8. WaitingHasJob'
      <3>1. snap[w] = Copy(task) /\ snap[w].step < Len(snap[w].plan)
        BY <1>2, <1>5 DEF JobInv, Kernel, FreshCopy, StepInPlan, HasCopy, Working
      <3>2. snap[w].step = task.step /\ snap[w].plan = task.plan
        BY <1>2, <3>1, CopyFields
      <3>3. ~PlanDone(task) /\ StepOf(w).id = CurrentId
        BY <1>2, <3>1, <3>2 DEF PlanDone, StepOf, CurrentId, TaskRow
      <3> QED  BY <1>1, <1>2, <2>6, <3>3 DEF WaitingHasJob, PlanDone, CurrentId
    <2>9. /\ JobsTyped' /\ tail'[w] = "none" /\ call'[w].at = "idle"
          /\ \A v \in Workers : v # w => tail'[v] = tail[v]
      BY <1>1, <1>2 DEF Then, JobInv, JobsTyped, TailState
    <2>10. ASSUME NEW v \in Workers  PROVE (Follows(v) /\ SaysWhatItSaw(v))'
      <3>1. CASE v = w
        BY <2>9, <3>1, NoJobFollows
      <3>2. CASE v # w
        <4>1. pc'[v] = pc[v] /\ snap'[v] = snap[v]
          BY <2>4, <3>2 DEF JobInv, Kernel, Typed, LocalsOK
        <4> QED  BY <1>1, <2>3, <2>9, <3>2, <4>1, FollowsOn
      <3> QED  BY <3>1, <3>2
    <2> QED  BY <2>5, <2>7, <2>8, <2>9, <2>10 DEF JobInv
  <1> QED  BY <1>4, <1>5
-----------------------------------------------------------------------------
(* The ledger row of a job is finished.                                    *)

LEMMA FinishInv ==
  ASSUME JobInv, NEW w \in Workers, NEW phase \in Phases \ HasCopy,
         NEW state \in {"succeeded", "reconciliation_required"}, NEW outcome \in {"none", "succeeded"},
         FinishToolRun(StepOf(w), state, outcome), Goto(w, phase), StepOf(w).id \in DOMAIN ledger,
         UNCHANGED <<task, fresh, wasLeased, passed, granted, snap, att>>,
         pc[w] \in {"idle", "release"} => phase = pc[w],
         outcome = "succeeded" => StepOf(w).id \in StepIds /\ result[StepOf(w).id] = "valid",
         JobGrows, JobsTyped', \A v \in Workers : (Follows(v) /\ SaysWhatItSaw(v))'
  PROVE  JobInv'
  <1> USE DEF JobInv, Kernel, Typed, LocalsOK
  <1> DEFINE s == StepOf(w)
  <1>1. Kernel'
    BY KernelFinishes
  <1>2. /\ \A v \in Workers : pc'[v] \in HasCopy => v # w /\ pc'[v] = pc[v]
        /\ \A v \in Workers : pc[v] \in {"idle", "release"} => pc'[v] = pc[v]
        /\ \A v \in Workers : StepOf(v)' = StepOf(v)
    BY DEF Goto, StepOf
  <1>3. StepsNumbered' /\ FreshOwner' /\ WaitsStill' /\ WaitingHasJob'
    BY <1>2, RowStays
  <1>4. /\ DOMAIN ledger' = DOMAIN ledger
        /\ \A id \in DOMAIN ledger : id # s.id => ledger'[id] = ledger[id]
        /\ ledger'[s.id].tool = ledger[s.id].tool /\ ledger'[s.id].attempt = ledger[s.id].attempt
        /\ ledger'[s.id].state = state
        /\ ledger'[s.id].result \in {ledger[s.id].result, outcome}
    BY DEF FinishToolRun, FirstResult, LedgerOK, ToolRun
  <1>5. JobRows'
    <2> SUFFICES ASSUME NEW id \in DOMAIN ledger', ledger'[id].tool \in JobTools  PROVE JobRow(id)'
      BY DEF JobRows
    <2>1. id \in DOMAIN ledger /\ JobRow(id)
      BY <1>4 DEF JobRows
    <2>2. CASE id = s.id
      BY <1>4, <2>1, <2>2 DEF JobRow, JobGrows
    <2>3. CASE id # s.id
      BY <1>4, <2>1, <2>3 DEF JobRow, JobGrows
    <2> QED  BY <2>2, <2>3
  <1>6. StartsOnce'
    <2>1. \A v \in Workers : Starts(v)' => Starts(v)
      BY <1>2 DEF Starts, IsJob, HasCopy, Working
    <2>2. \A v \in Workers : pc'[v] = "rearm" => ~IsJob(StepOf(v)')
      BY <1>2 DEF StartsOnce, IsJob, HasCopy, Working
    <2>3. \A v \in Workers : Starts(v)' => ledger'[StepOf(v).id].attempt = 0
      <3>1. \A v \in Workers : Starts(v) => StepOf(v).id \in DOMAIN ledger
        BY DEF Starts, HasRow, Working
      <3> QED  BY <1>4, <2>1, <3>1 DEF StartsOnce
    <2> QED  BY <1>2, <2>1, <2>2, <2>3 DEF StartsOnce
  <1> QED  BY <1>1, <1>3, <1>5, <1>6

(* A thread found the job of another started. *)
LEMMA CondemnJobInv ==
  ASSUME JobInv, NEW w \in Workers, CondemnJob(w), UNCHANGED <<jobVars, tail>>
  PROVE  JobInv'
  <1>1. /\ pc[w] = "condemn" /\ FinishToolRun(StepOf(w), "reconciliation_required", "none")
        /\ Goto(w, "fail") /\ UNCHANGED <<task, fresh, wasLeased, passed, granted, snap, att>>
    BY DEF CondemnJob
  <1>2. StepOf(w).id \in DOMAIN ledger
    BY <1>1 DEF JobInv, Kernel, HasRow, Working
  <1>3. JobGrows /\ JobsTyped'
    BY SameJobsGrow DEF jobVars, JobInv, JobsTyped
  <1>4. ASSUME NEW v \in Workers  PROVE (Follows(v) /\ SaysWhatItSaw(v))'
    <2>1. CASE v = w
      BY <1>1, <2>1 DEF JobInv, Follows, SaysWhatItSaw, jobVars, Kernel, Typed, LocalsOK, Goto
    <2>2. CASE v # w
      BY <1>1, <1>3, <2>2, FollowsOn DEF jobVars, JobInv, Kernel, Typed, LocalsOK, Goto
    <2> QED  BY <2>1, <2>2
  <1> QED  BY <1>1, <1>2, <1>3, <1>4, IdlePhase, FinishInv

(* Nothing of the task, the ledger or the workers changes. *)
LEMMA StillInv ==
  ASSUME JobInv, UNCHANGED vars, JobGrows, JobsTyped',
         \A v \in Workers : (Follows(v) /\ SaysWhatItSaw(v))'
  PROVE  JobInv'
  <1> USE DEF JobInv, vars
  <1>1. Kernel'
    BY KernelStep
  <1>2. StepsNumbered' /\ FreshOwner' /\ WaitsStill' /\ WaitingHasJob'
    BY RowStays
  <1>3. JobRows' /\ StartsOnce'
    <2>1. SameJobRows /\ NoNewStart
      BY DEF SameJobRows, NoNewStart, StepOf
    <2> QED  BY <1>1, <2>1, JobRowsKept
  <1> QED  BY <1>1, <1>2, <1>3

(* A result goes to the ledger only after reconcile has seen it.           *)
LEMMA MaterializeInv ==
  ASSUME JobInv, NEW w \in Workers, MaterializeResult(w)
  PROVE  JobInv'
  <1> DEFINE s == StepOf(w)
  <1>1. /\ tail[w] = "reconciling" /\ call[w].at = "done" /\ call[w].state = "succeeded"
        /\ Then(w, "materialized")
        /\ UNCHANGED <<task, fresh, wasLeased, passed, granted, pc, snap, att>>
    BY DEF MaterializeResult, Settled, Outcome, J!At
  <1>2. call' = [call EXCEPT ![w] = J!NoCall] /\ UNCHANGED <<job, cluster, result>>
    BY DEF MaterializeResult, J!Return
  <1>3. pc[w] = "idle" /\ call[w].id = s.id /\ Inside(w) /\ result[s.id] = "valid"
    BY <1>1 DEF JobInv, Follows, SaysWhatItSaw
  <1>4. s.id \in StepIds
    BY <1>3, NumberedStep DEF JobInv, Kernel, Typed
  <1>5. Goto(w, "idle")
    BY <1>1, <1>3 DEF Goto, JobInv, Kernel, Typed, LocalsOK
  <1>6. /\ JobsTyped' /\ JobGrows /\ tail'[w] = "materialized" /\ call'[w].at = "idle"
        /\ \A v \in Workers : v # w => tail'[v] = tail[v] /\ call'[v] = call[v]
    BY <1>1, <1>2, ReturnsTyped DEF TailState
  <1>7. ASSUME NEW v \in Workers  PROVE (Follows(v) /\ SaysWhatItSaw(v))'
    <2>1. CASE v = w
      BY <1>1, <1>3, <1>6, <2>1 DEF Follows, SaysWhatItSaw
    <2>2. CASE v # w
      BY <1>1, <1>6, <2>2, FollowsOn
    <2> QED  BY <2>1, <2>2
  <1>8. CASE s.id \in DOMAIN ledger /\ ~Hidden(s)
    <2>1. FinishToolRun(s, "succeeded", "succeeded")
      BY <1>8 DEF MaterializeResult
    <2> HIDE DEF s
    <2> QED  BY <1>1, <1>3, <1>4, <1>5, <1>6, <1>7, <1>8, <2>1, IdlePhase, FinishInv DEF s
  <1>9. CASE ~(s.id \in DOMAIN ledger /\ ~Hidden(s))
    <2>1. UNCHANGED ledger
      BY <1>9 DEF MaterializeResult
    <2> QED  BY <1>1, <1>6, <1>7, <2>1, StillInv DEF vars
  <1> QED  BY <1>8, <1>9
-----------------------------------------------------------------------------
(* The calls of the job service.                                           *)

LEMMA RequestJobInv ==
  ASSUME JobInv, NEW w \in Workers, IsJob(StepOf(w)), RequestJob(w)
  PROVE  JobInv' /\ StepOf(w).id \in StepIds
  <1> DEFINE s == StepOf(w)
  <1>1. /\ pc[w] = "call" /\ tail[w] = "none" /\ J!Request(s.id) /\ Then(w, "requested")
        /\ UNCHANGED vars
    BY DEF RequestJob
  <1>2. s.id \in StepIds /\ call[w].at = "idle"
    BY <1>1, NumberedStep DEF JobInv, Kernel, Typed, StepInPlan, Working, Inside, Follows, JobsTyped
  <1> HIDE DEF s
  <1>3. /\ JobsTyped' /\ JobGrows /\ tail'[w] = "requested" /\ UNCHANGED call
        /\ \A v \in Workers : v # w => tail'[v] = tail[v]
        /\ job'[s.id] # "absent"
    BY <1>1, <1>2 DEF J!Request, J!Exists, Then, JobInv, JobsTyped, JobState, TailState, JobGrows
  <1>4. ASSUME NEW v \in Workers  PROVE (Follows(v) /\ SaysWhatItSaw(v))'
    <2>1. CASE v = w
      <3>1. StepOf(w)' = s /\ IsJob(StepOf(w))' /\ pc'[w] = "call"
        BY <1>1 DEF vars, StepOf, IsJob, s
      <3> QED  BY <1>2, <1>3, <2>1, <3>1 DEF Follows, SaysWhatItSaw
    <2>2. CASE v # w
      BY <1>1, <1>3, <2>2, FollowsOn DEF vars
    <2> QED  BY <2>1, <2>2
  <1> QED  BY <1>1, <1>2, <1>3, <1>4, StillInv DEF s

LEMMA LookupJobInv ==
  ASSUME JobInv, NEW w \in Workers, LookupJob(w)
  PROVE  JobInv' /\ StepOf(w).id \in StepIds
  <1> DEFINE s == StepOf(w)
  <1>1. /\ tail[w] = "lookup" /\ J!Read(w, s.id) /\ Then(w, "reconciling")
        /\ UNCHANGED vars
    BY DEF LookupJob
  <1>2. s.id \in StepIds /\ Inside(w) /\ pc[w] = "idle"
    BY <1>1, NumberedStep DEF JobInv, Kernel, Typed, Follows, JobsTyped
  <1> HIDE DEF s
  <1>3. /\ JobsTyped' /\ JobGrows /\ tail'[w] = "reconciling"
        /\ call'[w] = [at |-> "backend", id |-> s.id, state |-> job[s.id]]
        /\ job[s.id] # "absent"
        /\ \A v \in Workers : v # w => tail'[v] = tail[v] /\ call'[v] = call[v]
    BY <1>1, <1>2 DEF J!Read, Then, JobInv, JobsTyped, Request, TailState, JobGrows
  <1>4. ASSUME NEW v \in Workers  PROVE (Follows(v) /\ SaysWhatItSaw(v))'
    <2>1. CASE v = w
      <3>1. StepOf(w)' = s /\ Inside(w)' /\ pc'[w] = "idle"
        BY <1>1, <1>2 DEF vars, StepOf, Inside, s
      <3> QED  BY <1>3, <2>1, <3>1 DEF Follows, SaysWhatItSaw
    <2>2. CASE v # w
      BY <1>1, <1>3, <2>2, FollowsOn DEF vars
    <2> QED  BY <2>1, <2>2
  <1> QED  BY <1>1, <1>2, <1>3, <1>4, StillInv DEF s

LEMMA BackendStepInv ==
  ASSUME JobInv, NEW w \in Workers, BackendStep(w)
  PROVE  JobInv'
  <1> USE DEF J!At, J!Goto, J!Observed
  <1>1. JobsTyped' /\ JobGrows /\ UNCHANGED vars /\ UNCHANGED tail
    BY ServiceMoves DEF BackendStep
  <1>2. /\ call[w].at \in {"backend", "result", "record"}
        /\ \A v \in Workers : v # w => call'[v] = call[v]
        /\ call'[w].at # "idle" /\ call'[w].id = call[w].id
        /\ call[w].state # "absent" => call'[w].state # "absent"
    <2> USE DEF JobInv, JobsTyped, Request
    <2>1. CASE J!Submit(w)
      BY <2>1 DEF J!Submit
    <2>2. CASE J!Delete(w)
      BY <2>2 DEF J!Delete
    <2>3. CASE J!Observe(w)
      BY <2>3 DEF J!Observe, J!AfterComplete
    <2>4. CASE J!ReadResult(w)
      BY <2>4 DEF J!ReadResult
    <2>5. CASE J!Record(w)
      BY <2>5 DEF J!Record
    <2>6. CASE J!Escape(w)
      BY <2>6 DEF J!Escape
    <2> QED  BY <2>1, <2>2, <2>3, <2>4, <2>5, <2>6 DEF BackendStep, J!ReconcileStep
  <1>3. tail[w] = "reconciling" /\ pc[w] = "idle" /\ Follows(w) /\ SaysWhatItSaw(w)
    BY <1>2 DEF JobInv, Follows
  <1>4. Follows(w)'
    BY <1>1, <1>2, <1>3 DEF Follows, vars, StepOf, Inside
  <1>5. SaysWhatItSaw(w)'
    <2> USE DEF JobInv, JobsTyped, Request, SaysWhatItSaw
    <2>1. CASE J!Submit(w) \/ J!Delete(w)
      BY <2>1 DEF J!Submit, J!Delete
    <2>2. CASE J!Observe(w)
      BY <2>2 DEF J!Observe, J!AfterComplete
    <2>3. CASE J!ReadResult(w)
      BY <2>3 DEF J!ReadResult
    <2>4. CASE J!Record(w)
      BY <1>3, <2>4 DEF J!Record
    <2>5. CASE J!Escape(w)
      BY <2>5 DEF J!Escape
    <2> QED  BY <2>1, <2>2, <2>3, <2>4, <2>5 DEF BackendStep, J!ReconcileStep
  <1>6. ASSUME NEW v \in Workers  PROVE (Follows(v) /\ SaysWhatItSaw(v))'
    <2>1. CASE v = w
      BY <1>4, <1>5, <2>1
    <2>2. CASE v # w
      BY <1>1, <1>2, <2>2, FollowsOn DEF vars
    <2> QED  BY <2>1, <2>2
  <1> QED  BY <1>1, <1>6, StillInv

LEMMA ClusterStepInv ==
  ASSUME JobInv, NEW id \in StepIds, J!ClusterStep(id), UNCHANGED <<vars, tail>>
  PROVE  JobInv'
  <1>1. JobsTyped' /\ JobGrows /\ UNCHANGED vars
    BY ServiceMoves
  <1>2. UNCHANGED call
    BY DEF J!ClusterStep, J!PodWrites, J!PodEnds, J!JobRemoved
  <1>3. \A v \in Workers : (Follows(v) /\ SaysWhatItSaw(v))'
    BY <1>1, <1>2, FollowsOn DEF vars
  <1> QED  BY <1>1, <1>3, StillInv
-----------------------------------------------------------------------------
(* Together.                                                               *)

LEMMA InitJobInv == InitJ => JobInv
  <1> SUFFICES ASSUME InitJ  PROVE JobInv
    OBVIOUS
  <1>1. Init /\ J!Init /\ tail = [w \in Workers |-> "none"]
    BY DEF InitJ
  <1>2. Kernel
    <2>1. IInv
      BY <1>1, InitIInv
    <2> QED  BY <2>1 DEF IInv, RowInv, CopyInv, LedgerInv, Kernel
  <1>3. StepsNumbered
    BY <1>1, NumberedStart
  <1>4. JobsTyped
    <2>1. J!NoCall \in Request
      BY DEF J!NoCall, Request, JobState
    <2> QED  BY <1>1, <2>1 DEF J!Init, JobsTyped, JobState, TailState
  <1>5. FreshOwner /\ JobRows /\ StartsOnce
    BY <1>1 DEF Init, FreshOwner, JobRows, StartsOnce, Starts
  <1>6. ASSUME NEW w \in Workers  PROVE Follows(w) /\ SaysWhatItSaw(w)
    BY <1>1 DEF J!Init, J!NoCall, Follows, SaysWhatItSaw
  <1>7. task.state = "created"
    BY <1>1 DEF Init, NewTask
  <1> QED
    BY <1>2, <1>3, <1>4, <1>5, <1>6, <1>7 DEF JobInv, WaitsStill, WaitingHasJob

(* A step of the job branch, by what it is of.                             *)
LEMMA JobBranchInv ==
  ASSUME JobInv, NEW w \in Workers, JobBranch(w)
  PROVE  JobInv'
  <1>1. IsJob(StepOf(w))
    BY DEF JobBranch, InJobBranch
  <1>2. ~Rearm(w)
    BY <1>1 DEF Rearm, JobInv, StartsOnce
  <1> QED
    BY <1>1, <1>2, ReserveJobInv, CondemnJobInv, StartJobInv, JobRefusedInv, RequestJobInv DEF JobBranch

LEMMA StepJobInv == JobInv /\ [NextJ]_allVars => JobInv'
  <1> SUFFICES ASSUME JobInv, [NextJ]_allVars  PROVE JobInv'
    OBVIOUS
  <1>1. ASSUME NEW w \in Workers, JobStep(w)  PROVE JobInv'
    BY <1>1, WaitForJobInv, LookupJobInv, JobMissingInv, SettleJobInv, MaterializeInv, ContinueRunInv,
       JobReturnsInv, CancelReadsInv, CancelJobInv, BackendStepInv
    DEF JobStep
  <1>2. ASSUME NEW w \in Workers, CancelWaiting(w)  PROVE JobInv'
    <2>1. Control /\ UNCHANGED jobVars /\ tail[w] = "none" /\ pc[w] = "idle" /\ Then(w, "cancel_read")
      BY <1>2 DEF CancelWaiting, Control
    <2> QED  BY <2>1, ControlInv
  <1>3. ASSUME NEW w \in Workers, Heartbeat(w), UNCHANGED <<jobVars, tail>>  PROVE JobInv'
    BY <1>3, ControlInv
  <1>4. ASSUME Control \/ LeaseExpires, UNCHANGED <<jobVars, tail>>  PROVE JobInv'
    BY <1>4, ControlInv
  <1>5. ASSUME UNCHANGED allVars  PROVE JobInv'
    <2>1. UNCHANGED vars /\ UNCHANGED <<job, cluster, result, call, tail>>
      BY <1>5 DEF allVars, jobVars
    <2>2. JobGrows /\ JobsTyped'
      BY <2>1, SameJobsGrow DEF JobInv, JobsTyped
    <2>3. \A v \in Workers : (Follows(v) /\ SaysWhatItSaw(v))'
      BY <2>1, <2>2, FollowsOn DEF vars
    <2> QED  BY <2>1, <2>2, <2>3, StillInv
  <1> QED
    BY <1>1, <1>2, <1>3, <1>4, <1>5, RuntimeStepInv, JobBranchInv, JobInterruptInv, ClientReconcilesInv,
       TailInterruptInv, CrashInv, ClusterStepInv
    DEF NextJ

LEMMA SpecJobInv == SpecJ => []JobInv
  BY InitJobInv, StepJobInv, PTL DEF SpecJ

(* reconcile_job writes a result only after _read_result has found the one   *)
(* of the job, so no job step gets behind the checkpoint of agent_tasks      *)
(* without it, whoever cancelled, crashed or took the task over.             *)
THEOREM JobBacked == SpecJ => []JobResultBacked
  <1>1. JobInv => JobResultBacked
    BY DEF JobInv, Kernel, CheckpointHasResult, JobRows, JobRow, JobResultBacked
  <1> QED  BY <1>1, SpecJobInv, PTL

(* The ledger row of a job never fails and is never rearmed, so only the     *)
(* thread whose INSERT made it starts it, and starts it once.                *)
THEOREM AttemptedOnce == SpecJ => []JobAttemptedOnce
  <1>1. JobInv => JobAttemptedOnce
    BY DEF JobInv, JobRows, JobRow, JobAttemptedOnce
  <1> QED  BY <1>1, SpecJobInv, PTL

(* A task goes to `waiting_job` under the version it requested its job at,   *)
(* and nobody moves its plan or its step while it waits.                     *)
THEOREM WaitingBacked == SpecJ => []WaitingHasJob
  <1>1. JobInv => WaitingHasJob
    BY DEF JobInv
  <1> QED  BY <1>1, SpecJobInv, PTL

(* What the runtime does to the variables of JobService.                   *)
Drops == \E w \in Workers : call' = [call EXCEPT ![w] = J!NoCall] /\ UNCHANGED <<job, cluster, result>>

LEMMA ServiceFrame ==
  ASSUME JobInv, [NextJ]_allVars
  PROVE  J!Next \/ UNCHANGED jobVars \/ Drops
  <1> DEFINE Same == UNCHANGED jobVars
  <1>1. ASSUME NEW w \in Workers, JobBranch(w)  PROVE J!Next \/ Same
    <2>1. CASE RequestJob(w)
      <3>1. StepOf(w).id \in StepIds
        BY <1>1, <2>1, RequestJobInv DEF JobBranch, InJobBranch
      <3> QED  BY <2>1, <3>1 DEF RequestJob, J!Next
    <2> QED  BY <1>1, <2>1 DEF JobBranch
  <1>2. ASSUME NEW w \in Workers, JobStep(w)  PROVE J!Next \/ Same
    <2>1. CASE LookupJob(w)
      <3>1. StepOf(w).id \in StepIds
        BY <2>1, LookupJobInv
      <3> QED  BY <2>1, <3>1 DEF LookupJob, J!Next
    <2>2. CASE CancelJob(w)
      <3>1. StepOf(w).id \in StepIds
        BY <2>2, NumberedStep DEF CancelJob, JobInv, Kernel, Typed, Follows
      <3> QED  BY <2>2, <3>1 DEF CancelJob, J!Next
    <2>3. CASE SettleJob(w) \/ MaterializeResult(w) \/ JobReturns(w)
      BY <2>3 DEF SettleJob, MaterializeResult, JobReturns, J!Next
    <2>4. CASE BackendStep(w)
      BY <2>4 DEF BackendStep, J!Next
    <2>5. CASE WaitForJob(w) \/ JobMissing(w) \/ ContinueRun(w) \/ CancelReads(w)
      BY <2>5 DEF WaitForJob, JobMissing, ContinueRun, CancelReads
    <2> QED  BY <1>2, <2>1, <2>2, <2>3, <2>4, <2>5 DEF JobStep
  <1>3. ASSUME NEW w \in Workers, CrashJ(w)  PROVE Drops
    BY <1>3 DEF CrashJ, Drops
  <1>4. ASSUME NEW w \in Workers,
               RuntimeStep(w) \/ JobInterrupt(w) \/ ClientReconcilesJob(w) \/ CancelWaiting(w) \/ TailInterrupt(w)
        PROVE  Same
    BY <1>4 DEF RuntimeStep, JobInterrupt, ClientReconcilesJob, CancelWaiting, TailInterrupt
  <1>5. ASSUME NEW id \in StepIds, J!ClusterStep(id)  PROVE J!Next
    BY <1>5 DEF J!Next
  <1>6. UNCHANGED allVars => Same
    BY DEF allVars
  <1>7. UNCHANGED <<jobVars, tail>> => Same
    OBVIOUS
  <1> HIDE DEF Same
  <1>8. J!Next \/ Same \/ Drops
    BY <1>1, <1>2, <1>3, <1>4, <1>5, <1>6, <1>7 DEF NextJ
  <1> QED  BY <1>8 DEF Same

(* A call that is over left nothing behind. *)
Resting == \A w \in Workers : call[w].at = "idle" => call[w] = J!NoCall

LEMMA RestingStep == JobInv /\ Resting /\ [NextJ]_allVars => Resting'
  <1> SUFFICES ASSUME JobInv, Resting, [NextJ]_allVars  PROVE Resting'
    OBVIOUS
  <1> USE DEF Resting, JobInv, JobsTyped, Request, J!At, J!Goto, J!Observed
  <1>1. ASSUME NEW id \in StepIds, J!Request(id) \/ J!RequestCancel(id) \/ J!ClusterStep(id)
        PROVE  call' = call
    BY <1>1 DEF J!Request, J!RequestCancel, J!ClusterStep, J!PodWrites, J!PodEnds, J!JobRemoved
  <1>2. ASSUME NEW w \in Workers, NEW id \in StepIds, J!Read(w, id)  PROVE Resting'
    BY <1>2 DEF J!Read
  <1>3. ASSUME NEW w \in Workers, J!ReconcileStep(w) \/ J!Escape(w)  PROVE Resting'
    <2>1. CASE J!Submit(w) \/ J!Delete(w) \/ J!ReadResult(w) \/ J!Record(w) \/ J!Escape(w)
      BY <2>1 DEF J!Submit, J!Delete, J!ReadResult, J!Record, J!Escape
    <2>2. CASE J!Observe(w)
      BY <2>2 DEF J!Observe, J!AfterComplete
    <2> QED  BY <1>3, <2>1, <2>2 DEF J!ReconcileStep
  <1>4. ASSUME NEW w \in Workers, J!Return(w) \/ J!CrashCall(w)  PROVE Resting'
    BY <1>4 DEF J!Return, J!CrashCall
  <1>5. Drops \/ UNCHANGED jobVars => Resting'
    BY DEF Drops, jobVars
  <1> QED  BY <1>1, <1>2, <1>3, <1>4, <1>5, ServiceFrame DEF J!Next

(* The runtime drives JobService by its operations only, for the steps of    *)
(* its plan, and never changes a job, a result or a call otherwise.          *)
THEOREM JobsImplemented == SpecJ => J!Spec
  <1>1. InitJ => J!Init /\ Resting
    BY DEF InitJ, J!Init, Resting
  <1>2. ASSUME JobInv, Resting, [NextJ]_allVars  PROVE [J!Next]_(J!jobVars)
    <2>1. CASE UNCHANGED jobVars
      BY <2>1 DEF jobVars, J!jobVars
    <2>2. ASSUME NEW w \in Workers,
                 call' = [call EXCEPT ![w] = J!NoCall], UNCHANGED <<job, cluster, result>>
          PROVE  [J!Next]_(J!jobVars)
      <3>1. CASE J!At(w, "idle")
        <4>1. call' = call
          BY <1>2, <2>2, <3>1 DEF Resting, J!At, JobInv, JobsTyped
        <4> QED  BY <2>2, <4>1 DEF J!jobVars
      <3>2. CASE ~J!At(w, "idle")
        BY <2>2, <3>2 DEF J!CrashCall, J!Next
      <3> QED  BY <3>1, <3>2
    <2> QED  BY <1>2, <2>1, <2>2, ServiceFrame DEF Drops
  <1> QED
    BY <1>1, <1>2, SpecJobInv, RestingStep, PTL DEF SpecJ, J!Spec
=============================================================================
