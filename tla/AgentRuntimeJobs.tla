-------------------------- MODULE AgentRuntimeJobs --------------------------
(***************************************************************************)
(* The runtime built with a JobService: a step of a tool whose execution   *)
(* is kubernetes_job is reserved in the ledger, becomes a row of           *)
(* agent_jobs, and the task waits until reconcile_job has brought back its *)
(* result.  No handler runs.                                               *)
(*                                                                         *)
(* An element of Workers is a thread: it is inside run(), or, while        *)
(* pc = "idle", inside reconcile_job or cancel.                            *)
(***************************************************************************)
EXTENDS AgentRuntime

CONSTANT JobTools  \* tools with execution = "kubernetes_job"

ASSUME JobToolsAssumption == JobTools \subseteq Tools

VARIABLES job, cluster, result, call,
          tail  \* what each thread still has to do about a job

StepIds == (1..MaxPlanVersion) \X (1..MaxSteps)

J == INSTANCE JobService WITH Callers <- Workers

jobVars == <<job, cluster, result, call>>

allVars == <<vars, jobVars, tail>>

InitJ == Init /\ J!Init /\ tail = [w \in Workers |-> "none"]

Then(w, next) == tail' = [tail EXCEPT ![w] = next]
-----------------------------------------------------------------------------
(* The branch of run() for a job: the ledger as in _call_tool, but every   *)
(* RuntimeError, ReconciliationRequired among them, is a _fail under the   *)
(* version read at the head of the loop.                                   *)

IsJob(s) == s.tool \in JobTools

InJobBranch(w) ==
  pc[w] \in {"reserve", "rearm", "condemn", "start", "call"} /\ IsJob(StepOf(w))

(* Defect: a worker that resumes requests the job again. *)
RestartedJob(w, s) == IF Cached(s) THEN AfterResult(w) ELSE "start"

JobReserveOutcome(w, s) ==
  LET found == ReserveOutcome(w, s) IN
    IF found \in {"reread_fail", "reread_reconcile"} THEN "fail" ELSE found

ReserveJob(w) ==
  /\ pc[w] = "reserve"
  /\ LET s == StepOf(w) IN
       IF s.id \in DOMAIN ledger
       THEN Goto(w, JobReserveOutcome(w, s)) /\ UNCHANGED ledger
       ELSE /\ ledger' = [id \in DOMAIN ledger \cup {s.id} |->
                            IF id = s.id THEN NewRun(s.tool) ELSE ledger[id]]
            /\ Goto(w, "start")
  /\ UNCHANGED <<task, fresh, wasLeased, passed, granted, snap, att>>

CondemnJob(w) ==
  /\ pc[w] = "condemn"
  /\ FinishToolRun(StepOf(w), "reconciliation_required", "none")
  /\ Goto(w, "fail")
  /\ UNCHANGED <<task, fresh, wasLeased, passed, granted, snap, att>>

RequestJob(w) ==
  /\ pc[w] = "call" /\ tail[w] = "none"
  /\ J!Request(StepOf(w).id)
  /\ Then(w, "requested")
  /\ UNCHANGED vars

WaitForJob(w) ==
  /\ tail[w] = "requested"
  /\ CasAndExit(w, [task EXCEPT !.state = "waiting_job"])
  /\ Then(w, "none")
  /\ UNCHANGED <<ledger, passed, granted, jobVars>>

(* request raises ValueError: the arguments or the kind are unusable. *)
JobRefused(w) ==
  /\ pc[w] = "call" /\ tail[w] = "none"
  /\ Goto(w, "fail")
  /\ UNCHANGED <<task, fresh, wasLeased, ledger, passed, granted, snap, att>>

(* Any other exception leaves run(). *)
JobInterrupt(w) ==
  /\ InJobBranch(w)
  /\ Exit(w)
  /\ Then(w, "none")
  /\ UNCHANGED <<task, fresh, wasLeased, ledger, passed, granted, jobVars>>

JobBranch(w) ==
  /\ InJobBranch(w)
  /\ \/ /\ ReserveJob(w) \/ Rearm(w) \/ CondemnJob(w) \/ StartAttempt(w) \/ JobRefused(w)
        /\ UNCHANGED <<jobVars, tail>>
     \/ RequestJob(w)
-----------------------------------------------------------------------------
(* reconcile_job *)

ClientReconcilesJob(w) ==
  /\ pc[w] = "idle" /\ tail[w] = "none"
  /\ task.state \in {"waiting_job", "cancelling"}
  /\ ~PlanDone(task)
  /\ ReadVersion(w)
  /\ snap' = [snap EXCEPT ![w] = Copy(task)]
  /\ Then(w, "lookup")
  /\ UNCHANGED <<ledger, passed, granted, pc, att, jobVars>>

LookupJob(w) ==
  /\ tail[w] = "lookup"
  /\ J!Read(w, StepOf(w).id)
  /\ Then(w, "reconciling")
  /\ UNCHANGED vars

(* The step never was a job: cancelling was asked of a tool that ran inline. *)
JobMissing(w) ==
  /\ tail[w] = "lookup" /\ job[StepOf(w).id] = "absent"
  /\ Forget(w)
  /\ Then(w, "none")
  /\ UNCHANGED <<task, wasLeased, ledger, passed, granted, jobVars>>

Outcome(w) == call[w].state

Settled(w) == tail[w] = "reconciling" /\ J!At(w, "done")

OrphanWaits(outcome) ==   \* Defect: a job that vanished is waited for
  IF outcome = "orphaned" THEN "waiting_job" ELSE outcome

VerdictOf(outcome) ==
  CASE outcome = "cancelled" -> "cancelled"
    [] outcome = "orphaned"  -> "reconciliation_required"
    [] OTHER                 -> "failed"

(* _transition and _fail under the version the client sent *)
SettleJob(w) ==
  /\ Settled(w) /\ Outcome(w) \in {"cancelled", "orphaned", "failed"}
  /\ J!Return(w)
  /\ IF w \in fresh THEN Update([task EXCEPT !.state = VerdictOf(Outcome(w))]) ELSE KeepRow
  /\ Then(w, "none")
  /\ DropLocals(w)
  /\ UNCHANGED <<ledger, passed, granted, pc>>

(* _tool_result and _finish_tool_run *)
MaterializeResult(w) ==
  /\ Settled(w) /\ Outcome(w) = "succeeded"
  /\ LET s == StepOf(w) IN
       IF s.id \in DOMAIN ledger /\ ~Hidden(s)
       THEN FinishToolRun(s, "succeeded", "succeeded") ELSE UNCHANGED ledger
  /\ J!Return(w)
  /\ Then(w, "materialized")
  /\ UNCHANGED <<task, fresh, wasLeased, passed, granted, pc, snap, att>>

(* The task can be run again, by this thread or by another. *)
ContinueRun(w) ==
  /\ tail[w] = "materialized"
  /\ IF w \in fresh THEN Update([task EXCEPT !.state = "created"]) ELSE KeepRow
  /\ Then(w, "none")
  /\ DropLocals(w)
  /\ UNCHANGED <<ledger, passed, granted, pc, jobVars>>

(* The job is running, or reconcile raised, or the payload broke the       *)
(* contract of the tool.                                                   *)
JobReturns(w) ==
  /\ tail[w] = "reconciling"
  /\ J!At(w, "done") => Outcome(w) \in {"running", "succeeded"}
  /\ J!Return(w)
  /\ Then(w, "none")
  /\ DropLocals(w)
  /\ fresh' = fresh \ {w}
  /\ UNCHANGED <<task, wasLeased, ledger, passed, granted, pc>>
-----------------------------------------------------------------------------
(* cancel of a task that waits for a job: request_cancel follows in         *)
(* transactions of its own.                                                *)

CancelWaiting(w) ==
  /\ pc[w] = "idle" /\ tail[w] = "none"
  /\ task.state = "waiting_job"
  /\ \E leased \in LeaseReadings : Cancel(leased)
  /\ Then(w, "cancel_read")
  /\ UNCHANGED jobVars

CancelReads(w) ==
  /\ tail[w] = "cancel_read"
  /\ snap' = [snap EXCEPT ![w] = Copy(task)]
  /\ Then(w, IF PlanDone(task) THEN "none" ELSE "cancel_job")
  /\ UNCHANGED <<task, fresh, wasLeased, ledger, passed, granted, pc, att, jobVars>>

CancelJob(w) ==
  /\ tail[w] = "cancel_job"
  /\ J!RequestCancel(StepOf(w).id)
  /\ Then(w, "none")
  /\ DropLocals(w)
  /\ UNCHANGED <<task, fresh, wasLeased, ledger, passed, granted, pc>>
-----------------------------------------------------------------------------
(* The steps of AgentRuntime that jobs do not change. *)
RuntimeStep(w) ==
  /\ tail[w] = "none"
  /\ ~InJobBranch(w)
  /\ Acquire(w) \/ RunStep(w) \/ Interrupt(w)
  /\ UNCHANGED <<jobVars, tail>>

BackendStep(w) ==
  /\ J!ReconcileStep(w) \/ J!Escape(w)
  /\ UNCHANGED <<vars, tail>>

JobStep(w) ==
  \/ WaitForJob(w) \/ LookupJob(w) \/ JobMissing(w) \/ SettleJob(w) \/ MaterializeResult(w)
  \/ ContinueRun(w) \/ JobReturns(w) \/ CancelReads(w) \/ CancelJob(w) \/ BackendStep(w)

(* A database error outside the calls of JobService. *)
TailInterrupt(w) ==
  /\ tail[w] # "none" /\ J!At(w, "idle") /\ pc[w] = "idle"
  /\ Forget(w)
  /\ Then(w, "none")
  /\ UNCHANGED <<task, wasLeased, ledger, passed, granted, jobVars>>

CrashJ(w) ==
  /\ pc[w] # "idle" \/ tail[w] # "none"
  /\ Forget(w)
  /\ call' = [call EXCEPT ![w] = J!NoCall]
  /\ Then(w, "none")
  /\ UNCHANGED <<task, wasLeased, ledger, passed, granted, job, cluster, result>>

NextJ ==
  \/ \E w \in Workers :
       \/ RuntimeStep(w) \/ JobBranch(w) \/ JobInterrupt(w) \/ JobStep(w)
       \/ ClientReconcilesJob(w) \/ CancelWaiting(w)
       \/ TailInterrupt(w) \/ CrashJ(w)
       \/ Heartbeat(w) /\ UNCHANGED <<jobVars, tail>>
  \/ /\ LeaseExpires \/ (task.state # "waiting_job" /\ Control)
     /\ UNCHANGED <<jobVars, tail>>
  \/ \E id \in StepIds : J!ClusterStep(id) /\ UNCHANGED <<vars, tail>>

SpecJ == InitJ /\ [][NextJ]_allVars
-----------------------------------------------------------------------------
CurrentId == task.plan[task.step + 1].id

(* A task that waits for a job has one to wait for, under the step it      *)
(* stopped at; otherwise no reconciliation could ever let it go on.        *)
WaitingHasJob ==
  task.state = "waiting_job" => ~PlanDone(task) /\ job[CurrentId] # "absent"

(* A job step is behind the checkpoint only if the result of its own job   *)
(* and input was in the store, whatever Kubernetes says of the job, and    *)
(* whoever reconciled, cancelled or took the task over meanwhile.          *)
JobResultBacked ==
  \A i \in 1..task.step :
    task.plan[i].tool \in JobTools => result[task.plan[i].id] = "valid"

(* A worker that resumes never requests a job a second time, so a job step *)
(* is attempted once for good, also where the tool has no side effects.    *)
JobAttemptedOnce ==
  \A id \in DOMAIN ledger : ledger[id].tool \in JobTools => ledger[id].attempt <= 1

(* Liveness.  Threads and pods go on, a client reconciles a task that      *)
(* waits, somebody runs one that is runnable, and time passes.  A call of  *)
(* a client finds a thread sooner or later, hence the strong fairness.     *)
ThreadStep(w) ==
  \/ RunStep(w) /\ tail[w] = "none" /\ ~InJobBranch(w) /\ UNCHANGED <<jobVars, tail>>
  \/ JobBranch(w)
  \/ WaitForJob(w) \/ LookupJob(w) \/ JobMissing(w) \/ SettleJob(w) \/ MaterializeResult(w)
  \/ ContinueRun(w) \/ JobReturns(w) \/ CancelReads(w) \/ CancelJob(w)
  \/ J!ReconcileStep(w) /\ UNCHANGED <<vars, tail>>

PodStep(id) == (J!PodEnds(id) \/ J!JobRemoved(id)) /\ UNCHANGED <<vars, tail>>

SomebodyRuns == \E w \in Workers : Acquire(w) /\ tail[w] = "none" /\ UNCHANGED <<jobVars, tail>>

SomebodyReconciles == \E w \in Workers : ClientReconcilesJob(w)

Lapses == LeaseLapses /\ UNCHANGED <<jobVars, tail>>

FairnessJ ==
  /\ \A w \in Workers : WF_allVars(ThreadStep(w))
  /\ \A id \in StepIds : WF_allVars(PodStep(id))
  /\ SF_allVars(SomebodyRuns) /\ SF_allVars(SomebodyReconciles) /\ WF_allVars(Lapses)

LiveSpecJ == SpecJ /\ FairnessJ

Calm ==
  \/ \E w \in Workers : ThreadStep(w)
  \/ \E id \in StepIds : J!ClusterStep(id) /\ UNCHANGED <<vars, tail>>
  \/ SomebodyRuns \/ SomebodyReconciles \/ Lapses

(* Once crashes, errors and requests stop, no task waits for a job for     *)
(* ever, and none stays in cancelling: not when the cancel of the job was  *)
(* lost, the job has vanished, or its result is refused again and again.   *)
WaitEnds ==
  LET waits == task.state \in {"waiting_job", "cancelling"} IN
    <>[][Calm]_allVars => (waits ~> ~waits)
=============================================================================
