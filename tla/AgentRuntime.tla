---------------------------- MODULE AgentRuntime ----------------------------
(***************************************************************************)
(* One task of src/core/agent_runtime.py: its agent_tasks row, the         *)
(* agent_tool_runs ledger of its steps, the agent_step_verifications log,  *)
(* the workers inside run() and the control operations of the HTTP API.    *)
(* The runtime modelled here is the one built without an EvidenceService   *)
(* and without a JobService (both default to None).                        *)
(*                                                                         *)
(* The `version` column is only ever compared for equality with a version  *)
(* read before, so it is kept as the set `fresh` of workers whose copy of  *)
(* the row still carries the current version: every UPDATE that bumps the  *)
(* column empties it.  Tasks are independent rows; one task is enough.     *)
(***************************************************************************)
EXTENDS Naturals, Sequences

CONSTANTS
  Workers,         \* one element per concurrent run() call
  Tools,           \* registered tool names
  SideEffecting,   \* tools with side_effecting = True
  NeedsApproval,   \* tools with requires_approval = True
  MaxRetries,      \* ToolSpec.max_retries of each tool
  Criteria,        \* required criteria of phase after_step
  FinalCriteria,   \* required criteria of phase final
  MaxSteps,        \* bound: max_steps of the task
  MaxPlanVersion,  \* bound: revisions of the plan a behaviour may make
  MaxAttempt,      \* bound: the attempt column saturates here
  FINAL_STEP_ID,   \* the step_id of the final verification
  None             \* SQL NULL

ASSUME ToolsAssumption ==
  /\ SideEffecting \subseteq Tools
  /\ NeedsApproval \subseteq Tools
  /\ MaxRetries \in [Tools -> Nat]

ASSUME CriteriaAssumption == Criteria \cap FinalCriteria = {}

ASSUME BoundsAssumption ==
  /\ MaxSteps \in Nat \ {0}
  /\ MaxPlanVersion \in Nat \ {0}
  /\ MaxAttempt \in Nat
  /\ \A t \in SideEffecting : MaxAttempt > MaxRetries[t] + 1

ASSUME NoneAssumption == None \notin Workers

VARIABLES
  task,      \* the agent_tasks row
  fresh,     \* workers whose copy of the row has the current version
  wasLeased, \* the current version of the row has been seen with a lease
  ledger,    \* agent_tool_runs: one row per step that was ever reserved
  passed,    \* passed rows of agent_step_verifications: <<step, criterion>>
  granted,   \* steps named by an approval_granted event
  pc,        \* where each worker is in run()
  snap,      \* the row each worker last read
  att        \* attempts each worker made in its present _call_tool

vars == <<task, fresh, wasLeased, ledger, passed, granted, pc, snap, att>>
-----------------------------------------------------------------------------
(* Steps and plans.  A step_id is a fresh UUID unless the caller supplies  *)
(* one.  A fresh one is kept as the plan version that introduced the step  *)
(* and its position.                                                       *)

Id == (Nat \ {0}) \X (Nat \ {0})

Step == [id : Id, tool : Tools, crits : SUBSET Criteria]

Drafts == UNION {[1..n -> Tools \X SUBSET Criteria] : n \in 1..MaxSteps}

Steps(draft, ids) ==
  [i \in DOMAIN draft |-> [id |-> ids[i], tool |-> draft[i][1], crits |-> draft[i][2]]]

(* Here and below, a definition marked "Defect" is a plausible bug in the  *)
(* one that follows it, against which a property is tried.                 *)

FreshIds(n, ver, offset) == [i \in 1..n |-> <<ver, offset + i>>]

ToolsOf(plan) == {plan[i].tool : i \in DOMAIN plan}

ReferencedOnce(plan) ==
  \A c \in Criteria : \E i \in DOMAIN plan :
    /\ c \in plan[i].crits
    /\ \A j \in DOMAIN plan : c \in plan[j].crits => j = i

WellFormed(plan, strict) ==
  IF strict
  THEN /\ Len(plan) <= MaxSteps
       /\ ReferencedOnce(plan)
       /\ \A i \in DOMAIN plan : plan[i].tool \in SideEffecting => plan[i].crits # {}
  ELSE /\ Len(plan) = 1
       /\ plan[1].tool \notin SideEffecting /\ plan[1].crits = {}

TerminalStates ==
  {"succeeded", "failed", "cancelled", "reconciliation_required",
   "verification_failed", "verification_blocked"}

StopStates ==
  TerminalStates \cup
  {"paused", "waiting_approval", "awaiting_verification", "evidence_pending", "waiting_job"}

TaskStates == StopStates \cup {"created", "running", "pausing", "cancelling"}

NoApproval == [step |-> None, status |-> "none"]

Approval == {NoApproval} \cup [step : Step, status : {"requested", "granted", "rejected"}]

TaskRow ==
  [state : TaskStates, strict : BOOLEAN, allowed : SUBSET Tools, plan : Seq(Step),
   planVersion : Nat \ {0}, step : Nat, approval : Approval, pause : BOOLEAN, cancel : BOOLEAN,
   owner : Workers \cup {None}, live : BOOLEAN]

ToolRun ==
  [tool : Tools,
   state : {"reserved", "running", "succeeded", "failed", "reconciliation_required"},
   attempt : 0..MaxAttempt, result : {"none", "succeeded", "failed"}]

Phases ==
  {"idle", "loop", "decide", "final", "succeed", "reserve", "rearm", "condemn", "start",
   "call", "verify", "checkpoint", "reread_fail", "reread_reconcile", "fail", "reconcile",
   "release"}

RowOK == task \in TaskRow /\ fresh \in SUBSET Workers /\ wasLeased \in BOOLEAN

LedgerOK == DOMAIN ledger \subseteq Id /\ \A id \in DOMAIN ledger : ledger[id] \in ToolRun

LogOK ==
  /\ passed \subseteq (Id \cup {FINAL_STEP_ID}) \X (Criteria \cup FinalCriteria)
  /\ granted \subseteq Step

LocalsOK ==
  pc \in [Workers -> Phases] /\ snap \in [Workers -> TaskRow] /\ att \in [Workers -> Nat]

Typed == RowOK /\ LedgerOK /\ LogOK /\ LocalsOK

(* The checkpoint stays within the plan of the row, whichever worker        *)
(* advances it last and whatever a replan put behind it: get_task and run   *)
(* index the plan with it.                                                  *)
StepBound == task.step <= Len(task.plan)

(* The values that the row, the ledger, the log and the workers can hold.   *)
TypeOK == Typed /\ StepBound
-----------------------------------------------------------------------------
(* create_task: any plan the API accepts, in either execution mode. *)

NewTask(plan, strict) ==
  [state |-> "created", strict |-> strict, allowed |-> ToolsOf(plan), plan |-> plan,
   planVersion |-> 1, step |-> 0, approval |-> NoApproval, pause |-> FALSE, cancel |-> FALSE, owner |-> None, live |-> FALSE]

NoCopy == NewTask(<< >>, FALSE)

Init ==
  /\ \E draft \in Drafts, strict \in BOOLEAN :
       LET plan == Steps(draft, FreshIds(Len(draft), 1, 0)) IN
         WellFormed(plan, strict) /\ task = NewTask(plan, strict)
  /\ fresh = {}
  /\ wasLeased = FALSE
  /\ ledger = << >>
  /\ passed = {}
  /\ granted = {}
  /\ pc = [w \in Workers |-> "idle"]
  /\ snap = [w \in Workers |-> NoCopy]
  /\ att = [w \in Workers |-> 0]
-----------------------------------------------------------------------------
(* Writing the row.  Update is an UPDATE that sets version = version + 1;  *)
(* CasAndExit is a _transition with expected_version followed by the way   *)
(* out of run(): when the version moved on, _transition raises and only    *)
(* the `finally` block runs.                                               *)

Goto(w, phase) == pc' = [pc EXCEPT ![w] = phase]

Update(row) ==
  /\ task' = row
  /\ fresh' = {}
  /\ wasLeased' = (row.owner # None)

KeepRow == UNCHANGED <<task, fresh, wasLeased>>

(* What a copy of the row is used for: everything but the lease columns. *)
Copy(row) == [row EXCEPT !.owner = None, !.live = FALSE]

ReadVersion(w) ==
  /\ fresh' = fresh \cup {w}
  /\ UNCHANGED <<task, wasLeased>>

(* The local variables are dropped: nothing on the way out reads them. *)
DropLocals(w) ==
  /\ snap' = [snap EXCEPT ![w] = NoCopy]
  /\ att' = [att EXCEPT ![w] = 0]

KeepLocals == UNCHANGED <<snap, att>>

Exit(w) == Goto(w, "release") /\ DropLocals(w)

CasAndExit(w, row) ==
  /\ IF w \in fresh THEN Update(row) ELSE KeepRow
  /\ Exit(w)

(* run() is over. *)
Forget(w) ==
  /\ Goto(w, "idle")
  /\ fresh' = fresh \ {w}
  /\ DropLocals(w)

(* The step a worker works on, and the facts it decides by, come from its copy. *)
StepOf(w) == snap[w].plan[snap[w].step + 1]

PlanDone(row) == row.step >= Len(row.plan)

Controlled(row) == row.cancel \/ row.pause \/ row.state \in {"cancelling", "pausing"}

SideEffect(s) == s.tool \in SideEffecting

ApprovalMissing(row) ==
  /\ row.plan[row.step + 1].tool \in NeedsApproval
  /\ row.approval.status # "granted"
-----------------------------------------------------------------------------
(* The lease.                                                              *)

(* Defect: the lease of a dead worker never runs out. *)
LeaseFreeIfReleased(row) == row.owner = None

LeaseFree(row) == row.owner = None \/ ~row.live

(* _acquire_lease: the read, the test against stop_states and the guarded  *)
(* UPDATE are one step, because the UPDATE repeats the version.            *)
Acquire(w) ==
  /\ pc[w] = "idle"
  /\ task.state \notin StopStates
  /\ LeaseFree(task)
  /\ Update([task EXCEPT !.owner = w, !.live = TRUE,
                         !.state = IF @ = "created" THEN "running" ELSE @])
  /\ Goto(w, "loop")
  /\ UNCHANGED <<ledger, passed, granted, snap, att>>

(* _heartbeat does not bump the version. *)
Heartbeat(w) ==
  /\ pc[w] \notin {"idle", "release"}
  /\ task.owner = w
  /\ ~task.live
  /\ task' = [task EXCEPT !.live = TRUE]
  /\ UNCHANGED <<fresh, wasLeased, ledger, passed, granted, pc, snap, att>>

(* LEASE_SECONDS pass without a heartbeat. *)
LeaseExpires ==
  /\ task.live
  /\ task' = [task EXCEPT !.live = FALSE]
  /\ UNCHANGED <<fresh, wasLeased, ledger, passed, granted, pc, snap, att>>

(* The `finally` of run(): _release_lease does not bump the version. *)
Release(w) ==
  /\ pc[w] = "release"
  /\ task' = IF task.owner = w THEN [task EXCEPT !.owner = None, !.live = FALSE] ELSE task
  /\ Forget(w)
  /\ UNCHANGED <<wasLeased, ledger, passed, granted>>

(* The process dies: no `finally`, the lease stays until it expires. *)
Crash(w) ==
  /\ pc[w] # "idle"
  /\ Forget(w)
  /\ UNCHANGED <<task, wasLeased, ledger, passed, granted>>

(* An exception leaves run(): CancelledError at an await, an error of the   *)
(* database, a verifier whose contract drifted.                             *)
Interrupt(w) ==
  /\ pc[w] \notin {"idle", "release", "reserve", "rearm", "condemn", "start"}
  /\ Exit(w)
  /\ UNCHANGED <<task, fresh, wasLeased, ledger, passed, granted>>
-----------------------------------------------------------------------------
(* The head of the loop of run(). *)

Loop(w) ==
  /\ pc[w] = "loop"
  /\ IF task.owner = w
     THEN /\ ReadVersion(w)
          /\ snap' = [snap EXCEPT ![w] = Copy(task)]
          /\ Goto(w, "decide")
          /\ UNCHANGED att
     ELSE KeepRow /\ Exit(w)
  /\ UNCHANGED <<ledger, passed, granted>>

(* _safe_control *)
SafeControl(w) ==
  /\ pc[w] = "decide"
  /\ Controlled(snap[w])
  /\ CasAndExit(w,
       IF snap[w].cancel \/ snap[w].state = "cancelling"
       THEN [task EXCEPT !.state = "cancelled", !.cancel = FALSE, !.pause = FALSE]
       ELSE [task EXCEPT !.state = "paused", !.pause = FALSE])
  /\ UNCHANGED <<ledger, passed, granted>>

(* A check before the step fails: deadline, role, arguments, contract drift, rate. *)
Refuse(w) ==
  /\ pc[w] = "decide"
  /\ ~Controlled(snap[w])
  /\ snap[w].strict \/ ~PlanDone(snap[w])
  /\ Goto(w, "fail")
  /\ UNCHANGED <<task, fresh, wasLeased, ledger, passed, granted, snap, att>>

PlanCompleted(w) ==
  /\ pc[w] = "decide"
  /\ ~Controlled(snap[w])
  /\ PlanDone(snap[w])
  /\ Goto(w, IF snap[w].strict THEN "final" ELSE "succeed")
  /\ UNCHANGED <<task, fresh, wasLeased, ledger, passed, granted, snap, att>>

Gate(w) ==
  /\ pc[w] = "decide"
  /\ ~Controlled(snap[w])
  /\ ~PlanDone(snap[w])
  /\ IF ApprovalMissing(snap[w])
     THEN CasAndExit(w, [task EXCEPT !.state = "waiting_approval",
                           !.approval = [step |-> StepOf(w), status |-> "requested"]])
     ELSE KeepRow /\ Goto(w, "reserve") /\ KeepLocals
  /\ UNCHANGED <<ledger, passed, granted>>
-----------------------------------------------------------------------------
(* _call_tool and its ledger row.  Every write but the first INSERT is an  *)
(* unconditional UPDATE of the row; a result is only ever written once     *)
(* (COALESCE(result_json, ...)).                                           *)

NewRun(tool) == [tool |-> tool, state |-> "reserved", attempt |-> 0, result |-> "none"]

(* Defect: the COALESCE is missing. *)
LastResult(run, result) == result

FirstResult(run, result) == IF run.result = "none" THEN result ELSE run.result

(* _finish_tool_run *)
FinishToolRun(s, state, result) ==
  ledger' = [ledger EXCEPT ![s.id].state = state,
                           ![s.id].result = FirstResult(ledger[s.id], result)]

AfterResult(w) == IF snap[w].strict THEN "verify" ELSE "checkpoint"

(* What _reserve_tool_run finds for a step that already has a row.  A row  *)
(* of another tool hides behind the unique index on the step_id: the       *)
(* INSERT does nothing and the SELECT by tool finds nothing.               *)
HiddenForgotten(s) == FALSE   \* Defect: the SELECT is by idempotency key alone
Hidden(s)      == ledger[s.id].tool # s.tool
Cached(s)      == ledger[s.id].result # "none"
RearmStale(s)  == ledger[s.id].state \in {"failed", "running"}   \* Defect: also side effects
Rearmable(s)   == ledger[s.id].state = "failed" /\ ~SideEffect(s)
Uncertain(s)   == ledger[s.id].state = "running" /\ SideEffect(s)
Reconciling(s) == ledger[s.id].state = "reconciliation_required"

(* Defect: a result that is already there is not verified again. *)
CachedIsVerified(w, s) == IF Cached(s) THEN "checkpoint" ELSE "reread_fail"

ReserveOutcome(w, s) ==
  IF Hidden(s) THEN "reread_fail"
  ELSE IF Cached(s) THEN AfterResult(w)
  ELSE IF Rearmable(s) THEN "rearm"
  ELSE IF Reconciling(s) THEN "reread_reconcile"
  ELSE IF Uncertain(s) THEN "condemn"
  ELSE "reread_fail"

(* _reserve_tool_run: the INSERT ... ON CONFLICT DO NOTHING and the SELECT.  *)
(* The row is not locked, so the UPDATE that may follow is a step of its own. *)
Reserve(w) ==
  /\ pc[w] = "reserve"
  /\ LET s == StepOf(w) IN
       IF s.id \in DOMAIN ledger
       THEN Goto(w, ReserveOutcome(w, s)) /\ UNCHANGED ledger
       ELSE /\ ledger' = [id \in DOMAIN ledger \cup {s.id} |->
                            IF id = s.id THEN NewRun(s.tool) ELSE ledger[id]]
            /\ Goto(w, "start")
  /\ UNCHANGED <<task, fresh, wasLeased, passed, granted, snap, att>>

(* A failed read-only run is reserved again. *)
Rearm(w) ==
  /\ pc[w] = "rearm"
  /\ ledger' = [ledger EXCEPT ![StepOf(w).id].state = "reserved"]
  /\ Goto(w, "start")
  /\ UNCHANGED <<task, fresh, wasLeased, passed, granted, snap, att>>

(* A side-effecting run found running has an unknown outcome. *)
Condemn(w) ==
  /\ pc[w] = "condemn"
  /\ FinishToolRun(StepOf(w), "reconciliation_required", "none")
  /\ Goto(w, "reread_reconcile")
  /\ UNCHANGED <<task, fresh, wasLeased, passed, granted, snap, att>>

(* _start_attempt, after which the handler runs *)
StartAttempt(w) ==
  /\ pc[w] = "start"
  /\ ledger' = [ledger EXCEPT ![StepOf(w).id].state = "running",
                              ![StepOf(w).id].attempt = IF @ < MaxAttempt THEN @ + 1 ELSE @]
  /\ att' = [att EXCEPT ![w] = @ + 1]
  /\ Goto(w, "call")
  /\ UNCHANGED <<task, fresh, wasLeased, passed, granted, snap>>

(* The handler raised or timed out and the retry budget is not used up. *)
RetryAttempt(w) ==
  /\ pc[w] = "call"
  /\ att[w] <= MaxRetries[StepOf(w).tool]
  /\ Goto(w, "start")
  /\ UNCHANGED <<task, fresh, wasLeased, ledger, passed, granted, snap, att>>

CallSucceeds(w) ==
  /\ pc[w] = "call"
  /\ FinishToolRun(StepOf(w), "succeeded", "succeeded")
  /\ att' = [att EXCEPT ![w] = 0]
  /\ Goto(w, AfterResult(w))
  /\ UNCHANGED <<task, fresh, wasLeased, passed, granted, snap>>

(* Strict mode keeps a failed ToolResult, legacy mode keeps none. *)
FailedResult(w) == IF snap[w].strict THEN "failed" ELSE "none"

(* The last attempt raised, or the payload broke the result contract; the  *)
(* handler of the call also catches what _start_attempt raises.            *)
CallFails(w) ==
  /\ pc[w] \in {"start", "call"}
  /\ IF SideEffect(StepOf(w))
     THEN /\ FinishToolRun(StepOf(w), "reconciliation_required", "none")
          /\ Goto(w, "reread_reconcile")
     ELSE /\ FinishToolRun(StepOf(w), "failed", FailedResult(w))
          /\ Goto(w, "reread_fail")
  /\ att' = [att EXCEPT ![w] = 0]
  /\ UNCHANGED <<task, fresh, wasLeased, passed, granted, snap>>

(* The encoded result exceeds max_result_bytes. *)
ResultTooLarge(w) ==
  /\ pc[w] = "call"
  /\ FinishToolRun(StepOf(w), "failed", FailedResult(w))
  /\ att' = [att EXCEPT ![w] = 0]
  /\ Goto(w, "reread_fail")
  /\ UNCHANGED <<task, fresh, wasLeased, passed, granted, snap>>

(* Anything else that raises around the call ends in the same _fail: the   *)
(* arguments cannot be built, or the database refuses a ledger write.      *)
ToolRaises(w) ==
  /\ pc[w] \in {"reserve", "rearm", "condemn", "call"}
  /\ att' = [att EXCEPT ![w] = 0]
  /\ Goto(w, "reread_fail")
  /\ UNCHANGED <<task, fresh, wasLeased, ledger, passed, granted, snap>>

(* _transition without expected_version reads the version it then compares: *)
(* the copy taken at the head of the loop no longer matters.                *)
Reread(w) ==
  /\ pc[w] \in {"reread_fail", "reread_reconcile"}
  /\ ReadVersion(w)
  /\ Goto(w, IF pc[w] = "reread_fail" THEN "fail" ELSE "reconcile")
  /\ DropLocals(w)
  /\ UNCHANGED <<ledger, passed, granted>>

(* _fail *)
Fail(w) ==
  /\ pc[w] = "fail"
  /\ CasAndExit(w, [task EXCEPT !.state = "failed"])
  /\ UNCHANGED <<ledger, passed, granted>>

RequireReconciliation(w) ==
  /\ pc[w] = "reconcile"
  /\ CasAndExit(w, [task EXCEPT !.state = "reconciliation_required"])
  /\ UNCHANGED <<ledger, passed, granted>>
-----------------------------------------------------------------------------
(* Verification.  _verify_step records one row per criterion and stops at   *)
(* the first required one that does not pass, so a refused step may leave   *)
(* some of its criteria passed.  A verdict is what the registered verifier  *)
(* says; the runtime does not constrain it.                                 *)

Record(id, crits) == passed' = passed \cup ({id} \X crits)

VerifyPasses(w, id, crits, next) ==
  /\ Record(id, crits)
  /\ Goto(w, next)
  /\ KeepRow /\ KeepLocals

VerifyRefuses(w, id, crits) ==
  \E some \in SUBSET crits, verdict \in {"verification_failed", "verification_blocked"} :
    /\ some # crits
    /\ Record(id, some)
    /\ CasAndExit(w, [task EXCEPT !.state = verdict])

VerifyStep(w) ==
  /\ pc[w] = "verify"
  /\ \/ VerifyPasses(w, StepOf(w).id, StepOf(w).crits, "checkpoint")
     \/ VerifyRefuses(w, StepOf(w).id, StepOf(w).crits)
  /\ UNCHANGED <<ledger, granted>>

VerifyFinal(w) ==
  /\ pc[w] = "final"
  /\ \/ VerifyPasses(w, FINAL_STEP_ID, FinalCriteria, "succeed")
     \/ VerifyRefuses(w, FINAL_STEP_ID, FinalCriteria)
  /\ UNCHANGED <<ledger, granted>>

Succeed(w) ==
  /\ pc[w] = "succeed"
  /\ CasAndExit(w, [task EXCEPT !.state = "succeeded"])
  /\ UNCHANGED <<ledger, passed, granted>>

(* Defect: the transaction takes for granted what the loop has read. *)
CheckpointUnguarded(w) == TRUE

(* The FOR UPDATE transaction that advances the checkpoint compares the     *)
(* lease and the step, not the version and not the state.                   *)
MayCheckpoint(w) == task.owner = w /\ task.step = snap[w].step

(* Defect: the approval of the step stays. *)
AdvancedKeepsApproval(row) == [row EXCEPT !.step = @ + 1]

Advanced(row) == [row EXCEPT !.step = @ + 1, !.approval = NoApproval]

Checkpoint(w) ==
  /\ pc[w] = "checkpoint"
  /\ IF MayCheckpoint(w)
     THEN Update(Advanced(task)) /\ Goto(w, "loop") /\ DropLocals(w)
     ELSE KeepRow /\ Exit(w)
  /\ UNCHANGED <<ledger, passed, granted>>
-----------------------------------------------------------------------------
(* The control operations.  Each one reads the row, decides, and writes     *)
(* under the version it read.  All but the lease columns are therefore      *)
(* those of the row at the write; the lease can have been released since.   *)

LeaseReadings == {task.owner # None} \cup (IF wasLeased THEN {TRUE} ELSE {})

Pausable(row) ==
  row.state \notin TerminalStates \cup {"awaiting_verification", "waiting_job", "cancelling"}

Pause(leased) ==
  /\ Pausable(task)
  /\ Update([task EXCEPT !.state = IF leased THEN "pausing" ELSE "paused", !.pause = leased])
  /\ UNCHANGED <<ledger, passed, granted, pc, snap, att>>

Cancellable(row) == row.state \notin TerminalStates \cup {"awaiting_verification"}

Cancel(leased) ==
  /\ Cancellable(task)
  /\ LET later == leased \/ task.state = "waiting_job" IN
       Update([task EXCEPT !.state = IF later THEN "cancelling" ELSE "cancelled",
                           !.cancel = later])
  /\ UNCHANGED <<ledger, passed, granted, pc, snap, att>>

(* resume, retry and retry_verification put a stopped task back to `created`. *)
ReopenedKeepsRequests(row) == [row EXCEPT !.state = "created"]   \* Defect

Reopened(row) == [row EXCEPT !.state = "created", !.pause = FALSE, !.cancel = FALSE]

Resume ==
  /\ task.state = "paused"
  /\ Update(Reopened(task))
  /\ UNCHANGED <<ledger, passed, granted, pc, snap, att>>

Retry ==
  /\ task.state = "failed"
  /\ Update(Reopened(task))
  /\ UNCHANGED <<ledger, passed, granted, pc, snap, att>>

RetryVerification ==
  /\ task.state = "verification_blocked"
  /\ Update([task EXCEPT !.state = "created"])
  /\ UNCHANGED <<ledger, passed, granted, pc, snap, att>>

Approve(approved) ==
  /\ task.state = "waiting_approval"
  /\ task.approval.status # "none"
  /\ Update([task EXCEPT !.state = IF approved THEN "created" ELSE "cancelled",
                         !.approval.status = IF approved THEN "granted" ELSE "rejected"])
  /\ granted' = IF approved THEN granted \cup {task.approval.step} ELSE granted
  /\ UNCHANGED <<ledger, passed, pc, snap, att>>

Replannable(row) ==
  /\ row.state \in {"paused", "waiting_approval", "failed", "verification_failed",
                    "verification_blocked"}
  /\ LeaseFree(row)
  /\ row.strict

(* The caller may leave out the step_id of a replacement step, or send one *)
(* it has read from the plan.  Only the suffix itself is checked for       *)
(* duplicates.                                                             *)
ReplanIds(row, n) ==
  LET new == FreshIds(n, row.planVersion + 1, row.step)
      old == {row.plan[i].id : i \in DOMAIN row.plan}
  IN  {ids \in [1..n -> old \cup {new[i] : i \in 1..n}] :
         \A i \in 1..n : /\ ids[i] \in old \cup {new[i]}
                         /\ \A j \in 1..n : ids[i] = ids[j] => i = j}

RevisedFromStart(row, suffix) == suffix   \* Defect: the executed prefix is dropped

Revised(row, suffix) == SubSeq(row.plan, 1, row.step) \o suffix

(* Defect: the lease columns are left alone. *)
ReplannedKeepsLease(row, plan) ==
  [row EXCEPT !.plan = plan, !.planVersion = @ + 1, !.state = "paused",
              !.approval = NoApproval, !.pause = FALSE, !.cancel = FALSE]

Replanned(row, plan) ==
  [row EXCEPT !.plan = plan, !.planVersion = @ + 1, !.state = "paused",
              !.approval = NoApproval, !.pause = FALSE, !.cancel = FALSE,
              !.owner = None, !.live = FALSE]

Replan(draft, ids) ==
  /\ Replannable(task)
  /\ task.planVersion < MaxPlanVersion
  /\ LET suffix == Steps(draft, ids) IN
       /\ ToolsOf(suffix) \subseteq task.allowed
       /\ WellFormed(Revised(task, suffix), TRUE)
       /\ Update(Replanned(task, Revised(task, suffix)))
  /\ UNCHANGED <<ledger, passed, granted, pc, snap, att>>
-----------------------------------------------------------------------------
ToolStep(w) ==
  \/ Reserve(w) \/ Rearm(w) \/ Condemn(w) \/ StartAttempt(w) \/ RetryAttempt(w)
  \/ CallSucceeds(w) \/ CallFails(w) \/ ResultTooLarge(w)
  \/ ToolRaises(w)

RunStep(w) ==
  \/ Loop(w) \/ SafeControl(w) \/ Refuse(w) \/ PlanCompleted(w) \/ Gate(w)
  \/ ToolStep(w)
  \/ VerifyStep(w) \/ VerifyFinal(w) \/ Succeed(w) \/ Checkpoint(w)
  \/ Reread(w) \/ Fail(w) \/ RequireReconciliation(w)
  \/ Release(w)

Control ==
  \/ \E leased \in LeaseReadings : Pause(leased) \/ Cancel(leased)
  \/ Resume \/ Retry \/ RetryVerification
  \/ \E approved \in BOOLEAN : Approve(approved)
  \/ /\ Replannable(task) /\ task.planVersion < MaxPlanVersion   \* else no draft is accepted
     /\ \E draft \in Drafts : \E ids \in ReplanIds(task, Len(draft)) : Replan(draft, ids)

Next ==
  \/ \E w \in Workers : Acquire(w) \/ RunStep(w) \/ Heartbeat(w) \/ Crash(w) \/ Interrupt(w)
  \/ LeaseExpires
  \/ Control

Spec == Init /\ [][Next]_vars
-----------------------------------------------------------------------------
(* Safety.                                                                 *)

(* A strict task that succeeded has, for every required criterion frozen   *)
(* into its TaskSpec, a passed verification of the step of its final plan  *)
(* that references it, and of the final step: whatever pauses, retries,    *)
(* replans, crashes and takeovers happened on the way.                     *)
SucceededMeansVerified ==
  task.state = "succeeded" /\ task.strict =>
    /\ \A c \in Criteria : \E i \in 1..task.step :
         c \in task.plan[i].crits /\ <<task.plan[i].id, c>> \in passed
    /\ \A c \in FinalCriteria : <<FINAL_STEP_ID, c>> \in passed

(* The gate of run() only looks at approval["approved"], never at the step *)
(* the approval names; still no handler of a tool that requires approval   *)
(* runs unless an approver approved that very step, by any worker, however *)
(* the plan was revised since.                                             *)
ApprovalBinding ==
  \A w \in Workers :
    pc[w] \in {"start", "call"} /\ StepOf(w).tool \in NeedsApproval => StepOf(w) \in granted

(* A side-effecting step is attempted at most once plus its retry budget,  *)
(* over all workers, takeovers, retries of the task and replans.           *)
SideEffectBudget ==
  \A id \in DOMAIN ledger :
    ledger[id].tool \in SideEffecting => ledger[id].attempt <= MaxRetries[ledger[id].tool] + 1

(* A worker that holds the lease works on the plan of the row: replan can  *)
(* not swap the suffix under a step whose result is still to be recorded.  *)
LeaseHolderWorksOnPlan ==
  \A w \in Workers :
    task.owner = w /\ pc[w] \in {"reserve", "start", "call", "verify", "checkpoint"}
      => snap[w].plan = task.plan

(* A pause or cancel request never outlives the reopening of the task: it  *)
(* is pending only while it can still be honoured, on a cancelled task, or *)
(* on a task that a failure stopped first.                                 *)
NoStaleRequest ==
  task.pause \/ task.cancel =>
    task.state \in {"pausing", "cancelling", "cancelled", "failed", "reconciliation_required"}

(* The checkpoint only moves forward, one step at a time, and the steps    *)
(* behind it are the same steps for ever.                                  *)
PrefixImmutable ==
  [][/\ task'.step \in {task.step, task.step + 1}
     /\ \A i \in 1..task.step : task'.plan[i] = task.plan[i]]_vars
-----------------------------------------------------------------------------
(* Liveness.  run() itself always proceeds (tools and verifiers have a     *)
(* timeout), somebody calls run() on a task left runnable, and time        *)
(* passes.  Nothing is promised while crashes, stalls and requests go on.  *)

OwnerRunning == task.owner \in Workers /\ pc[task.owner] # "idle"

LeaseLapses == ~OwnerRunning /\ LeaseExpires

Fairness ==
  /\ \A w \in Workers : WF_vars(RunStep(w))
  /\ WF_vars(\E w \in Workers : Acquire(w))
  /\ WF_vars(LeaseLapses)

LiveSpec == Spec /\ Fairness

Undisturbed == LeaseLapses \/ \E w \in Workers : Acquire(w) \/ RunStep(w)

(* Once crashes, lost heartbeats and control requests stop, a task that is *)
(* runnable reaches a stop state: it is never wedged behind a dead lease,  *)
(* an unhonoured pause or cancel, or two workers waiting on each other.    *)
RunSettles ==
  <>[][Undisturbed]_vars => (task.state \notin StopStates ~> task.state \in StopStates)
-----------------------------------------------------------------------------
(* What the documents of the repository say, and the code does not do.     *)

(* docs/harness/H1_VERIFICATION_DESIGN.md, section 5: the gateway writes a *)
(* failed result and the task does not advance past it.                    *)
CheckpointedStepsSucceeded ==
  \A i \in 1..task.step :
    task.plan[i].id \in DOMAIN ledger => ledger[task.plan[i].id].result # "failed"
=============================================================================
