------------------------ MODULE AgentRuntimeEvidence ------------------------
(***************************************************************************)
(* The runtime built with an EvidenceService: a task that failed, and a    *)
(* strict task whose final verification passed, ask for a manifest of the  *)
(* run, and the strict task succeeds when the manifest is published.       *)
(*                                                                         *)
(* An element of Workers is a thread: it is inside run(), or, while        *)
(* pc = "idle", inside a call of the API that reconciles or deletes.       *)
(***************************************************************************)
EXTENDS AgentRuntime, FiniteSets

CONSTANT MaxSnapshots  \* bound of EvidenceService

ASSUME SnapshotsAssumption ==
  MaxSnapshots \in Nat /\ None \notin Nat /\ None \notin {"succeeded", "failed"}

VARIABLES manifest, outbox, deletion, objects, taken, call,
          tail  \* what each thread still has to do about the evidence

E == INSTANCE EvidenceService WITH Callers <- Workers, Outcomes <- {"succeeded", "failed"}

evidence == <<manifest, outbox, deletion, objects, taken, call>>

rowAndLog == <<task, fresh, wasLeased, ledger, passed, granted>>

allVars == <<vars, evidence, tail>>

InitE == Init /\ E!Init /\ tail = [w \in Workers |-> "none"]

Then(w, next) == tail' = [tail EXCEPT ![w] = next]
-----------------------------------------------------------------------------
(* The end of run() after the final verification of a strict task. *)

RequestSuccess(w) ==
  /\ pc[w] = "succeed" /\ snap[w].strict /\ tail[w] = "none"
  /\ E!Request(w, "succeeded")
  /\ Then(w, "pending")
  /\ UNCHANGED vars

EvidencePending(w) ==
  /\ tail[w] = "pending"
  /\ Then(w, IF w \in fresh THEN "read_back" ELSE "none")
  /\ CasAndExit(w, [task EXCEPT !.state = "evidence_pending"])
  /\ UNCHANGED <<ledger, passed, granted, evidence>>

(* _transition returns the row it reads again after its UPDATE. *)
ReadBack(w) ==
  /\ tail[w] = "read_back"
  /\ ReadVersion(w)
  /\ Then(w, "recheck")
  /\ UNCHANGED <<ledger, passed, granted, pc, snap, att, evidence>>

(* A client sends the version it has read to reconcile_evidence. *)
ClientReconciles(w) ==
  /\ pc[w] = "idle" /\ tail[w] = "none"
  /\ task.state = "evidence_pending"
  /\ ReadVersion(w)
  /\ Then(w, "recheck")
  /\ UNCHANGED <<ledger, passed, granted, pc, snap, att, evidence>>

(* reconcile_evidence *)
Recheck(w) ==
  /\ tail[w] = "recheck"
  /\ IF task.state = "evidence_pending" /\ w \in fresh
     THEN E!Reconcile(w) /\ Then(w, "publishing")
     ELSE Then(w, "none") /\ UNCHANGED evidence
  /\ UNCHANGED vars

CommitAnyway(w) == TRUE   \* Defect: the UPDATE does not compare the version

MayCommit(w) == w \in fresh

Commit(w) ==
  /\ tail[w] = "publishing" /\ E!At(w, "ok")
  /\ IF MayCommit(w) THEN Update([task EXCEPT !.state = "succeeded"]) ELSE KeepRow
  /\ E!Return(w)
  /\ Then(w, "none")
  /\ UNCHANGED <<ledger, passed, granted, pc, snap, att>>
-----------------------------------------------------------------------------
(* _fail: the manifest of a failed run is best effort. *)

FailRun(w) ==
  /\ tail[w] = "none"
  /\ Fail(w)
  /\ Then(w, IF w \in fresh THEN "fail_request" ELSE "none")
  /\ UNCHANGED evidence

RequestFailure(w) ==
  /\ tail[w] = "fail_request"
  /\ E!Request(w, "failed")
  /\ Then(w, "fail_reconcile")
  /\ UNCHANGED vars

ReconcileFailure(w) ==
  /\ tail[w] = "fail_reconcile"
  /\ E!Reconcile(w)
  /\ Then(w, "failing")
  /\ UNCHANGED vars

(* delete_evidence *)
DeleteEvidence(w) ==
  /\ pc[w] = "idle" /\ tail[w] = "none"
  /\ E!BeginDelete(w)
  /\ Then(w, "deleting")
  /\ UNCHANGED vars

EvidenceStep(w) ==
  /\ E!CallStep(w) \/ E!Escape(w)
  /\ UNCHANGED <<vars, tail>>

(* The call is over: it raised, or it returned and nothing is left to do. *)
EvidenceReturns(w) ==
  /\ tail[w] = "publishing" => E!At(w, "raised")
  /\ E!Return(w)
  /\ Then(w, "none")
  /\ UNCHANGED vars
-----------------------------------------------------------------------------
TailStep(w) ==
  \/ RequestSuccess(w) \/ EvidencePending(w) \/ ReadBack(w) \/ Recheck(w) \/ Commit(w)
  \/ RequestFailure(w) \/ ReconcileFailure(w)
  \/ EvidenceStep(w) \/ EvidenceReturns(w)

(* The steps of AgentRuntime that evidence does not change. *)
RuntimeStep(w) ==
  /\ tail[w] = "none"
  /\ \/ Acquire(w) \/ Interrupt(w)
     \/ /\ pc[w] # "fail" /\ ~(pc[w] = "succeed" /\ snap[w].strict)
        /\ RunStep(w)
  /\ UNCHANGED <<evidence, tail>>

(* The heartbeat goes on until the end of the tail. *)
TailHeartbeat(w) ==
  /\ tail[w] # "none" /\ pc[w] = "release"
  /\ task.owner = w /\ ~task.live
  /\ task' = [task EXCEPT !.live = TRUE]
  /\ UNCHANGED <<fresh, wasLeased, ledger, passed, granted, pc, snap, att, evidence, tail>>

(* A database error in the tail: the exception leaves run() or the API call. *)
TailInterrupt(w) ==
  /\ tail[w] \in {"pending", "read_back", "recheck", "fail_request", "fail_reconcile"}
  /\ IF pc[w] = "succeed" THEN Exit(w) ELSE UNCHANGED <<pc, snap, att>>
  /\ Then(w, "none")
  /\ UNCHANGED <<rowAndLog, evidence>>

CrashE(w) ==
  /\ pc[w] # "idle" \/ tail[w] # "none"
  /\ Forget(w)
  /\ call' = [call EXCEPT ![w] = E!NoCall]
  /\ Then(w, "none")
  /\ UNCHANGED <<task, wasLeased, ledger, passed, granted, manifest, outbox, deletion, objects,
                 taken>>

NextE ==
  \/ \E w \in Workers :
       \/ RuntimeStep(w) \/ TailHeartbeat(w) \/ CrashE(w)
       \/ Heartbeat(w) /\ UNCHANGED <<evidence, tail>>
       \/ TailStep(w) \/ TailInterrupt(w) \/ FailRun(w)
       \/ ClientReconciles(w) \/ DeleteEvidence(w)
  \/ (LeaseExpires \/ Control) /\ UNCHANGED <<evidence, tail>>

SpecE == InitE /\ [][NextE]_allVars
-----------------------------------------------------------------------------
(* A strict task succeeds only with a published manifest of its run, which *)
(* an administrator may have deleted since; whoever reconciled, and        *)
(* whatever was paused, retried or replanned while it was pending.         *)
SucceededIsPublished == task.state = "succeeded" /\ task.strict => manifest.key # None

(* The publication of a manifest takes long, and meanwhile the task may be *)
(* paused, cancelled or resumed: a strict task succeeds only while it is   *)
(* pending, so the late publication does not undo what was asked for.      *)
OnlyPendingSucceeds ==
  [][task.strict /\ task.state # "succeeded" /\ task'.state = "succeeded" =>
       task.state = "evidence_pending"]_allVars
=============================================================================
