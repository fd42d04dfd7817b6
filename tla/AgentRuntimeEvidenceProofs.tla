--------------------- MODULE AgentRuntimeEvidenceProofs ---------------------
(***************************************************************************)
(* Proofs about AgentRuntimeEvidence, for any workers, tools, criteria and *)
(* number of snapshots that satisfy its assumptions.                       *)
(*                                                                         *)
(* The runtime drives the evidence service: each of its steps is a step of *)
(* EvidenceService or leaves it alone, so what is proved of the service    *)
(* holds here.  A thread that is about to commit holds a published run,    *)
(* because its call returned well, and holds the version of a row that is  *)
(* still pending, because every UPDATE would have taken that version away. *)
(***************************************************************************)
EXTENDS AgentRuntimeEvidence, TLAPS

EP == INSTANCE EvidenceServiceProofs
        WITH Callers <- Workers, Outcomes <- {"succeeded", "failed"}

Columns ==
  {"state", "strict", "allowed", "plan", "planVersion", "step", "approval", "pause", "cancel",
   "owner", "live"}

Shapes ==
  /\ DOMAIN task = Columns
  /\ DOMAIN pc = Workers
  /\ DOMAIN snap = Workers
  /\ DOMAIN tail = Workers

(* The execution mode of a task is frozen, so a copy has that of the row. *)
CopiedMode ==
  \A w \in Workers : pc[w] \in {"decide", "final", "succeed"} => snap[w].strict = task.strict

(* A thread that may still commit has seen the version that is pending. *)
CommitsPending ==
  \A w \in Workers : tail[w] = "publishing" /\ w \in fresh => task.state = "evidence_pending"

EInv == Shapes /\ CopiedMode /\ CommitsPending /\ EP!IInv /\ SucceededIsPublished
-----------------------------------------------------------------------------
(* The evidence service under the two names it has here.                    *)

LEMMA SameInit == E!Init => EP!Init
  BY DEF E!Init, EP!Init, E!NoCall, EP!NoCall

LEMMA SameStep == E!Next => EP!Next
  <1> SUFFICES ASSUME NEW c \in Workers,
                      \/ \E outcome \in {"succeeded", "failed"} : E!Request(c, outcome)
                      \/ E!Reconcile(c)
                      \/ E!BeginDelete(c)
                      \/ E!CallStep(c) \/ E!Return(c) \/ E!Escape(c) \/ E!CrashCall(c)
               PROVE  EP!Next
    BY DEF E!Next
  <1>1. ASSUME NEW outcome \in {"succeeded", "failed"}, E!Request(c, outcome) PROVE EP!Next
    BY <1>1 DEF E!Request, EP!Request, E!At, EP!At, EP!Next
  <1>2. ASSUME E!Reconcile(c) PROVE EP!Next
    BY <1>2 DEF E!Reconcile, EP!Reconcile, E!At, EP!At, E!Goto, EP!Goto, EP!Next
  <1>3. ASSUME E!BeginDelete(c) PROVE EP!Next
    BY <1>3
    DEF E!BeginDelete, EP!BeginDelete, E!At, EP!At, E!Rejected, EP!Rejected, E!Deleting,
        EP!Deleting, EP!Next
  <1>4. ASSUME E!CallStep(c) PROVE EP!CallStep(c)
    <2> USE DEF EP!CallStep, EP!PublishStep, EP!DeleteStep, E!At, EP!At, E!Goto, EP!Goto
    <2>1. E!Claim(c) => EP!Claim(c)
      BY DEF E!Claim, EP!Claim, E!Claimable, EP!Claimable
    <2>2. E!Lookup(c) => EP!Lookup(c)
      BY DEF E!Lookup, EP!Lookup, E!AlreadyPublished, EP!AlreadyPublished
    <2>3. E!Snapshot(c) => EP!Snapshot(c)
      BY DEF E!Snapshot, EP!Snapshot
    <2>4. E!SnapshotRefused(c) => EP!SnapshotRefused(c)
      BY DEF E!SnapshotRefused, EP!SnapshotRefused
    <2>5. E!Stage(c) => EP!Stage(c)
      BY DEF E!Stage, EP!Stage, E!Put, EP!Put
    <2>6. E!MarkStaged(c) => EP!MarkStaged(c)
      BY DEF E!MarkStaged, EP!MarkStaged, E!Write, EP!Write, E!Rejected, EP!Rejected
    <2>7. E!Verify(c) => EP!Verify(c)
      BY DEF E!Verify, EP!Verify, E!Write, EP!Write, E!Rejected, EP!Rejected, E!Intact, EP!Intact
    <2>8. E!Copy(c) => EP!Copy(c)
      BY DEF E!Copy, EP!Copy, E!Put, EP!Put
    <2>9. E!Publish(c) => EP!Publish(c)
      BY DEF E!Publish, EP!Publish, E!Write, EP!Write, E!Rejected, EP!Rejected, E!Intact,
             EP!Intact, E!FinalMatches, EP!FinalMatches
    <2>10. E!Block(c) => EP!Block(c)
      BY DEF E!Block, EP!Block, E!Write, EP!Write, E!Rejected, EP!Rejected, E!BlockedOutbox,
             EP!BlockedOutbox
    <2>11. E!DeleteObject(c) => EP!DeleteObject(c)
      BY DEF E!DeleteObject, EP!DeleteObject
    <2>12. E!Tombstone(c) => EP!Tombstone(c)
      BY DEF E!Tombstone, EP!Tombstone
    <2> QED
      BY <1>4, <2>1, <2>2, <2>3, <2>4, <2>5, <2>6, <2>7, <2>8, <2>9, <2>10, <2>11, <2>12
      DEF E!CallStep, E!PublishStep, E!DeleteStep
  <1>5. ASSUME E!Return(c) \/ E!Escape(c) \/ E!CrashCall(c) PROVE EP!Next
    BY <1>5
    DEF E!Return, EP!Return, E!Escape, EP!Escape, E!CrashCall, EP!CrashCall, E!At, EP!At, E!Goto,
        EP!Goto, E!NoCall, EP!NoCall, EP!Next
  <1> QED
    BY <1>1, <1>2, <1>3, <1>4, <1>5 DEF EP!Next

(* A step of the service, or none, keeps its invariant and a key. *)
LEMMA ServiceStep ==
  ASSUME EP!IInv, E!Next \/ UNCHANGED evidence
  PROVE  EP!IInv' /\ (manifest.key # None => manifest'.key # None)
  <1>1. [EP!Next]_(EP!evidenceVars)
    BY SameStep DEF evidence, EP!evidenceVars
  <1> QED
    BY <1>1, SnapshotsAssumption, EP!StepIInv, EP!KeyStays DEF EP!EvidenceAssumption
-----------------------------------------------------------------------------
(* What the steps of the runtime do to the row.                             *)

(* The row keeps its columns and its mode; a version survives only with its *)
(* state; and a strict task does not succeed here.                          *)
RowMoves ==
  /\ DOMAIN task' = Columns
  /\ task'.strict = task.strict
  /\ fresh' # {} => task'.state = task.state
  /\ task'.state = "succeeded" => task.state = "succeeded" \/ ~task.strict

RowKept == UNCHANGED <<task, fresh>>

LEMMA KeptMoves == ASSUME Shapes, UNCHANGED task PROVE RowMoves
  BY DEF Shapes, RowMoves

(* What a worker's step leaves to the others. *)
WorkerMoves(w) ==
  /\ RowMoves
  /\ fresh' \subseteq fresh \cup {w}
  /\ DOMAIN pc' = Workers /\ DOMAIN snap' = Workers
  /\ \A v \in Workers \ {w} : pc'[v] = pc[v] /\ snap'[v] = snap[v]
  /\ pc'[w] \in {"decide", "final", "succeed"} => snap'[w].strict = task.strict

(* A transition to a state other than success, and the way out. *)
LEMMA CasMoves ==
  ASSUME Shapes, NEW w \in Workers, NEW row, CasAndExit(w, row), DOMAIN row = Columns,
         row.strict = task.strict, row.state = "succeeded" => ~task.strict
  PROVE  WorkerMoves(w)
  <1>1. RowMoves /\ fresh' \subseteq fresh
    BY DEF CasAndExit, Update, KeepRow, RowMoves, Shapes
  <1>2. /\ DOMAIN pc' = Workers /\ DOMAIN snap' = Workers
        /\ \A v \in Workers \ {w} : pc'[v] = pc[v] /\ snap'[v] = snap[v]
        /\ pc'[w] = "release"
    BY DEF CasAndExit, Exit, Goto, DropLocals, Shapes
  <1> QED
    BY <1>1, <1>2 DEF WorkerMoves

LEMMA WorkerStepMoves ==
  ASSUME Shapes, CopiedMode, NEW w \in Workers,
         \/ Acquire(w) \/ Interrupt(w) \/ Fail(w)
         \/ pc[w] # "fail" /\ ~(pc[w] = "succeed" /\ snap[w].strict) /\ RunStep(w)
  PROVE  WorkerMoves(w)
  <1> USE DEF Shapes
  <1>1. CASE Acquire(w)
    BY <1>1 DEF Acquire, Update, Goto, WorkerMoves, RowMoves, Columns
  <1>2. CASE Interrupt(w)
    BY <1>2 DEF Interrupt, Exit, Goto, DropLocals, WorkerMoves, RowMoves
  <1>3. CASE Loop(w)
    <2>1. RowMoves /\ fresh' \subseteq fresh \cup {w}
      BY <1>3 DEF Loop, ReadVersion, KeepRow, RowMoves
    <2>2. Copy(task).strict = task.strict
      BY DEF Copy, Columns
    <2> QED
      BY <1>3, <2>1, <2>2 DEF Loop, Exit, Goto, DropLocals, WorkerMoves
  <1>4. CASE SafeControl(w)
    <2> DEFINE row == IF snap[w].cancel \/ snap[w].state = "cancelling"
                      THEN [task EXCEPT !.state = "cancelled", !.cancel = FALSE, !.pause = FALSE]
                      ELSE [task EXCEPT !.state = "paused", !.pause = FALSE]
    <2>1. CasAndExit(w, row)
      BY <1>4 DEF SafeControl
    <2>2. DOMAIN row = Columns /\ row.strict = task.strict /\ row.state # "succeeded"
      BY DEF Columns
    <2> QED
      BY <2>1, <2>2, CasMoves
  <1>15. CASE Fail(w) \/ RequireReconciliation(w)
    <2>1. PICK row : /\ CasAndExit(w, row)
                     /\ DOMAIN row = Columns /\ row.strict = task.strict
                     /\ row.state # "succeeded"
      BY <1>15 DEF Fail, RequireReconciliation, Columns
    <2> QED
      BY <2>1, CasMoves
  <1>5. CASE Gate(w)
    <2>1. CASE ApprovalMissing(snap[w])
      <3> DEFINE row == [task EXCEPT !.state = "waiting_approval",
                           !.approval = [step |-> StepOf(w), status |-> "requested"]]
      <3>1. CasAndExit(w, row)
        BY <1>5, <2>1 DEF Gate
      <3>2. DOMAIN row = Columns /\ row.strict = task.strict /\ row.state # "succeeded"
        BY DEF Columns
      <3> QED
        BY <3>1, <3>2, CasMoves
    <2>2. CASE ~ApprovalMissing(snap[w])
      BY <1>5, <2>2 DEF Gate, KeepRow, KeepLocals, Goto, WorkerMoves, RowMoves
    <2> QED
      BY <2>1, <2>2
  <1>6. CASE Refuse(w) \/ PlanCompleted(w)
    BY <1>6 DEF Refuse, PlanCompleted, Goto, WorkerMoves, RowMoves, CopiedMode
  <1>7. CASE ToolStep(w)
    <2>1. /\ UNCHANGED <<task, fresh, snap>>
          /\ \E phase : phase \notin {"decide", "final", "succeed"} /\ Goto(w, phase)
      BY <1>7
      DEF ToolStep, Reserve, ReserveOutcome, AfterResult, Rearm, Condemn, StartAttempt,
          RetryAttempt, CallSucceeds, CallFails, ResultTooLarge, ToolRaises
    <2> QED
      BY <2>1 DEF Goto, WorkerMoves, RowMoves
  <1>8. ASSUME NEW id, NEW crits, VerifyRefuses(w, id, crits) PROVE WorkerMoves(w)
    <2>1. PICK row : /\ CasAndExit(w, row)
                     /\ DOMAIN row = Columns /\ row.strict = task.strict
                     /\ row.state # "succeeded"
      BY <1>8 DEF VerifyRefuses, Columns
    <2> QED
      BY <2>1, CasMoves
  <1>9. CASE VerifyStep(w)
    BY <1>8, <1>9 DEF VerifyStep, VerifyPasses, KeepRow, KeepLocals, Goto, WorkerMoves, RowMoves
  <1>10. CASE VerifyFinal(w)
    BY <1>8, <1>10
    DEF VerifyFinal, VerifyPasses, KeepRow, KeepLocals, Goto, WorkerMoves, RowMoves, CopiedMode
  <1>11. CASE Succeed(w) /\ ~snap[w].strict
    <2>1. ~task.strict
      BY <1>11 DEF Succeed, CopiedMode
    <2>2. PICK row : /\ CasAndExit(w, row)
                     /\ DOMAIN row = Columns /\ row.strict = task.strict
      BY <1>11 DEF Succeed, Columns
    <2> QED
      BY <2>1, <2>2, CasMoves
  <1>12. CASE Checkpoint(w)
    BY <1>12
    DEF Checkpoint, Update, Advanced, KeepRow, Exit, Goto, DropLocals, WorkerMoves, RowMoves,
        Columns
  <1>13. CASE Reread(w)
    BY <1>13 DEF Reread, ReadVersion, Goto, DropLocals, WorkerMoves, RowMoves
  <1>14. CASE Release(w)
    BY <1>14 DEF Release, Forget, Goto, DropLocals, WorkerMoves, RowMoves, Columns
  <1> QED
    BY <1>1, <1>2, <1>3, <1>4, <1>5, <1>6, <1>7, <1>9, <1>10, <1>11, <1>12, <1>13, <1>14,
       <1>15
    DEF RunStep, Succeed
-----------------------------------------------------------------------------
(* The control operations write a row of their own, and touch no thread. *)
LEMMA ControlMoves ==
  ASSUME Shapes, Control \/ LeaseExpires
  PROVE  RowMoves /\ fresh' \subseteq fresh /\ UNCHANGED <<pc, snap>>
  <1> USE DEF Shapes, RowMoves, Update, Columns
  <1>1. ASSUME NEW leased, Pause(leased) PROVE RowMoves /\ fresh' = {} /\ UNCHANGED <<pc, snap>>
    BY <1>1 DEF Pause
  <1>2. ASSUME NEW leased, Cancel(leased) PROVE RowMoves /\ fresh' = {} /\ UNCHANGED <<pc, snap>>
    BY <1>2 DEF Cancel
  <1>3. CASE Resume \/ Retry \/ RetryVerification
    BY <1>3 DEF Resume, Retry, RetryVerification, Reopened
  <1>4. ASSUME NEW approved, Approve(approved)
        PROVE  RowMoves /\ fresh' = {} /\ UNCHANGED <<pc, snap>>
    BY <1>4 DEF Approve
  <1>5. ASSUME NEW draft, NEW ids, Replan(draft, ids)
        PROVE  RowMoves /\ fresh' = {} /\ UNCHANGED <<pc, snap>>
    BY <1>5 DEF Replan, Replanned
  <1>6. CASE LeaseExpires
    BY <1>6 DEF LeaseExpires
  <1> QED
    BY <1>1, <1>2, <1>3, <1>4, <1>5, <1>6 DEF Control
-----------------------------------------------------------------------------
(* The invariant.                                                           *)

LEMMA InitEInv == InitE => EInv
  <1> SUFFICES ASSUME InitE PROVE EInv
    OBVIOUS
  <1>1. EP!IInv
    BY SameInit, SnapshotsAssumption, EP!InitIInv DEF InitE, EP!EvidenceAssumption
  <1>2. Shapes /\ task.state = "created"
    BY DEF InitE, Init, NewTask, Shapes, Columns
  <1>3. CopiedMode /\ CommitsPending /\ SucceededIsPublished
    BY <1>2 DEF InitE, Init, CopiedMode, CommitsPending, SucceededIsPublished
  <1> QED
    BY <1>1, <1>2, <1>3 DEF EInv

(* A step that moves the row as above, and the service by steps of its own. *)
LEMMA MovesKeepEInv ==
  ASSUME EInv, RowMoves, NEW w \in Workers,
         DOMAIN pc' = Workers, DOMAIN snap' = Workers, DOMAIN tail' = Workers,
         E!Next \/ UNCHANGED evidence,
         fresh' \subseteq fresh \cup {w},
         \A v \in Workers \ {w} : pc'[v] = pc[v] /\ snap'[v] = snap[v] /\ tail'[v] = tail[v],
         pc'[w] \in {"decide", "final", "succeed"} => snap'[w].strict = task.strict,
         tail'[w] = "publishing" /\ w \in fresh' => task'.state = "evidence_pending"
  PROVE  EInv'
  <1>1. Shapes'
    BY DEF Shapes, RowMoves
  <1>2. CopiedMode'
    BY DEF EInv, CopiedMode, RowMoves
  <1>3. CommitsPending'
    BY DEF EInv, CommitsPending, RowMoves
  <1>4. EP!IInv' /\ (manifest.key # None => manifest'.key # None)
    BY ServiceStep DEF EInv
  <1>5. SucceededIsPublished'
    BY <1>4 DEF EInv, SucceededIsPublished, RowMoves
  <1> QED
    BY <1>1, <1>2, <1>3, <1>4, <1>5 DEF EInv

(* The commit of a success: the one step that succeeds a strict task. *)
LEMMA CommitStep ==
  ASSUME EInv, NEW w \in Workers, Commit(w)
  PROVE  /\ EInv'
         /\ task.state # "succeeded" /\ task'.state = "succeeded" =>
              task.state = "evidence_pending"
  <1>1. manifest.key # None /\ manifest' = manifest
    BY DEF EInv, Commit, EP!IInv, EP!Returns, E!At, E!Return
  <1>2. EP!IInv'
    BY ServiceStep DEF EInv, Commit, E!Next
  <1>3. /\ DOMAIN task' = Columns /\ task'.strict = task.strict
        /\ fresh' \subseteq fresh
        /\ fresh' # {} => UNCHANGED task
        /\ task'.state # task.state => w \in fresh
        /\ DOMAIN tail' = Workers /\ tail'[w] = "none"
        /\ \A v \in Workers \ {w} : tail'[v] = tail[v]
        /\ UNCHANGED <<pc, snap>>
    BY DEF EInv, Shapes, Columns, Commit, MayCommit, Update, KeepRow, Then
  <1>4. task.state # "succeeded" /\ task'.state = "succeeded" => task.state = "evidence_pending"
    BY <1>3 DEF Commit, EInv, CommitsPending
  <1>5. (Shapes /\ CopiedMode /\ CommitsPending /\ SucceededIsPublished)'
    BY <1>1, <1>3 DEF EInv, Shapes, CopiedMode, CommitsPending, SucceededIsPublished
  <1> QED
    BY <1>2, <1>4, <1>5 DEF EInv

(* Every other step. *)
LEMMA OtherStep ==
  ASSUME EInv, NextE, \A w \in Workers : ~Commit(w)
  PROVE  EInv' /\ RowMoves /\ (E!Next \/ UNCHANGED evidence)
  <1> DEFINE Kept == EInv' /\ RowMoves /\ (E!Next \/ UNCHANGED evidence)
  <1> USE DEF Then, EInv
  <1>1. ASSUME NEW w \in Workers, RuntimeStep(w) \/ FailRun(w) PROVE Kept
    <2>1. WorkerMoves(w)
      BY <1>1, WorkerStepMoves DEF RuntimeStep, FailRun
    <2>2. /\ DOMAIN tail' = Workers /\ UNCHANGED evidence
          /\ tail'[w] # "publishing"
          /\ \A v \in Workers \ {w} : tail'[v] = tail[v]
      BY <1>1 DEF RuntimeStep, FailRun, Shapes
    <2> HIDE DEF EInv
    <2> QED
      BY <2>1, <2>2, MovesKeepEInv DEF WorkerMoves
  <1>2. ASSUME NEW w \in Workers, RequestSuccess(w) \/ Recheck(w) \/ RequestFailure(w)
                 \/ ReconcileFailure(w) \/ DeleteEvidence(w) \/ EvidenceStep(w)
                 \/ EvidenceReturns(w)
        PROVE  Kept
    <2>1. E!Next \/ UNCHANGED evidence
      BY <1>2
      DEF RequestSuccess, Recheck, RequestFailure, ReconcileFailure, DeleteEvidence, EvidenceStep,
          EvidenceReturns, E!Next
    <2>2. /\ UNCHANGED vars
          /\ DOMAIN tail' = Workers
          /\ \A v \in Workers \ {w} : tail'[v] = tail[v]
          /\ tail'[w] = "publishing" /\ w \in fresh => task.state = "evidence_pending"
      BY <1>2
      DEF RequestSuccess, Recheck, RequestFailure, ReconcileFailure, DeleteEvidence, EvidenceStep,
          EvidenceReturns, Shapes, CommitsPending
    <2>3. RowMoves
      BY <2>2, KeptMoves DEF vars
    <2>4. pc'[w] \in {"decide", "final", "succeed"} => snap'[w].strict = task.strict
      BY <2>2 DEF vars, CopiedMode
    <2>5. DOMAIN pc' = Workers /\ DOMAIN snap' = Workers /\ UNCHANGED <<task, fresh, pc, snap>>
      BY <2>2 DEF vars, Shapes
    <2> HIDE DEF EInv
    <2> QED
      BY <2>1, <2>2, <2>3, <2>4, <2>5, MovesKeepEInv
  <1>3. ASSUME NEW w \in Workers, EvidencePending(w) PROVE Kept
    <2> DEFINE row == [task EXCEPT !.state = "evidence_pending"]
    <2>1. CasAndExit(w, row) /\ UNCHANGED evidence
      BY <1>3 DEF EvidencePending
    <2>2. DOMAIN row = Columns /\ row.strict = task.strict /\ row.state # "succeeded"
      BY DEF Shapes, Columns
    <2>3. WorkerMoves(w)
      BY <2>1, <2>2, CasMoves
    <2>4. /\ DOMAIN tail' = Workers /\ tail'[w] # "publishing"
          /\ \A v \in Workers \ {w} : tail'[v] = tail[v]
      BY <1>3 DEF EvidencePending, Shapes
    <2> HIDE DEF EInv
    <2> QED
      BY <2>1, <2>3, <2>4, MovesKeepEInv DEF WorkerMoves
  <1>4. ASSUME NEW w \in Workers, ReadBack(w) \/ ClientReconciles(w) \/ TailHeartbeat(w)
                 \/ TailInterrupt(w) \/ (Heartbeat(w) /\ UNCHANGED <<evidence, tail>>)
        PROVE  Kept
    <2>1. /\ RowMoves /\ fresh' \subseteq fresh \cup {w} /\ UNCHANGED evidence
          /\ task'.state = task.state
          /\ fresh' # fresh => tail'[w] = "recheck"
      BY <1>4
      DEF ReadBack, ClientReconciles, TailHeartbeat, TailInterrupt, Heartbeat, ReadVersion,
          rowAndLog, RowMoves, Shapes, Columns
    <2>2. /\ DOMAIN tail' = Workers
          /\ \A v \in Workers \ {w} : tail'[v] = tail[v]
          /\ tail'[w] = "publishing" => tail[w] = "publishing"
      BY <1>4
      DEF ReadBack, ClientReconciles, TailHeartbeat, TailInterrupt, Heartbeat, Shapes
    <2>3. /\ DOMAIN pc' = Workers /\ DOMAIN snap' = Workers
          /\ \A v \in Workers \ {w} : pc'[v] = pc[v] /\ snap'[v] = snap[v]
          /\ pc'[w] \in {"decide", "final", "succeed"} => pc'[w] = pc[w] /\ snap'[w] = snap[w]
      BY <1>4
      DEF ReadBack, ClientReconciles, TailHeartbeat, TailInterrupt, Heartbeat, Exit, Goto,
          DropLocals, Shapes
    <2>4. pc'[w] \in {"decide", "final", "succeed"} => snap'[w].strict = task.strict
      BY <2>3 DEF CopiedMode
    <2>5. tail'[w] = "publishing" /\ w \in fresh' => task'.state = "evidence_pending"
      <3> SUFFICES ASSUME tail'[w] = "publishing", w \in fresh' PROVE task'.state = "evidence_pending"
        OBVIOUS
      <3>1. tail[w] = "publishing" /\ w \in fresh
        BY <2>1, <2>2
      <3> QED
        BY <2>1, <3>1 DEF CommitsPending
    <2> HIDE DEF EInv
    <2> QED
      BY <2>1, <2>2, <2>3, <2>4, <2>5, MovesKeepEInv
  <1>5. ASSUME NEW w \in Workers, CrashE(w) PROVE Kept
    <2>1. RowMoves /\ fresh' \subseteq fresh
      BY <1>5, KeptMoves DEF CrashE, Forget
    <2>2. E!Next \/ UNCHANGED evidence
      <3>1. CASE E!At(w, "idle")
        <4>1. call[w] = E!NoCall /\ DOMAIN call = Workers
          BY <3>1 DEF EP!IInv, EP!Returns, E!At, E!NoCall, EP!NoCall, EP!ManifestTypeOK
        <4>2. call' = call
          <5>1. call' = [call EXCEPT ![w] = call[w]]
            BY <1>5, <4>1 DEF CrashE
          <5>2. call \in [Workers -> [at : EP!Phases, digest : Nat]]
            BY DEF EP!IInv, EP!ManifestTypeOK
          <5> QED
            BY <5>1, <5>2
        <4> QED
          BY <1>5, <4>2 DEF CrashE, evidence
      <3>2. CASE ~E!At(w, "idle")
        BY <1>5, <3>2 DEF CrashE, E!CrashCall, E!Next
      <3> QED
        BY <3>1, <3>2
    <2>3. /\ DOMAIN tail' = Workers /\ tail'[w] # "publishing"
          /\ \A v \in Workers \ {w} : tail'[v] = tail[v]
      BY <1>5 DEF CrashE, Shapes
    <2>4. /\ DOMAIN pc' = Workers /\ DOMAIN snap' = Workers
          /\ \A v \in Workers \ {w} : pc'[v] = pc[v] /\ snap'[v] = snap[v]
          /\ pc'[w] = "idle"
      BY <1>5 DEF CrashE, Forget, Goto, DropLocals, Shapes
    <2> HIDE DEF EInv
    <2> QED
      BY <2>1, <2>2, <2>3, <2>4, MovesKeepEInv
  <1>6. ASSUME LeaseExpires \/ Control, UNCHANGED <<evidence, tail>> PROVE Kept
    <2>1. RowMoves /\ fresh' \subseteq fresh /\ UNCHANGED <<pc, snap>>
      BY <1>6, ControlMoves
    <2>2. (Shapes /\ CopiedMode /\ CommitsPending)'
      BY <1>6, <2>1 DEF Shapes, RowMoves, CopiedMode, CommitsPending
    <2>3. EP!IInv' /\ manifest' = manifest
      BY <1>6, ServiceStep DEF evidence
    <2>4. SucceededIsPublished'
      BY <2>1, <2>3 DEF SucceededIsPublished, RowMoves
    <2> QED
      BY <1>6, <2>1, <2>2, <2>3, <2>4
  <1> HIDE DEF EInv, Kept
  <1>7. ASSUME NEW w \in Workers, TailStep(w) PROVE Kept
    BY <1>2, <1>3, <1>4, <1>7 DEF TailStep
  <1> QED
    <2>1. Kept
      BY <1>1, <1>2, <1>4, <1>5, <1>6, <1>7 DEF NextE
    <2> QED
      BY <2>1 DEF Kept

LEMMA StepEInv == EInv /\ [NextE]_allVars => EInv'
  <1> SUFFICES ASSUME EInv, [NextE]_allVars PROVE EInv'
    OBVIOUS
  <1>1. CASE UNCHANGED allVars
    <2>1. UNCHANGED vars /\ UNCHANGED evidence /\ UNCHANGED tail
      BY <1>1 DEF allVars
    <2>2. EP!IInv'
      BY <2>1, ServiceStep DEF EInv
    <2> QED
      BY <2>1, <2>2
      DEF vars, evidence, EInv, Shapes, CopiedMode, CommitsPending, SucceededIsPublished
  <1>2. CASE NextE
    BY <1>2, OtherStep, CommitStep
  <1> QED
    BY <1>1, <1>2

(* Whatever the runtime, the evidence service and the operator do, EInv holds. *)
THEOREM EInvariant == SpecE => []EInv
  <1> QED
    BY InitEInv, StepEInv, PTL DEF SpecE

(* A strict task that succeeded has a manifest, whoever reconciled and     *)
(* whatever the store, the database, the client and the lease did.         *)
THEOREM SucceededPublished == SpecE => []SucceededIsPublished
  <1>1. EInv => SucceededIsPublished
    BY DEF EInv
  <1> QED
    BY <1>1, EInvariant, PTL

(* A strict task succeeds only out of evidence_pending. *)
THEOREM OnlyPending == SpecE => OnlyPendingSucceeds
  <1> DEFINE Late == task.strict /\ task.state # "succeeded" /\ task'.state = "succeeded" =>
                       task.state = "evidence_pending"
  <1>1. EInv /\ [NextE]_allVars => [Late]_allVars
    <2> SUFFICES ASSUME EInv, NextE PROVE Late
      OBVIOUS
    <2> QED
      BY OtherStep, CommitStep DEF RowMoves
  <1> QED
    BY <1>1, EInvariant, PTL DEF SpecE, OnlyPendingSucceeds

(* Whatever the runtime does to its manifest is what EvidenceService does. *)
THEOREM EvidenceImplemented == SpecE => E!Spec
  <1>1. InitE => E!Init
    BY DEF InitE
  <1>2. EInv /\ [NextE]_allVars => [E!Next]_(E!evidenceVars)
    <2> SUFFICES ASSUME EInv, [NextE]_allVars PROVE E!Next \/ UNCHANGED evidence
      BY DEF evidence, E!evidenceVars
    <2>1. ASSUME NEW w \in Workers, Commit(w) PROVE E!Next
      BY <2>1 DEF Commit, E!Next
    <2> QED
      BY <2>1, OtherStep DEF allVars
  <1> QED
    BY <1>1, <1>2, EInvariant, PTL DEF SpecE, E!Spec
=============================================================================
