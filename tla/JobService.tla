----------------------------- MODULE JobService -----------------------------
(***************************************************************************)
(* src/core/jobs.py for one task: its agent_jobs rows (at most one for a   *)
(* step), the Kubernetes jobs they name, the result objects of those jobs, *)
(* and the calls that are inside reconcile.                                *)
(*                                                                         *)
(* The name of a Kubernetes job and the key of its result are functions of *)
(* the row, so all three are kept by step id.  A result is what            *)
(* _read_result makes of it: the one of this job and input, or another.    *)
(***************************************************************************)
CONSTANTS
  Callers,  \* one element per concurrent call
  StepIds,  \* steps that may become a job
  None

VARIABLES
  job,      \* the agent_jobs row of each step: absent, requested, running, cancel_requested,
            \* succeeded, failed, cancelled, orphaned
  cluster,  \* the Kubernetes job: absent, running, terminating, succeeded, failed
  result,   \* the result object: none, valid, invalid
  call      \* where each call of reconcile is, its step, and the state it goes by

jobVars == <<job, cluster, result, call>>
-----------------------------------------------------------------------------
NoCall == [at |-> "idle", id |-> None, state |-> "absent"]

Init ==
  /\ job = [id \in StepIds |-> "absent"]
  /\ cluster = [id \in StepIds |-> "absent"]
  /\ result = [id \in StepIds |-> "none"]
  /\ call = [c \in Callers |-> NoCall]

At(c, phase) == call[c].at = phase

Goto(c, phase) == call' = [call EXCEPT ![c].at = phase]

(* The JobObservation a call goes on with. *)
Observed(c, state, phase) ==
  call' = [call EXCEPT ![c].state = state, ![c].at = phase]
-----------------------------------------------------------------------------
(* Defect: the row is looked for by its task only. *)
ExistsForTask(id) == \E other \in StepIds : job[other] # "absent"

Exists(id) == job[id] # "absent"

(* request *)
Request(id) ==
  /\ job' = IF Exists(id) THEN job ELSE [job EXCEPT ![id] = "requested"]
  /\ UNCHANGED <<cluster, result, call>>

(* request_cancel *)
RequestCancel(id) ==
  /\ job' = IF job[id] \in {"requested", "running"}
            THEN [job EXCEPT ![id] = "cancel_requested"] ELSE job
  /\ UNCHANGED <<cluster, result, call>>

(* for_task, whose row reconcile goes by from here on *)
Read(c, id) ==
  /\ At(c, "idle")
  /\ job[id] # "absent"
  /\ call' = [call EXCEPT ![c] = [at |-> "backend", id |-> id, state |-> job[id]]]
  /\ UNCHANGED <<job, cluster, result>>

(* KubernetesJobBackend.submit: a job of that name that is there already   *)
(* (409) is taken for the one submitted, whatever its state.               *)
Submit(c) ==
  /\ At(c, "backend") /\ call[c].state = "requested"
  /\ cluster' = [cluster EXCEPT ![call[c].id] = IF @ = "absent" THEN "running" ELSE @]
  /\ Observed(c, "running", "record")
  /\ UNCHANGED <<job, result>>

(* KubernetesJobBackend.cancel: a running pod gets its grace period. *)
Delete(c) ==
  /\ At(c, "backend") /\ call[c].state = "cancel_requested"
  /\ cluster' = [cluster EXCEPT ![call[c].id] =
                   IF @ \in {"running", "terminating"} THEN "terminating" ELSE "absent"]
  /\ Observed(c, "cancelled", "record")
  /\ UNCHANGED <<job, result>>

(* Defect: what Kubernetes says is taken for the result. *)
CompleteIsEnough(id) == "record"

AfterComplete(id) == "result"

(* KubernetesJobBackend.observe *)
Observe(c) ==
  /\ At(c, "backend") /\ call[c].state \notin {"requested", "cancel_requested"}
  /\ LET id == call[c].id IN
       CASE cluster[id] = "absent"    -> Observed(c, "orphaned", "record")
         [] cluster[id] = "failed"    -> Observed(c, "failed", "record")
         [] cluster[id] = "succeeded" -> Observed(c, "succeeded", AfterComplete(id))
         [] OTHER                     -> Observed(c, "running", "record")
  /\ UNCHANGED <<job, cluster, result>>

(* _read_result *)
ReadResult(c) ==
  /\ At(c, "result")
  /\ Observed(c, IF result[call[c].id] = "valid" THEN "succeeded" ELSE "failed", "record")
  /\ UNCHANGED <<job, cluster, result>>

(* The UPDATE does not look at the state it replaces. *)
Record(c) ==
  /\ At(c, "record")
  /\ job' = [job EXCEPT ![call[c].id] = call[c].state]
  /\ Goto(c, "done")
  /\ UNCHANGED <<cluster, result>>

(* The API of Kubernetes, the object store or the database raises. *)
Escape(c) ==
  /\ call[c].at \in {"backend", "result", "record"}
  /\ Goto(c, "raised")
  /\ UNCHANGED <<job, cluster, result>>

Return(c) ==
  /\ call[c].at \in {"done", "raised"}
  /\ call' = [call EXCEPT ![c] = NoCall]
  /\ UNCHANGED <<job, cluster, result>>

CrashCall(c) ==
  /\ ~At(c, "idle")
  /\ call' = [call EXCEPT ![c] = NoCall]
  /\ UNCHANGED <<job, cluster, result>>

ReconcileStep(c) ==
  Submit(c) \/ Delete(c) \/ Observe(c) \/ ReadResult(c) \/ Record(c)
-----------------------------------------------------------------------------
(* The cluster.  A pod writes its result before it ends; a finished job is *)
(* removed after ttl_seconds_after_finished.                               *)

PodWrites(id) ==
  /\ cluster[id] \in {"running", "terminating"} /\ result[id] # "valid"
  /\ \E written \in {"valid", "invalid"} : result' = [result EXCEPT ![id] = written]
  /\ UNCHANGED <<job, cluster, call>>

PodEnds(id) ==
  /\ cluster[id] = "running"
  /\ \E end \in {"succeeded", "failed"} : cluster' = [cluster EXCEPT ![id] = end]
  /\ UNCHANGED <<job, result, call>>

JobRemoved(id) ==
  /\ cluster[id] \in {"terminating", "succeeded", "failed"}
  /\ cluster' = [cluster EXCEPT ![id] = "absent"]
  /\ UNCHANGED <<job, result, call>>

ClusterStep(id) == PodWrites(id) \/ PodEnds(id) \/ JobRemoved(id)

Next ==
  \/ \E id \in StepIds : Request(id) \/ RequestCancel(id) \/ ClusterStep(id)
  \/ \E c \in Callers :
       \/ \E id \in StepIds : Read(c, id)
       \/ ReconcileStep(c) \/ Escape(c) \/ Return(c) \/ CrashCall(c)

Spec == Init /\ [][Next]_jobVars
=============================================================================
