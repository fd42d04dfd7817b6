------------------------------ MODULE JobRunner ------------------------------
(***************************************************************************)
(* The program inside a Kubernetes job: src/harness/job_runner.py with     *)
(* harness/jobs.py and harness/evaluation_runner.py. One training input    *)
(* and one evaluation of the adapter it makes; a pod runs once, and an     *)
(* input can be run by several pods, since a cluster may start a pod twice *)
(* and a task may be retried. No two runs write the same bytes: training   *)
(* is not deterministic and a transcript holds the latency, so whose bytes *)
(* an object has is the pod that wrote them.                               *)
(* The task, its approval and the snapshot belong to other components;     *)
(* here they are valid until somebody withdraws or revokes them.           *)
(***************************************************************************)
EXTENDS Integers

CONSTANTS
  Pods,         \* runs of the program
  NFiles,       \* files of an adapter, published in the order of their names
  NCases        \* cases of the evaluation suite

Nothing == "nothing"

ASSUME RunnerAssumption ==
  /\ NFiles \in Nat \ {0} /\ NCases \in Nat \ {0}
  /\ Nothing \notin Pods

VARIABLES
  pod,          \* where each pod is, `done' files or cases so far
  bucket,       \* the objects under the output prefix of the adapter
  manifest,     \* the adapter_manifests row: the run whose digest it holds
  transcripts,  \* the transcript objects
  verdicts,     \* the trajectory_trials rows: the run whose transcript digest they hold
  measured,     \* the evaluation_campaigns row: the run that completed it
  results,      \* the result objects of the two jobs
  approved,     \* whether the task and its approval still stand
  sound         \* whether the snapshot and its compile manifest still verify

runnerVars ==
  <<pod, bucket, manifest, transcripts, verdicts, measured, results, approved, sound>>

Kinds == {"lora_train", "model_evaluate"}

RunnerInit ==
  /\ pod = [p \in Pods |-> [kind |-> "lora_train", pc |-> "new", done |-> 0]]
  /\ bucket = [f \in 1..NFiles |-> Nothing]
  /\ manifest = Nothing
  /\ transcripts = [c \in 1..NCases |-> Nothing]
  /\ verdicts = [c \in 1..NCases |-> Nothing]
  /\ measured = Nothing
  /\ results = [k \in Kinds |-> Nothing]
  /\ approved = TRUE
  /\ sound = TRUE

Stage(p, pc) == pod[p].pc = pc

Advanced(p, pc) == pod' = [pod EXCEPT ![p].pc = pc]

\* The input object is read and its context validated; a context that is refused ends the pod.
StartPod(p, kind) ==
  /\ Stage(p, "new")
  /\ pod' = [pod EXCEPT ![p] = [kind |-> kind, done |-> 0,
                                pc |-> IF kind = "lora_train" THEN "approval" ELSE "stage"]]
  /\ UNCHANGED <<bucket, manifest, transcripts, verdicts, measured, results, approved, sound>>

AfterCheck(p) == CASE Stage(p, "approval") -> "prerequisites"
                   [] Stage(p, "prerequisites") -> "train"
                   [] Stage(p, "approval again") -> "prerequisites again"
                   [] Stage(p, "prerequisites again") -> "publish"

\* _training_approval: the task is running or waits for this job, at this step, with an approval of
\* exactly this input.
CheckTaskApproval(p) ==
  /\ Stage(p, "approval") \/ Stage(p, "approval again")
  /\ Advanced(p, IF approved THEN AfterCheck(p) ELSE "ended")
  /\ UNCHANGED <<bucket, manifest, transcripts, verdicts, measured, results, approved, sound>>

\* _training_prerequisites: the snapshot, the base evaluation and the compile manifest, verified with
\* the rights of the verifier.
CheckPrerequisites(p) ==
  /\ Stage(p, "prerequisites") \/ Stage(p, "prerequisites again")
  /\ Advanced(p, IF sound THEN AfterCheck(p) ELSE "ended")
  /\ UNCHANGED <<bucket, manifest, transcripts, verdicts, measured, results, approved, sound>>

\* Training, the configuration it is observed to have had, the digest and the scan of its files.
Train(p) ==
  /\ Stage(p, "train")
  /\ \E pc \in {"approval again", "ended"} : Advanced(p, pc)
  /\ UNCHANGED <<bucket, manifest, transcripts, verdicts, measured, results, approved, sound>>

Put(p) ==
  /\ bucket' = [bucket EXCEPT ![pod[p].done + 1] = p]
  /\ pod' = [pod EXCEPT ![p].done = @ + 1, ![p].pc = IF pod[p].done + 1 = NFiles THEN "register" ELSE @]

\* Defect: the files are written without IfNoneMatch.
OverwriteFile(p) ==
  /\ Stage(p, "publish")
  /\ Put(p)
  /\ UNCHANGED <<manifest, transcripts, verdicts, measured, results, approved, sound>>

\* _publish_training_artifact: one conditional write for each file.
PublishFile(p) ==
  /\ Stage(p, "publish")
  /\ IF bucket[pod[p].done + 1] = Nothing
     THEN Put(p)
     ELSE Advanced(p, "ended") /\ UNCHANGED bucket
  /\ UNCHANGED <<manifest, transcripts, verdicts, measured, results, approved, sound>>

\* The cost receipt is addressed by its content; create_adapter_candidate reads the snapshot again, and
\* the id of the adapter is fixed by the input.
CreateAdapterCandidate(p) ==
  /\ Stage(p, "register")
  /\ IF sound /\ manifest = Nothing
     THEN manifest' = p /\ Advanced(p, "result")
     ELSE Advanced(p, "ended") /\ UNCHANGED manifest
  /\ UNCHANGED <<bucket, transcripts, verdicts, measured, results, approved, sound>>

\* _stage_candidate_adapter: what was downloaded must have the digest of the row.
StageCandidateAdapter(p) ==
  /\ Stage(p, "stage")
  /\ Advanced(p, IF /\ manifest # Nothing
                    /\ \A f \in 1..NFiles : bucket[f] = manifest
                 THEN "transcript" ELSE "ended")
  /\ UNCHANGED <<bucket, manifest, transcripts, verdicts, measured, results, approved, sound>>

\* run_evaluation asks the model and the verifier about every case; then each transcript is written, over
\* what may be there,
WriteTranscript(p) ==
  /\ Stage(p, "transcript")
  /\ transcripts' = [transcripts EXCEPT ![pod[p].done + 1] = p]
  /\ Advanced(p, "finish")
  /\ UNCHANGED <<bucket, manifest, verdicts, measured, results, approved, sound>>

\* and finish_trial accepts it unless the trial is finished with another one.
FinishEvaluationTrial(p) ==
  LET c == pod[p].done + 1 IN
  /\ Stage(p, "finish")
  /\ IF verdicts[c] = Nothing
     THEN /\ verdicts' = [verdicts EXCEPT ![c] = p]
          /\ pod' = [pod EXCEPT ![p].done = c, ![p].pc = IF c = NCases THEN "complete" ELSE "transcript"]
     ELSE Advanced(p, "ended") /\ UNCHANGED verdicts
  /\ UNCHANGED <<bucket, manifest, transcripts, measured, results, approved, sound>>

CompleteMeasurement(p) ==
  /\ Stage(p, "complete")
  /\ measured' = p
  /\ Advanced(p, "result")
  /\ UNCHANGED <<bucket, manifest, transcripts, verdicts, results, approved, sound>>

WriteResult(p) ==
  /\ Stage(p, "result")
  /\ results' = [results EXCEPT ![pod[p].kind] = p]
  /\ Advanced(p, "ended")
  /\ UNCHANGED <<bucket, manifest, transcripts, verdicts, measured, approved, sound>>

\* A pod is killed, or its program raises.
PodDies(p) ==
  /\ pod[p].pc \notin {"new", "ended"}
  /\ Advanced(p, "ended")
  /\ UNCHANGED <<bucket, manifest, transcripts, verdicts, measured, results, approved, sound>>

Withdraw ==
  /\ \/ approved' = FALSE /\ UNCHANGED sound
     \/ sound' = FALSE /\ UNCHANGED approved
  /\ UNCHANGED <<pod, bucket, manifest, transcripts, verdicts, measured, results>>

PodStep(p) ==
  \/ \E kind \in Kinds : StartPod(p, kind)
  \/ CheckTaskApproval(p) \/ CheckPrerequisites(p) \/ Train(p) \/ PublishFile(p)
  \/ CreateAdapterCandidate(p) \/ StageCandidateAdapter(p) \/ WriteTranscript(p)
  \/ FinishEvaluationTrial(p) \/ CompleteMeasurement(p) \/ WriteResult(p)

RunnerStep == Withdraw \/ \E p \in Pods : PodStep(p) \/ PodDies(p)

---------------------------------------------------------------------------
RunnerTypeOK ==
  /\ \A p \in Pods : pod[p].kind \in Kinds /\ pod[p].done \in 0..(NFiles + NCases)
  /\ bucket \in [1..NFiles -> Pods \cup {Nothing}]
  /\ manifest \in Pods \cup {Nothing}
  /\ transcripts \in [1..NCases -> Pods \cup {Nothing}]
  /\ verdicts \in [1..NCases -> Pods \cup {Nothing}]
  /\ measured \in Pods \cup {Nothing}
  /\ results \in [Kinds -> Pods \cup {Nothing}]

\* What a job has registered is the work of one run of it, whichever pods died between two writes and
\* whichever ran at the same time: the files of an adapter that has a row are all those its digest was
\* taken of, the trials behind a completed campaign were all judged by the run that completed it, and
\* a result object names something that is registered.
RegisteredIsOneRun ==
  /\ manifest # Nothing => \A f \in 1..NFiles : bucket[f] = manifest
  /\ measured # Nothing => \A c \in 1..NCases : verdicts[c] = measured
  /\ results["lora_train"] \in {Nothing, manifest}
  /\ results["model_evaluate"] \in {Nothing, measured}
=============================================================================
