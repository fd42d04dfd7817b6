--------------------------- MODULE ServicesProofs ---------------------------
(***************************************************************************)
(* Proofs about Services, part by part, for any values of its constants:   *)
(*  - the pods of a job: each object and each verdict is written once, so  *)
(*    a pod that got past the last file, or case, has written them all;    *)
(*  - the batched inference: what a future waits on can be named;          *)
(*  - the Git connector: two ready revisions of a file are always in the   *)
(*    way of a sync that revokes one of them;                              *)
(*  - the scripts that learn from evaluations: they write what an object   *)
(*    names before the object, and a training set says what its compiler   *)
(*    saw of the suite, the report and the reviews;                        *)
(*  - the types of all five, with the attempts of a run, of which one is   *)
(*    active at most.                                                      *)
(* A part stays as it is while another takes a step.                       *)
(***************************************************************************)
EXTENDS Services, FiniteSetTheorems, SequenceTheorems, TLAPS
---------------------------------------------------------------------------
(* The pods of a training and of an evaluation job.                        *)

Checking == {"approval", "prerequisites", "train", "approval again", "prerequisites again"}
Stages == Checking \cup {"new", "ended", "publish", "register", "stage", "transcript", "finish",
                         "complete", "result"}
PodRow == [kind : Kinds, pc : Stages, done : Nat]

RunnerRows ==
  /\ pod \in [Pods -> PodRow]
  /\ bucket \in [1..NFiles -> Pods \cup {Nothing}]
  /\ verdicts \in [1..NCases -> Pods \cup {Nothing}]
  /\ manifest \in Pods \cup {Nothing} /\ measured \in Pods \cup {Nothing}
  /\ results \in [Kinds -> Pods \cup {Nothing}]

(* What a pod on its way to the result of a training has written so far.   *)
Trains(p) ==
  /\ pod[p].pc \in Checking => pod[p].done = 0 /\ pod[p].kind = "lora_train"
  /\ pod[p].pc = "publish" =>
       /\ pod[p].kind = "lora_train" /\ pod[p].done < NFiles
       /\ \A f \in 1..NFiles : f <= pod[p].done => bucket[f] = p
  /\ pod[p].pc = "register" =>
       /\ pod[p].kind = "lora_train"
       /\ \A f \in 1..NFiles : bucket[f] = p
  /\ pod[p].pc = "result" /\ pod[p].kind = "lora_train" => manifest = p

(* And of an evaluation.                                                   *)
Evaluates(p) ==
  /\ pod[p].pc = "stage" => pod[p].done = 0 /\ pod[p].kind = "model_evaluate"
  /\ pod[p].pc \in {"transcript", "finish"} =>
       /\ pod[p].kind = "model_evaluate" /\ pod[p].done < NCases
       /\ \A c \in 1..NCases : c <= pod[p].done => verdicts[c] = p
  /\ pod[p].pc = "complete" =>
       /\ pod[p].kind = "model_evaluate"
       /\ \A c \in 1..NCases : verdicts[c] = p
  /\ pod[p].pc = "result" /\ pod[p].kind = "model_evaluate" => measured = p

RunnerInv ==
  /\ RunnerRows
  /\ \A p \in Pods : Trains(p) /\ Evaluates(p)
  /\ RegisteredIsOneRun

(* Nothing has been written.                                               *)
LEMMA InitRunner == RunnerInit => RunnerInv
<1> SUFFICES ASSUME RunnerInit PROVE RunnerInv
  OBVIOUS
<1>1. RunnerRows
  BY RunnerAssumption DEF RunnerInit, RunnerRows, PodRow, Stages, Kinds
<1>2. ASSUME NEW p \in Pods PROVE Trains(p) /\ Evaluates(p)
  <2>1. pod[p].pc = "new"
    BY DEF RunnerInit
  <2> QED
    BY <2>1 DEF Trains, Evaluates, Checking
<1>3. RegisteredIsOneRun
  BY DEF RunnerInit, RegisteredIsOneRun, Kinds
<1> QED
  BY <1>1, <1>2, <1>3 DEF RunnerInv

(* A pod that goes to another stage stays what it is, and so do the others. *)
LEMMA Moved ==
  ASSUME pod \in [Pods -> PodRow], NEW p \in Pods, NEW pc \in Stages, Advanced(p, pc)
  PROVE  /\ pod' \in [Pods -> PodRow]
         /\ pod'[p].pc = pc /\ pod'[p].kind = pod[p].kind /\ pod'[p].done = pod[p].done
         /\ \A q \in Pods \ {p} : pod'[q] = pod[q]
<1>1. pod' = [pod EXCEPT ![p] = [pod[p] EXCEPT !.pc = pc]]
  BY DEF Advanced
<1>2. [pod[p] EXCEPT !.pc = pc] \in PodRow
  BY DEF PodRow
<1> QED
  BY <1>1, <1>2 DEF PodRow

(* What is written once stays, so a pod keeps what it owns while another   *)
(* one takes a step.                                                       *)
LEMMA OthersKeep ==
  ASSUME RunnerInv, NEW q \in Pods, pod'[q] = pod[q],
         \A f \in 1..NFiles : bucket[f] = q => bucket'[f] = q,
         \A c \in 1..NCases : verdicts[c] = q => verdicts'[c] = q,
         manifest = q => manifest' = q,
         measured = q => measured' = q
  PROVE  Trains(q)' /\ Evaluates(q)'
<1>1. Trains(q) /\ Evaluates(q)
  BY DEF RunnerInv
<1>2. Trains(q)'
  BY <1>1 DEF Trains
<1>3. Evaluates(q)'
  BY <1>1 DEF Evaluates
<1> QED
  BY <1>2, <1>3

(* A pod that ends, wherever it was, takes nothing back.                   *)
LEMMA PodEnds ==
  ASSUME RunnerInv, NEW p \in Pods, Advanced(p, "ended"),
         UNCHANGED <<bucket, manifest, verdicts, measured, results>>
  PROVE  RunnerInv'
<1>1. /\ pod' \in [Pods -> PodRow]
      /\ pod'[p].pc = "ended"
      /\ \A q \in Pods \ {p} : pod'[q] = pod[q]
  BY Moved DEF RunnerInv, RunnerRows, Stages
<1>2. (RunnerRows /\ RegisteredIsOneRun)'
  BY <1>1 DEF RunnerInv, RunnerRows, RegisteredIsOneRun
<1>3. \A q \in Pods \ {p} : Trains(q)' /\ Evaluates(q)'
  BY <1>1, OthersKeep
<1>4. Trains(p)' /\ Evaluates(p)'
  BY <1>1 DEF Trains, Evaluates, Checking
<1> QED
  BY <1>2, <1>3, <1>4 DEF RunnerInv

(* A step of pod p that registers nothing: what it owns after it is enough. *)
LEMMA OwnStep ==
  ASSUME RunnerInv, NEW p \in Pods, pod' \in [Pods -> PodRow],
         \A q \in Pods \ {p} : pod'[q] = pod[q],
         UNCHANGED <<bucket, manifest, verdicts, measured, results>>,
         Trains(p)', Evaluates(p)'
  PROVE  RunnerInv'
<1>1. \A q \in Pods \ {p} : Trains(q)' /\ Evaluates(q)'
  BY OthersKeep
<1>2. (RunnerRows /\ RegisteredIsOneRun)'
  BY DEF RunnerInv, RunnerRows, RegisteredIsOneRun
<1> QED
  BY <1>1, <1>2 DEF RunnerInv

(* Each step of a pod keeps what the pods own.                             *)
LEMMA StepRunner == RunnerInv /\ RunnerStep => RunnerInv'
<1> SUFFICES ASSUME RunnerInv, RunnerStep PROVE RunnerInv'
  OBVIOUS
<1>0. /\ RunnerRows /\ RegisteredIsOneRun
      /\ pod \in [Pods -> PodRow]
      /\ \A p \in Pods : Trains(p) /\ Evaluates(p)
  BY DEF RunnerInv, RunnerRows
<1>1. CASE Withdraw
  BY <1>1 DEF Withdraw, RunnerInv, RunnerRows, Trains, Evaluates, RegisteredIsOneRun
<1>2. ASSUME NEW p \in Pods, NEW kind \in Kinds, StartPod(p, kind) PROVE RunnerInv'
  <2> DEFINE first == IF kind = "lora_train" THEN "approval" ELSE "stage"
  <2>1. /\ pod' = [pod EXCEPT ![p] = [kind |-> kind, done |-> 0, pc |-> first]]
        /\ UNCHANGED <<bucket, manifest, verdicts, measured, results>>
    BY <1>2 DEF StartPod
  <2>2. [kind |-> kind, done |-> 0, pc |-> first] \in PodRow
    BY DEF PodRow, Stages, Checking
  <2>3. /\ pod' \in [Pods -> PodRow]
        /\ pod'[p].kind = kind /\ pod'[p].done = 0 /\ pod'[p].pc = first
        /\ \A q \in Pods \ {p} : pod'[q] = pod[q]
    BY <1>0, <2>1, <2>2
  <2>4. Trains(p)' /\ Evaluates(p)'
    BY <2>3 DEF Trains, Evaluates, Checking, Kinds
  <2> QED
    BY <2>1, <2>3, <2>4, OwnStep
<1>3. ASSUME NEW p \in Pods, CheckTaskApproval(p) PROVE RunnerInv'
  <2>0. UNCHANGED <<bucket, manifest, verdicts, measured, results>>
    BY <1>3 DEF CheckTaskApproval
  <2>1. CASE ~approved
    <3>1. Advanced(p, "ended")
      BY <1>3, <2>1 DEF CheckTaskApproval
    <3> QED
      BY <2>0, <3>1, PodEnds
  <2>2. CASE approved
    <3>1. pod[p].pc \in {"approval", "approval again"} /\ Advanced(p, AfterCheck(p))
      BY <1>3, <2>2 DEF CheckTaskApproval, Stage
    <3>2. AfterCheck(p) \in {"prerequisites", "prerequisites again"}
      BY <3>1 DEF AfterCheck, Stage
    <3>3. /\ pod' \in [Pods -> PodRow]
          /\ pod'[p].pc \in {"prerequisites", "prerequisites again"}
          /\ pod'[p].kind = pod[p].kind /\ pod'[p].done = pod[p].done
          /\ \A q \in Pods \ {p} : pod'[q] = pod[q]
      BY <1>0, <3>1, <3>2, Moved DEF Stages, Checking
    <3>4. pod[p].done = 0 /\ pod[p].kind = "lora_train"
      BY <1>0, <3>1 DEF Trains, Checking
    <3>5. Trains(p)' /\ Evaluates(p)'
      BY <3>3, <3>4, RunnerAssumption DEF Trains, Evaluates, Checking
    <3> QED
      BY <2>0, <3>3, <3>5, OwnStep
  <2> QED
    BY <2>1, <2>2
<1>4. ASSUME NEW p \in Pods, CheckPrerequisites(p) PROVE RunnerInv'
  <2>0. UNCHANGED <<bucket, manifest, verdicts, measured, results>>
    BY <1>4 DEF CheckPrerequisites
  <2>1. CASE ~sound
    <3>1. Advanced(p, "ended")
      BY <1>4, <2>1 DEF CheckPrerequisites
    <3> QED
      BY <2>0, <3>1, PodEnds
  <2>2. CASE sound
    <3>1. pod[p].pc \in {"prerequisites", "prerequisites again"} /\ Advanced(p, AfterCheck(p))
      BY <1>4, <2>2 DEF CheckPrerequisites, Stage
    <3>2. AfterCheck(p) \in {"train", "publish"}
      BY <3>1 DEF AfterCheck, Stage
    <3>3. /\ pod' \in [Pods -> PodRow]
          /\ pod'[p].pc \in {"train", "publish"}
          /\ pod'[p].kind = pod[p].kind /\ pod'[p].done = pod[p].done
          /\ \A q \in Pods \ {p} : pod'[q] = pod[q]
      BY <1>0, <3>1, <3>2, Moved DEF Stages, Checking
    <3>4. pod[p].done = 0 /\ pod[p].kind = "lora_train"
      BY <1>0, <3>1 DEF Trains, Checking
    <3>5. Trains(p)' /\ Evaluates(p)'
      BY <3>3, <3>4, RunnerAssumption DEF Trains, Evaluates, Checking
    <3> QED
      BY <2>0, <3>3, <3>5, OwnStep
  <2> QED
    BY <2>1, <2>2
<1>5. ASSUME NEW p \in Pods, Train(p) PROVE RunnerInv'
  <2>0. pod[p].pc = "train" /\ UNCHANGED <<bucket, manifest, verdicts, measured, results>>
    BY <1>5 DEF Train, Stage
  <2>1. CASE Advanced(p, "ended")
    BY <2>0, <2>1, PodEnds
  <2>2. CASE Advanced(p, "approval again")
    <3>1. /\ pod' \in [Pods -> PodRow]
          /\ pod'[p].pc = "approval again" /\ pod'[p].kind = pod[p].kind /\ pod'[p].done = pod[p].done
          /\ \A q \in Pods \ {p} : pod'[q] = pod[q]
      BY <1>0, <2>2, Moved DEF Stages, Checking
    <3>2. pod[p].done = 0 /\ pod[p].kind = "lora_train"
      BY <1>0, <2>0 DEF Trains, Evaluates, Checking
    <3>3. Trains(p)' /\ Evaluates(p)'
      BY <3>1, <3>2, RunnerAssumption DEF Trains, Evaluates, Checking
    <3> QED
      BY <2>0, <3>1, <3>3, OwnStep
  <2> QED
    BY <1>5, <2>1, <2>2 DEF Train
<1>6. ASSUME NEW p \in Pods, PublishFile(p) PROVE RunnerInv'
  <2> DEFINE k == pod[p].done + 1
             next == IF k = NFiles THEN "register" ELSE "publish"
  <2>1. CASE bucket[k] # Nothing
    <3>1. Advanced(p, "ended") /\ UNCHANGED <<bucket, manifest, verdicts, measured, results>>
      BY <1>6, <2>1 DEF PublishFile
    <3> QED
      BY <3>1, PodEnds
  <2>2. CASE bucket[k] = Nothing
    <3>1. /\ pod[p].pc = "publish" /\ bucket' = [bucket EXCEPT ![k] = p]
          /\ UNCHANGED <<manifest, verdicts, measured, results>>
      BY <1>6, <2>2 DEF PublishFile, Stage, Put
    <3>2. pod' = [pod EXCEPT ![p] = [pod[p] EXCEPT !.done = k, !.pc = next]]
      BY <1>6, <2>2, <3>1 DEF PublishFile, Put
    <3>3. pod[p] \in PodRow /\ pod[p].done \in Nat /\ k \in Nat
      BY <1>0 DEF PodRow
    <3>4. /\ k \in 1..NFiles /\ pod[p].kind = "lora_train"
          /\ \A f \in 1..NFiles : f <= pod[p].done => bucket[f] = p
      BY <1>0, <3>1, <3>3, RunnerAssumption DEF Trains
    <3>5. [pod[p] EXCEPT !.done = k, !.pc = next] \in PodRow
      BY <3>3 DEF PodRow, Stages
    <3>6. /\ pod' \in [Pods -> PodRow]
          /\ pod'[p].kind = "lora_train" /\ pod'[p].done = k /\ pod'[p].pc = next
          /\ \A q \in Pods \ {p} : pod'[q] = pod[q]
      BY <1>0, <3>2, <3>3, <3>4, <3>5 DEF PodRow
    <3>7. /\ bucket' \in [1..NFiles -> Pods \cup {Nothing}] /\ bucket'[k] = p
          /\ \A f \in 1..NFiles : bucket[f] # Nothing => bucket'[f] = bucket[f]
      BY <1>0, <2>2, <3>1, <3>4 DEF RunnerRows
    <3>8. \A f \in 1..NFiles : f <= k => bucket'[f] = p
      BY <3>3, <3>4, <3>7, RunnerAssumption
    <3>9. Trains(p)'
      BY <3>4, <3>6, <3>8, RunnerAssumption DEF Trains, Checking
    <3>10. Evaluates(p)'
      BY <3>6 DEF Evaluates, Checking
    <3>11. \A q \in Pods \ {p} : Trains(q)' /\ Evaluates(q)'
      BY <3>1, <3>6, <3>7, OthersKeep, RunnerAssumption
    <3>12. RegisteredIsOneRun'
      BY <1>0, <3>1, <3>7 DEF RegisteredIsOneRun
    <3>13. RunnerRows'
      BY <1>0, <3>1, <3>6, <3>7 DEF RunnerRows
    <3> QED
      BY <3>9, <3>10, <3>11, <3>12, <3>13 DEF RunnerInv
  <2> QED
    BY <2>1, <2>2
<1>7. ASSUME NEW p \in Pods, CreateAdapterCandidate(p) PROVE RunnerInv'
  <2>1. CASE ~(sound /\ manifest = Nothing)
    <3>1. Advanced(p, "ended") /\ UNCHANGED <<bucket, manifest, verdicts, measured, results>>
      BY <1>7, <2>1 DEF CreateAdapterCandidate
    <3> QED
      BY <3>1, PodEnds
  <2>2. CASE sound /\ manifest = Nothing
    <3>1. /\ pod[p].pc = "register" /\ Advanced(p, "result") /\ manifest' = p
          /\ UNCHANGED <<bucket, verdicts, measured, results>>
      BY <1>7, <2>2 DEF CreateAdapterCandidate, Stage
    <3>2. pod[p].kind = "lora_train" /\ \A f \in 1..NFiles : bucket[f] = p
      BY <1>0, <3>1 DEF Trains
    <3>3. /\ pod' \in [Pods -> PodRow]
          /\ pod'[p].pc = "result" /\ pod'[p].kind = pod[p].kind
          /\ \A q \in Pods \ {p} : pod'[q] = pod[q]
      BY <1>0, <3>1, Moved DEF Stages
    <3>4. Trains(p)' /\ Evaluates(p)'
      BY <3>1, <3>2, <3>3 DEF Trains, Evaluates, Checking
    <3>5. \A q \in Pods \ {p} : Trains(q)' /\ Evaluates(q)'
      BY <2>2, <3>1, <3>3, OthersKeep, RunnerAssumption
    <3>6. RegisteredIsOneRun'
      BY <1>0, <2>2, <3>1, <3>2 DEF RegisteredIsOneRun
    <3>7. RunnerRows'
      BY <1>0, <3>1, <3>3 DEF RunnerRows
    <3> QED
      BY <3>4, <3>5, <3>6, <3>7 DEF RunnerInv
  <2> QED
    BY <2>1, <2>2
<1>8. ASSUME NEW p \in Pods, StageCandidateAdapter(p) PROVE RunnerInv'
  <2>0. pod[p].pc = "stage" /\ UNCHANGED <<bucket, manifest, verdicts, measured, results>>
    BY <1>8 DEF StageCandidateAdapter, Stage
  <2>1. CASE Advanced(p, "ended")
    BY <2>0, <2>1, PodEnds
  <2>2. CASE Advanced(p, "transcript")
    <3>1. /\ pod' \in [Pods -> PodRow]
          /\ pod'[p].pc = "transcript" /\ pod'[p].kind = pod[p].kind /\ pod'[p].done = pod[p].done
          /\ \A q \in Pods \ {p} : pod'[q] = pod[q]
      BY <1>0, <2>2, Moved DEF Stages, Checking
    <3>2. pod[p].done = 0 /\ pod[p].kind = "model_evaluate"
      BY <1>0, <2>0 DEF Trains, Evaluates, Checking
    <3>3. Trains(p)' /\ Evaluates(p)'
      BY <3>1, <3>2, RunnerAssumption DEF Trains, Evaluates, Checking
    <3> QED
      BY <2>0, <3>1, <3>3, OwnStep
  <2> QED
    BY <1>8, <2>1, <2>2 DEF StageCandidateAdapter
<1>9. ASSUME NEW p \in Pods, WriteTranscript(p) PROVE RunnerInv'
  <2>1. pod[p].pc = "transcript" /\ Advanced(p, "finish") /\ UNCHANGED <<bucket, manifest, verdicts, measured, results>>
    BY <1>9 DEF WriteTranscript, Stage
  <2>2. /\ pod' \in [Pods -> PodRow]
        /\ pod'[p].pc = "finish" /\ pod'[p].kind = pod[p].kind /\ pod'[p].done = pod[p].done
        /\ \A q \in Pods \ {p} : pod'[q] = pod[q]
    BY <1>0, <2>1, Moved DEF Stages
  <2>3. Trains(p)' /\ Evaluates(p)'
    BY <1>0, <2>1, <2>2 DEF Trains, Evaluates, Checking
  <2> QED
    BY <2>1, <2>2, <2>3, OwnStep
<1>10. ASSUME NEW p \in Pods, FinishEvaluationTrial(p) PROVE RunnerInv'
  <2> DEFINE k == pod[p].done + 1
             next == IF k = NCases THEN "complete" ELSE "transcript"
  <2>1. CASE verdicts[k] # Nothing
    <3>1. Advanced(p, "ended") /\ UNCHANGED <<bucket, manifest, verdicts, measured, results>>
      BY <1>10, <2>1 DEF FinishEvaluationTrial
    <3> QED
      BY <3>1, PodEnds
  <2>2. CASE verdicts[k] = Nothing
    <3>1. /\ pod[p].pc = "finish" /\ verdicts' = [verdicts EXCEPT ![k] = p]
          /\ UNCHANGED <<bucket, manifest, measured, results>>
      BY <1>10, <2>2 DEF FinishEvaluationTrial, Stage
    <3>2. pod' = [pod EXCEPT ![p] = [pod[p] EXCEPT !.done = k, !.pc = next]]
      BY <1>10, <2>2, <3>1 DEF FinishEvaluationTrial
    <3>3. pod[p] \in PodRow /\ pod[p].done \in Nat /\ k \in Nat
      BY <1>0 DEF PodRow
    <3>4. /\ k \in 1..NCases /\ pod[p].kind = "model_evaluate"
          /\ \A f \in 1..NCases : f <= pod[p].done => verdicts[f] = p
      BY <1>0, <3>1, <3>3, RunnerAssumption DEF Evaluates
    <3>5. [pod[p] EXCEPT !.done = k, !.pc = next] \in PodRow
      BY <3>3 DEF PodRow, Stages
    <3>6. /\ pod' \in [Pods -> PodRow]
          /\ pod'[p].kind = "model_evaluate" /\ pod'[p].done = k /\ pod'[p].pc = next
          /\ \A q \in Pods \ {p} : pod'[q] = pod[q]
      BY <1>0, <3>2, <3>3, <3>4, <3>5 DEF PodRow
    <3>7. /\ verdicts' \in [1..NCases -> Pods \cup {Nothing}] /\ verdicts'[k] = p
          /\ \A f \in 1..NCases : verdicts[f] # Nothing => verdicts'[f] = verdicts[f]
      BY <1>0, <2>2, <3>1, <3>4 DEF RunnerRows
    <3>8. \A f \in 1..NCases : f <= k => verdicts'[f] = p
      BY <3>3, <3>4, <3>7, RunnerAssumption
    <3>9. Evaluates(p)'
      BY <3>4, <3>6, <3>8, RunnerAssumption DEF Evaluates, Checking
    <3>10. Trains(p)'
      BY <3>6 DEF Trains, Checking
    <3>11. \A q \in Pods \ {p} : Trains(q)' /\ Evaluates(q)'
      BY <3>1, <3>6, <3>7, OthersKeep, RunnerAssumption
    <3>12. RegisteredIsOneRun'
      BY <1>0, <3>1, <3>7 DEF RegisteredIsOneRun
    <3>13. RunnerRows'
      BY <1>0, <3>1, <3>6, <3>7 DEF RunnerRows
    <3> QED
      BY <3>9, <3>10, <3>11, <3>12, <3>13 DEF RunnerInv
  <2> QED
    BY <2>1, <2>2
<1>11. ASSUME NEW p \in Pods, CompleteMeasurement(p) PROVE RunnerInv'
  <2>1. /\ pod[p].pc = "complete" /\ Advanced(p, "result") /\ measured' = p
        /\ UNCHANGED <<bucket, manifest, verdicts, results>>
    BY <1>11 DEF CompleteMeasurement, Stage
  <2>2. pod[p].kind = "model_evaluate" /\ \A c \in 1..NCases : verdicts[c] = p
    BY <1>0, <2>1 DEF Evaluates
  <2>3. measured \in {Nothing, p}
    BY <1>0, <2>2, RunnerAssumption DEF RegisteredIsOneRun
  <2>4. /\ pod' \in [Pods -> PodRow]
        /\ pod'[p].pc = "result" /\ pod'[p].kind = pod[p].kind
        /\ \A q \in Pods \ {p} : pod'[q] = pod[q]
    BY <1>0, <2>1, Moved DEF Stages
  <2>5. Trains(p)' /\ Evaluates(p)'
    BY <2>1, <2>2, <2>4 DEF Trains, Evaluates, Checking
  <2>6. \A q \in Pods \ {p} : Trains(q)' /\ Evaluates(q)'
    BY <2>1, <2>3, <2>4, OthersKeep, RunnerAssumption
  <2>7. RegisteredIsOneRun'
    BY <1>0, <2>1, <2>2, <2>3 DEF RegisteredIsOneRun
  <2>8. RunnerRows'
    BY <1>0, <2>1, <2>4 DEF RunnerRows
  <2> QED
    BY <2>5, <2>6, <2>7, <2>8 DEF RunnerInv
<1>12. ASSUME NEW p \in Pods, WriteResult(p) PROVE RunnerInv'
  <2>1. /\ pod[p].pc = "result" /\ Advanced(p, "ended")
        /\ results' = [results EXCEPT ![pod[p].kind] = p]
        /\ UNCHANGED <<bucket, manifest, verdicts, measured>>
    BY <1>12 DEF WriteResult, Stage
  <2>2. /\ pod' \in [Pods -> PodRow]
        /\ pod'[p].pc = "ended"
        /\ \A q \in Pods \ {p} : pod'[q] = pod[q]
    BY <1>0, <2>1, Moved DEF Stages
  <2>3. pod[p].kind \in Kinds
    BY <1>0 DEF PodRow
  <2>4. /\ pod[p].kind = "lora_train" => manifest = p
        /\ pod[p].kind = "model_evaluate" => measured = p
    BY <1>0, <2>1 DEF Trains, Evaluates
  <2>5. RegisteredIsOneRun'
    BY <1>0, <2>1, <2>3, <2>4 DEF RunnerRows, RegisteredIsOneRun, Kinds
  <2>6. RunnerRows'
    BY <1>0, <2>1, <2>2, <2>3 DEF RunnerRows
  <2>7. Trains(p)' /\ Evaluates(p)'
    BY <2>2 DEF Trains, Evaluates, Checking
  <2>8. \A q \in Pods \ {p} : Trains(q)' /\ Evaluates(q)'
    BY <2>1, <2>2, OthersKeep
  <2> QED
    BY <2>5, <2>6, <2>7, <2>8 DEF RunnerInv
<1>13. ASSUME NEW p \in Pods, PodDies(p) PROVE RunnerInv'
  <2>1. Advanced(p, "ended") /\ UNCHANGED <<bucket, manifest, verdicts, measured, results>>
    BY <1>13 DEF PodDies
  <2> QED
    BY <2>1, PodEnds
<1> QED
  BY <1>1, <1>2, <1>3, <1>4, <1>5, <1>6, <1>7, <1>8, <1>9, <1>10, <1>11, <1>12, <1>13
  DEF RunnerStep, PodStep

(* The other components leave the pods alone.                              *)
LEMMA OtherSteps == RunnerInv /\ UNCHANGED runnerVars => RunnerInv'
  BY DEF RunnerInv, RunnerRows, Trains, Evaluates, RegisteredIsOneRun, runnerVars

(* The files behind a registered adapter, the verdicts behind a completed  *)
(* campaign and the result objects are each the work of one pod, whichever *)
(* pods died and whichever ran at the same time.                           *)
THEOREM RegisteredOneRun == Spec => []RegisteredIsOneRun
<1>1. Init => RunnerInv
  BY InitRunner DEF Init
<1>2. RunnerInv /\ [Next]_serviceVars => RunnerInv'
  BY StepRunner, OtherSteps
  DEF Next, serviceVars, DuringAttempt, DuringTrain, DuringServe, DuringGit, DuringLearn
<1>3. RunnerInv => RegisteredIsOneRun
  BY DEF RunnerInv
<1> QED
  BY <1>1, <1>2, <1>3, PTL DEF Spec
---------------------------------------------------------------------------
(* The batched inference. What a future waits on is named: the deque, the  *)
(* groups that the processor has left, or a batch that a shutdown dropped. *)

CallRow == [pc : {"idle", "lookup", "waiting", "store", "ended"},
            future : {"none", "pending", "result", "error", "cancelled"},
            setting : Settings \cup {"none"}]
ProcessorRow == [pc : {"none", "filling", "executing", "ended"},
                 batch : Seq(Requests), left : SUBSET Requests]

BatchRows ==
  /\ request \in [Requests -> CallRow]
  /\ queue \in Seq(Requests)
  /\ processor \in ProcessorRow

BatchInv == BatchRows /\ WaitingIsServed

(* Nobody has asked, and no processor runs.                                *)
LEMMA InitBatch == BatchInit => BatchInv
<1> SUFFICES ASSUME BatchInit PROVE BatchInv
  OBVIOUS
<1>1. BatchRows
  BY DEF BatchInit, BatchRows, Unasked, CallRow, ProcessorRow
<1>2. WaitingIsServed
  BY DEF BatchInit, WaitingIsServed, Unasked
<1> QED
  BY <1>1, <1>2 DEF BatchInv

(* A future that is set or cancelled is pending no more, and no future     *)
(* becomes pending.                                                        *)
LEMMA ResolvedRows ==
  ASSUME request \in [Requests -> CallRow], NEW S, NEW outcome \in {"result", "error", "cancelled"}
  PROVE  /\ Resolved(S, outcome) \in [Requests -> CallRow]
         /\ \A r \in Requests : Resolved(S, outcome)[r].future = "pending" =>
              r \notin S /\ request[r].future = "pending"
<1>1. ASSUME NEW r \in Requests
      PROVE  [request[r] EXCEPT !.future = outcome] \in CallRow
  BY DEF CallRow
<1>2. ASSUME NEW r \in Requests
      PROVE  [request[r] EXCEPT !.future = outcome].future = outcome
  BY DEF CallRow
<1> QED
  BY <1>1, <1>2 DEF Resolved

(* A call that goes on without a pending future of its own leaves the      *)
(* deque and the processor as they are.                                    *)
LEMMA CallGoesOn ==
  ASSUME BatchInv, NEW r \in Requests, NEW row \in CallRow, row.future # "pending",
         request' = [request EXCEPT ![r] = row],
         UNCHANGED <<queue, processor, shutdown, abandoned>>
  PROVE  BatchInv'
<1>1. /\ request' \in [Requests -> CallRow]
      /\ \A q \in Requests : request'[q].future = "pending" => request[q].future = "pending"
  BY DEF BatchInv, BatchRows
<1>2. BatchRows'
  BY <1>1 DEF BatchInv, BatchRows
<1>3. WaitingIsServed'
  BY <1>1 DEF BatchInv, WaitingIsServed, Running
<1> QED
  BY <1>2, <1>3 DEF BatchInv

LEMMA Returns ==
  ASSUME BatchInv, NEW r \in Requests, Return(r), UNCHANGED <<queue, processor, shutdown, abandoned>>
  PROVE  BatchInv'
<1> DEFINE row == [request[r] EXCEPT !.pc = "ended", !.future = "none"]
<1>1. row \in CallRow /\ row.future # "pending"
  BY DEF BatchInv, BatchRows, CallRow
<1>2. request' = [request EXCEPT ![r] = row]
  BY DEF Return, BatchInv, BatchRows
<1> HIDE DEF row
<1> QED
  BY <1>1, <1>2, CallGoesOn

(* What the processor takes and what it leaves are the deque.              *)
LEMMA Taken ==
  ASSUME NEW S, NEW q \in Seq(S), NEW n \in 0..Len(q)
  PROVE  /\ SubSeq(q, 1, n) \in Seq(S) /\ SubSeq(q, n + 1, Len(q)) \in Seq(S)
         /\ Range(q) = Range(SubSeq(q, 1, n)) \cup Range(SubSeq(q, n + 1, Len(q)))
         /\ Range(SubSeq(q, 1, n)) \subseteq S
         /\ SubSeq(q, n + 1, Len(q)) # <<>> => n < Len(q)
<1> DEFINE front == SubSeq(q, 1, n)
           back == SubSeq(q, n + 1, Len(q))
<1>1. /\ front \in Seq(S) /\ Len(front) = n
      /\ \A i \in 1..n : front[i] = q[i]
  OBVIOUS
<1>2. /\ back \in Seq(S) /\ Len(back) = Len(q) - n
      /\ \A i \in 1..(Len(q) - n) : back[i] = q[n + i]
  OBVIOUS
<1>3. /\ DOMAIN q = 1..Len(q) /\ DOMAIN front = 1..n /\ DOMAIN back = 1..(Len(q) - n)
      /\ Len(q) \in Nat
  BY <1>1, <1>2
<1> HIDE DEF front, back
<1>4. ASSUME NEW i \in 1..Len(q) PROVE q[i] \in Range(front) \cup Range(back)
  <2>1. CASE i <= n
    BY <1>1, <1>3, <2>1 DEF Range
  <2>2. CASE ~(i <= n)
    <3>1. i - n \in 1..(Len(q) - n) /\ n + (i - n) = i
      BY <1>3, <2>2
    <3>2. back[i - n] = q[i]
      BY <1>2, <3>1
    <3> QED
      BY <1>3, <3>1, <3>2 DEF Range
  <2> QED
    BY <2>1, <2>2
<1>5. Range(front) \subseteq Range(q) /\ Range(front) \subseteq S
  BY <1>1, <1>3 DEF Range
<1>6. Range(back) \subseteq Range(q)
  <2>1. ASSUME NEW i \in 1..(Len(q) - n) PROVE back[i] \in Range(q)
    <3>1. n + i \in 1..Len(q) /\ back[i] = q[n + i]
      BY <1>2, <1>3
    <3> QED
      BY <1>3, <3>1 DEF Range
  <2> QED
    BY <1>3, <2>1 DEF Range
<1>7. Range(q) \subseteq Range(front) \cup Range(back)
  BY <1>3, <1>4 DEF Range
<1>8. back # <<>> => n < Len(q)
  BY <1>2, <1>3
<1> USE DEF front, back
<1> QED
  BY <1>1, <1>2, <1>5, <1>6, <1>7, <1>8

LEMMA StepBatch == BatchInv /\ BatchStep => BatchInv'
<1> SUFFICES ASSUME BatchInv, BatchStep PROVE BatchInv'
  OBVIOUS
<1>0. BatchRows /\ WaitingIsServed
  BY DEF BatchInv
<1>1. ASSUME NEW r \in Requests, Ask(r) PROVE BatchInv'
  <2>1. PICK s \in Settings :
          request' = [request EXCEPT ![r] = [Unasked EXCEPT !.pc = "lookup", !.setting = s]]
    BY <1>1 DEF Ask
  <2>2. /\ [Unasked EXCEPT !.pc = "lookup", !.setting = s] \in CallRow
        /\ [Unasked EXCEPT !.pc = "lookup", !.setting = s].future # "pending"
    BY DEF Unasked, CallRow
  <2> QED
    BY <1>1, <2>1, <2>2, CallGoesOn DEF Ask
<1>2. ASSUME NEW r \in Requests, AnswerFromCache(r) PROVE BatchInv'
  BY <1>2, Returns DEF AnswerFromCache
<1>3. ASSUME NEW r \in Requests, Enqueue(r) PROVE BatchInv'
  <2>1. /\ request' = [request EXCEPT ![r] = [request[r] EXCEPT !.pc = "waiting", !.future = "pending"]]
        /\ queue' = Append(queue, r) /\ processor' = StartProcessor
        /\ UNCHANGED <<shutdown, abandoned>>
    BY <1>0, <1>3 DEF Enqueue, BatchRows
  <2>2. [request[r] EXCEPT !.pc = "waiting", !.future = "pending"] \in CallRow
    BY <1>0 DEF BatchRows, CallRow
  <2>3. /\ request' \in [Requests -> CallRow]
        /\ \A q \in Requests \ {r} : request'[q] = request[q]
    BY <1>0, <2>1, <2>2 DEF BatchRows
  <2>4. queue' \in Seq(Requests) /\ Range(queue') = Range(queue) \cup {r}
    <3>1. /\ queue' \in Seq(Requests) /\ Len(queue') = Len(queue) + 1 /\ Len(queue) \in Nat
          /\ \A i \in 1..Len(queue) : queue'[i] = queue[i]
          /\ queue'[Len(queue) + 1] = r
      BY <1>0, <2>1 DEF BatchRows
    <3>2. DOMAIN queue = 1..Len(queue) /\ DOMAIN queue' = 1..(Len(queue) + 1)
      BY <1>0, <3>1 DEF BatchRows
    <3> QED
      BY <3>1, <3>2 DEF Range
  <2>5. /\ processor' \in ProcessorRow /\ processor'.pc \in {"filling", "executing"}
        /\ processor'.left = processor.left
        /\ processor'.left # {} => processor'.pc = "executing"
    BY <1>0, <2>1 DEF StartProcessor, Running, Filling, ProcessorRow, BatchRows, WaitingIsServed
  <2>6. WaitingIsServed'
    BY <1>0, <2>1, <2>3, <2>4, <2>5 DEF WaitingIsServed, Running
  <2> QED
    BY <2>3, <2>4, <2>5, <2>6 DEF BatchInv, BatchRows
<1>4. ASSUME NEW r \in Requests, Wake(r) PROVE BatchInv'
  <2>1. CASE request[r].future \in {"error", "cancelled"} /\ Return(r)
    BY <1>4, <2>1, Returns DEF Wake
  <2>2. CASE request[r].future = "result" /\ request' = [request EXCEPT ![r].pc = "store"]
    <3> DEFINE row == [request[r] EXCEPT !.pc = "store"]
    <3>1. row \in CallRow /\ row.future # "pending"
      BY <1>0, <2>2 DEF BatchRows, CallRow
    <3>2. request' = [request EXCEPT ![r] = row]
      BY <1>0, <2>2 DEF BatchRows
    <3> HIDE DEF row
    <3> QED
      BY <1>4, <3>1, <3>2, CallGoesOn DEF Wake
  <2> QED
    BY <1>4, <2>1, <2>2 DEF Wake
<1>5. ASSUME NEW r \in Requests, StoreResult(r) PROVE BatchInv'
  BY <1>5, Returns DEF StoreResult
<1>6. ASSUME NEW r \in Requests, Disconnect(r) PROVE BatchInv'
  BY <1>6, Returns DEF Disconnect
<1>7. CASE TakeBatch
  <2> DEFINE n == IF Len(queue) < MaxBatch THEN Len(queue) ELSE MaxBatch
             front == SubSeq(queue, 1, n)
             back == SubSeq(queue, n + 1, Len(queue))
  <2>1. /\ processor.pc = "filling" /\ queue' = back
        /\ processor' = IF n = 0 THEN Stopped
                        ELSE [pc |-> "executing", batch |-> front, left |-> Range(front)]
        /\ UNCHANGED <<request, shutdown, abandoned>>
    BY <1>7 DEF TakeBatch
  <2>2. queue \in Seq(Requests) /\ Len(queue) \in Nat
    BY <1>0 DEF BatchRows
  <2>3. n \in 0..Len(queue) /\ (n < Len(queue) => n # 0)
    BY <2>2, BatchAssumption
  <2> HIDE DEF n
  <2>4. /\ front \in Seq(Requests) /\ back \in Seq(Requests)
        /\ Range(queue) = Range(front) \cup Range(back)
        /\ Range(front) \subseteq Requests
        /\ back # <<>> => n < Len(queue)
    BY <2>2, <2>3, Taken
  <2>5. n = 0 => front = <<>>
    BY <2>2
  <2>6. n = 0 => Range(front) = {}
    BY <2>5 DEF Range
  <2> HIDE DEF front, back
  <2>7. processor.left = {}
    BY <1>0, <2>1 DEF WaitingIsServed
  <2>8. /\ processor' \in ProcessorRow /\ processor'.left = Range(front)
        /\ processor'.pc = IF n = 0 THEN "ended" ELSE "executing"
    BY <2>1, <2>4, <2>6 DEF ProcessorRow, Stopped
  <2>9. WaitingIsServed'
    <3>1. \A r \in Requests : request'[r].future = "pending" =>
             r \in Range(queue') \cup processor'.left \cup abandoned'
      BY <1>0, <2>1, <2>4, <2>7, <2>8 DEF WaitingIsServed
    <3>2. queue' # <<>> => processor'.pc = "executing"
      BY <2>1, <2>3, <2>4, <2>8
    <3>3. processor'.left # {} => processor'.pc = "executing"
      BY <2>6, <2>8
    <3> QED
      BY <3>1, <3>2, <3>3 DEF WaitingIsServed, Running
  <2> QED
    BY <1>0, <2>1, <2>4, <2>8, <2>9 DEF BatchInv, BatchRows
<1>8. CASE RunGroup
  <2>1. /\ processor' = IF processor.left # Group THEN [processor EXCEPT !.left = @ \ Group]
                        ELSE IF queue # <<>> THEN Filling ELSE Stopped
        /\ processor.pc = "executing"
        /\ UNCHANGED <<queue, shutdown, abandoned>>
    BY <1>8 DEF RunGroup
  <2>2. PICK outcome \in {"result", "error"} : request' = Resolved(Group, outcome)
    BY <1>8 DEF RunGroup
  <2>3. /\ request' \in [Requests -> CallRow]
        /\ \A r \in Requests : request'[r].future = "pending" =>
             r \notin Group /\ request[r].future = "pending"
    BY <1>0, <2>2, ResolvedRows DEF BatchRows
  <2>4. Group \subseteq processor.left
    BY DEF Group
  <2>5. /\ processor' \in ProcessorRow /\ processor'.left = processor.left \ Group
        /\ processor'.left # {} => processor'.pc = "executing"
        /\ queue # <<>> => processor'.pc \in {"filling", "executing"}
    BY <1>0, <2>1, <2>4 DEF BatchRows, ProcessorRow, Filling, Stopped
  <2>6. WaitingIsServed'
    BY <1>0, <2>1, <2>3, <2>5 DEF WaitingIsServed, Running
  <2> QED
    BY <1>0, <2>1, <2>3, <2>5, <2>6 DEF BatchInv, BatchRows
<1>9. CASE BeginShutdown
  <2>1. /\ UNCHANGED <<request, queue>> /\ shutdown'.pc = "clear"
        /\ IF Running
           THEN processor' = Stopped /\ abandoned' = abandoned \cup processor.left
           ELSE UNCHANGED <<processor, abandoned>>
    BY <1>9 DEF BeginShutdown
  <2>2. /\ processor' \in ProcessorRow
        /\ processor.left \cup abandoned \subseteq processor'.left \cup abandoned'
        /\ processor'.left # {} => processor'.pc = "executing"
    <3>1. CASE Running
      <4>1. processor' = Stopped /\ abandoned' = abandoned \cup processor.left
        BY <2>1, <3>1
      <4>2. Stopped \in ProcessorRow /\ Stopped.left = {}
        BY DEF Stopped, ProcessorRow
      <4> QED
        BY <4>1, <4>2
    <3>2. CASE ~Running
      BY <1>0, <2>1, <3>2 DEF BatchRows, WaitingIsServed
    <3> QED
      BY <3>1, <3>2
  <2>3. WaitingIsServed'
    BY <1>0, <2>1, <2>2 DEF WaitingIsServed
  <2> QED
    BY <1>0, <2>1, <2>2, <2>3 DEF BatchInv, BatchRows
<1>10. CASE ClearQueue
  <2>1. /\ request' = Resolved(Range(queue), "cancelled") /\ queue' = <<>>
        /\ UNCHANGED <<processor, abandoned>>
    BY <1>10 DEF ClearQueue
  <2>2. /\ request' \in [Requests -> CallRow]
        /\ \A r \in Requests : request'[r].future = "pending" =>
             r \notin Range(queue) /\ request[r].future = "pending"
    BY <1>0, <2>1, ResolvedRows DEF BatchRows
  <2>3. queue' \in Seq(Requests)
    BY <2>1
  <2>4. WaitingIsServed'
    BY <1>0, <2>1, <2>2 DEF WaitingIsServed
  <2> QED
    BY <1>0, <2>1, <2>2, <2>3, <2>4 DEF BatchInv, BatchRows
<1> QED
  BY <1>1, <1>2, <1>3, <1>4, <1>5, <1>6, <1>7, <1>8, <1>9, <1>10 DEF BatchStep

LEMMA BatchLeftAlone == BatchInv /\ UNCHANGED batchVars => BatchInv'
  BY DEF BatchInv, BatchRows, WaitingIsServed, Running, batchVars

(* No call of generate() waits for nothing but a batch that a shutdown     *)
(* dropped, for any number of calls, settings and batches: a future that   *)
(* is not set is in the deque or with the processor, and what is in the    *)
(* deque has a processor or a shutdown that gets to it.                    *)
THEOREM WaitingServed == Spec => []WaitingIsServed
<1>1. Init => BatchInv
  BY InitBatch DEF Init
<1>2. BatchInv /\ [Next]_serviceVars => BatchInv'
  BY StepBatch, BatchLeftAlone
  DEF Next, serviceVars, DuringAttempt, DuringTrain, DuringServe, DuringGit, DuringLearn
<1>3. BatchInv => WaitingIsServed
  BY DEF BatchInv
<1> QED
  BY <1>1, <1>2, <1>3, PTL DEF Spec
---------------------------------------------------------------------------
(* The Git connector. Two ready revisions of one file are there only while *)
(* a sync is on its way to revoke one of them: it has to index or to prune *)
(* one of the two, and pruning either ends the pair.                       *)

SyncRow == [pc : {"idle", "list", "fetch", "index", "prune", "commit"},
            before : Nat, after : Nat, todo : Seq(Nat), found : Seq(Nat)]

GitRows ==
  /\ history \in Seq([file : Files, status : {"modified", "removed"}])
  /\ Len(history) <= MaxCommits /\ cursor \in Nat
  /\ document \in [Commits -> {"absent", "ready", "deleted"}]
  /\ \A c \in Commits : c > Len(history) => document[c] = "absent"
  /\ sync \in [Syncs -> SyncRow]

(* The commits that a sync works through are there, and while it stores    *)
(* them or prunes, it has one to go on with.                               *)
WorksThrough(s) ==
  /\ Range(sync[s].todo) \cup Range(sync[s].found) \subseteq 1..Len(history)
  /\ Pc(s) \in {"index", "prune"} => sync[s].todo # <<>>
  /\ Pc(s) = "index" => Range(sync[s].todo) \subseteq Range(sync[s].found)

Prunes(row) == IF row.pc = "index" THEN Range(row.found)
               ELSE IF row.pc = "prune" THEN Range(row.todo) ELSE {}

Ready(c) == c \in 1..Len(history) /\ document[c] = "ready"

Pair(c, d) == c # d /\ Ready(c) /\ Ready(d) /\ FileOf(c) = FileOf(d)

PairsEnd ==
  \A c, d \in Commits : Pair(c, d) => \E s \in Syncs : c \in Prunes(sync[s]) \/ d \in Prunes(sync[s])

GitInv ==
  /\ GitRows
  /\ \A s \in Syncs : WorksThrough(s)
  /\ ~broken => PairsEnd

(* There is no commit yet.                                                 *)
LEMMA InitGit == GitInit => GitInv
<1> SUFFICES ASSUME GitInit PROVE GitInv
  OBVIOUS
<1>1. GitRows
  BY GitAssumption DEF GitInit, GitRows, SyncRow, Idle, Commits
<1>2. \A s \in Syncs : WorksThrough(s)
  BY DEF GitInit, WorksThrough, Idle, Pc, Range
<1>3. PairsEnd
  BY DEF GitInit, PairsEnd, Pair, Ready
<1> QED
  BY <1>1, <1>2, <1>3 DEF GitInv

(* What a sequence without its first element has.                          *)
LEMMA TailRange ==
  ASSUME NEW S, NEW q \in Seq(S), q # <<>>
  PROVE  /\ Head(q) \in S /\ Head(q) \in Range(q) /\ Tail(q) \in Seq(S)
         /\ Range(q) = {Head(q)} \cup Range(Tail(q))
         /\ Len(q) > 1 <=> Tail(q) # <<>>
<1>1. /\ Len(q) \in Nat /\ Len(q) > 0 /\ DOMAIN q = 1..Len(q)
      /\ Tail(q) \in Seq(S) /\ Len(Tail(q)) = Len(q) - 1 /\ DOMAIN Tail(q) = 1..(Len(q) - 1)
      /\ \A i \in 1..(Len(q) - 1) : Tail(q)[i] = q[i + 1]
      /\ Head(q) = q[1] /\ 1 \in 1..Len(q)
  OBVIOUS
<1>2. Head(q) \in S /\ Head(q) \in Range(q)
  BY <1>1 DEF Range
<1>3. ASSUME NEW i \in 1..Len(q) PROVE q[i] \in {Head(q)} \cup Range(Tail(q))
  <2>1. CASE i = 1
    BY <1>1, <2>1
  <2>2. CASE i # 1
    <3>1. i - 1 \in 1..(Len(q) - 1) /\ (i - 1) + 1 = i
      BY <1>1, <2>2
    <3>2. Tail(q)[i - 1] = q[i]
      BY <1>1, <3>1
    <3> QED
      BY <1>1, <3>1, <3>2 DEF Range
  <2> QED
    BY <2>1, <2>2
<1>4. ASSUME NEW i \in 1..(Len(q) - 1) PROVE Tail(q)[i] \in Range(q)
  <2>1. i + 1 \in 1..Len(q) /\ Tail(q)[i] = q[i + 1]
    BY <1>1
  <2> QED
    BY <1>1, <2>1 DEF Range
<1>5. Range(q) = {Head(q)} \cup Range(Tail(q))
  BY <1>1, <1>2, <1>3, <1>4 DEF Range
<1>6. Tail(q) # <<>> <=> Len(q) - 1 # 0
  BY <1>1
<1>7. Len(q) > 1 <=> Tail(q) # <<>>
  BY <1>1, <1>6
<1> QED
  BY <1>1, <1>2, <1>5, <1>7

LEMMA AppendRange ==
  ASSUME NEW S, NEW q \in Seq(S), NEW e \in S
  PROVE  Append(q, e) \in Seq(S) /\ Range(Append(q, e)) = Range(q) \cup {e}
<1>1. /\ Append(q, e) \in Seq(S) /\ Len(Append(q, e)) = Len(q) + 1 /\ Len(q) \in Nat
      /\ \A i \in 1..Len(q) : Append(q, e)[i] = q[i]
      /\ Append(q, e)[Len(q) + 1] = e
      /\ DOMAIN q = 1..Len(q) /\ DOMAIN Append(q, e) = 1..(Len(q) + 1)
  OBVIOUS
<1> DEFINE longer == Append(q, e)
<1> HIDE DEF longer
<1>2. /\ Len(q) \in Nat /\ DOMAIN q = 1..Len(q) /\ DOMAIN longer = 1..(Len(q) + 1)
      /\ \A i \in 1..Len(q) : longer[i] = q[i]
      /\ longer[Len(q) + 1] = e
  BY <1>1 DEF longer
<1>3. 1..(Len(q) + 1) = 1..Len(q) \cup {Len(q) + 1}
  BY <1>2
<1>4. Range(longer) = Range(q) \cup {e}
  BY <1>2, <1>3 DEF Range
<1> QED
  BY <1>1, <1>4 DEF longer

(* A sync takes a step: it is enough that each pair left has another sync *)
(* that ends it, or is still to be ended by this one.                      *)
LEMMA SyncMoves ==
  ASSUME GitInv, NEW s \in Syncs, NEW row \in SyncRow,
         sync' = [sync EXCEPT ![s] = row],
         UNCHANGED history, cursor' \in Nat, broken => broken',
         document' \in [Commits -> {"absent", "ready", "deleted"}],
         \A c \in Commits : c > Len(history) => document'[c] = "absent",
         Range(row.todo) \cup Range(row.found) \subseteq 1..Len(history),
         row.pc \in {"index", "prune"} => row.todo # <<>>,
         row.pc = "index" => Range(row.todo) \subseteq Range(row.found),
         ~broken' => \A c, d \in Commits : Pair(c, d)' =>
           \/ \E t \in Syncs \ {s} : c \in Prunes(sync[t]) \/ d \in Prunes(sync[t])
           \/ c \in Prunes(row) \/ d \in Prunes(row)
  PROVE  GitInv'
<1>1. sync' \in [Syncs -> SyncRow] /\ sync'[s] = row /\ \A t \in Syncs \ {s} : sync'[t] = sync[t]
  BY DEF GitInv, GitRows
<1>2. GitRows'
  BY <1>1 DEF GitInv, GitRows, Commits
<1>3. \A t \in Syncs : WorksThrough(t)'
  BY <1>1 DEF GitInv, WorksThrough, Pc
<1>4. ASSUME ~broken' PROVE PairsEnd'
  <2>1. ASSUME NEW c \in Commits, NEW d \in Commits, Pair(c, d)'
        PROVE  \E t \in Syncs : c \in Prunes(sync'[t]) \/ d \in Prunes(sync'[t])
    BY <1>1, <1>4, <2>1
  <2> QED
    BY <2>1 DEF PairsEnd, Commits, Prunes
<1> QED
  BY <1>2, <1>3, <1>4 DEF GitInv

(* If a step makes no pair, it is enough that the sync goes on with what   *)
(* it prunes.                                                              *)
LEMMA OldPairs ==
  ASSUME GitInv, NEW s \in Syncs, NEW row,
         \A c, d \in Commits : Pair(c, d)' => Pair(c, d),
         Prunes(sync[s]) \subseteq Prunes(row), broken' = broken
  PROVE  ~broken' => \A c, d \in Commits : Pair(c, d)' =>
           \/ \E t \in Syncs \ {s} : c \in Prunes(sync[t]) \/ d \in Prunes(sync[t])
           \/ c \in Prunes(row) \/ d \in Prunes(row)
  BY DEF GitInv, PairsEnd

LEMMA SameDocuments ==
  ASSUME UNCHANGED <<history, document>>
  PROVE  \A c, d \in Commits : Pair(c, d)' => Pair(c, d)
  BY DEF Pair, Ready, FileOf

(* Documents that are taken away leave no new pair.                        *)
LEMMA FewerReady ==
  ASSUME GitInv, UNCHANGED <<history, broken>>,
         document' \in [Commits -> {"absent", "ready", "deleted"}],
         \A c \in Commits : document'[c] \in {"absent", "ready"} => document'[c] = document[c],
         \A c \in Commits : document[c] = "absent" => document'[c] = "absent"
  PROVE  /\ \A c \in Commits : c > Len(history) => document'[c] = "absent"
         /\ \A c, d \in Commits : Pair(c, d)' => Pair(c, d)
<1>1. \A c \in Commits : c > Len(history) => document'[c] = "absent"
  BY DEF GitInv, GitRows
<1>2. \A c \in Commits : Ready(c)' => Ready(c)
  BY DEF Ready
<1> QED
  BY <1>1, <1>2 DEF Pair, FileOf

LEMMA RevokedRows ==
  ASSUME GitInv, NEW f, NEW keep
  PROVE  /\ Revoked(f, keep) \in [Commits -> {"absent", "ready", "deleted"}]
         /\ \A c \in Commits : Revoked(f, keep)[c] \in {"absent", "ready"} => Revoked(f, keep)[c] = document[c]
         /\ \A c \in Commits : document[c] = "absent" => Revoked(f, keep)[c] = "absent"
         /\ \A c \in Commits : c \in Revisions(f) /\ Revoked(f, keep)[c] = "ready" => c \in keep
  BY DEF GitInv, GitRows, Revoked

(* A page is a sequence of commits that are there.                         *)
LEMMA ListedRows ==
  ASSUME Len(history) \in Nat, NEW before \in Nat
  PROVE  Listed(before) \in Seq(Nat) /\ Range(Listed(before)) \subseteq 1..Len(history)
<1> DEFINE since == IF before = 0 THEN Len(history) ELSE Len(history) - before + 1
           length == IF since < PerPage THEN since ELSE PerPage
           page == [i \in 1..length |-> Len(history) + 1 - i]
<1>1. length \in Int /\ length <= Len(history)
  BY GitAssumption
<1> HIDE DEF length
<1>2. PICK n \in Nat : 1..length = 1..n
  <2>1. CASE length \in Nat
    BY <2>1
  <2>2. CASE length \notin Nat
    <3>1. 1..length = 1..0
      BY <1>1, <2>2
    <3> QED
      BY <3>1
  <2> QED
    BY <2>1, <2>2
<1>3. \A i \in 1..length : Len(history) + 1 - i \in 1..Len(history)
  BY <1>1
<1>4. page \in [1..n -> 1..Len(history)]
  BY <1>2, <1>3
<1>a. 1..Len(history) \subseteq Nat
  OBVIOUS
<1>5. page \in Seq(1..Len(history)) /\ Range(page) \subseteq 1..Len(history)
  <2> HIDE DEF page
  <2>1. page \in Seq(1..Len(history))
    BY <1>4, SeqDef, Zenon
  <2> QED
    BY <1>4, <2>1 DEF Range
<1>6. Listed(before) = page
  BY DEF Listed, length
<1> HIDE DEF page
<1>7. page \in Seq(Nat)
  BY <1>5, <1>a, SeqMonotonic
<1> QED
  BY <1>5, <1>6, <1>7
  
LEMMA StepGit == GitInv /\ GitStep => GitInv'
<1> SUFFICES ASSUME GitInv, GitStep PROVE GitInv'
  OBVIOUS
<1>0. /\ GitRows /\ sync \in [Syncs -> SyncRow]
      /\ \A s \in Syncs : WorksThrough(s)
      /\ ~broken => PairsEnd
      /\ Len(history) \in Nat /\ Commits' = Commits
  BY DEF GitInv, GitRows, Commits
<1>1. ASSUME NEW f \in Files, NEW status \in {"modified", "removed"}, PushCommit(f, status)
      PROVE  GitInv'
  <2>1. /\ Len(history) < MaxCommits /\ history' = Append(history, [file |-> f, status |-> status])
        /\ UNCHANGED <<cursor, document, sync, broken>>
    BY <1>1 DEF PushCommit
  <2>2. /\ history' \in Seq([file : Files, status : {"modified", "removed"}])
        /\ Len(history') = Len(history) + 1
        /\ \A c \in 1..Len(history) : history'[c] = history[c]
    BY <1>0, <2>1 DEF GitRows
  <2>3. GitRows'
    <3>1. Len(history') <= MaxCommits
      BY <1>0, <2>1, <2>2, GitAssumption
    <3>2. \A c \in Commits : c > Len(history') => document'[c] = "absent"
      BY <1>0, <2>1, <2>2 DEF GitRows, Commits
    <3> QED
      BY <1>0, <2>1, <2>2, <3>1, <3>2 DEF GitRows
  <2>a. 1..Len(history) \subseteq 1..Len(history')
    BY <1>0, <2>2
  <2>4. \A s \in Syncs : WorksThrough(s)'
    BY <1>0, <2>1, <2>a DEF WorksThrough, Pc
  <2>5. \A c \in Commits : Ready(c)' => Ready(c)
    BY <1>0, <2>1, <2>2 DEF Ready, GitRows, Commits
  <2>6. ASSUME NEW c \in Commits, NEW d \in Commits, Pair(c, d)' PROVE Pair(c, d)
    <3>1. c # d /\ Ready(c) /\ Ready(d) /\ history'[c].file = history'[d].file
      BY <1>0, <2>5, <2>6 DEF Pair, FileOf
    <3>2. history'[c] = history[c] /\ history'[d] = history[d]
      BY <2>2, <3>1 DEF Ready
    <3> QED
      BY <3>1, <3>2 DEF Pair, FileOf
  <2>7. ~broken' => PairsEnd'
    BY <1>0, <2>1, <2>6 DEF PairsEnd, Prunes
  <2> QED
    BY <2>3, <2>4, <2>7 DEF GitInv
<1>2. ASSUME NEW s \in Syncs, BeginSync(s) PROVE GitInv'
  <2> DEFINE row == [Idle EXCEPT !.pc = "list", !.before = cursor]
  <2>1. /\ Pc(s) = "idle" /\ sync' = [sync EXCEPT ![s] = row]
        /\ UNCHANGED <<history, cursor, document, broken>>
    BY <1>2 DEF BeginSync
  <2>2. row \in SyncRow /\ Range(row.todo) = {} /\ Range(row.found) = {} /\ row.pc = "list"
    <3>1. Idle \in SyncRow /\ Range(Idle.todo) = {} /\ Range(Idle.found) = {}
      BY DEF Idle, SyncRow, Range
    <3>2. row \in SyncRow /\ row.todo = Idle.todo /\ row.found = Idle.found /\ row.pc = "list"
      BY <1>0, <3>1 DEF GitRows, SyncRow
    <3> QED
      BY <3>1, <3>2
  <2>3. Prunes(sync[s]) = {}
    BY <2>1 DEF Prunes, Pc
  <2> HIDE DEF row
  <2> QED
    BY <1>0, <2>1, <2>2, <2>3, SyncMoves, OldPairs, SameDocuments DEF GitRows
<1>3. ASSUME NEW s \in Syncs, ListCommits(s) PROVE GitInv'
  <2> DEFINE commits == Listed(sync[s].before)
             row == [sync[s] EXCEPT !.pc = "fetch", !.before = 0, !.todo = commits,
                       !.after = IF commits = <<>> THEN sync[s].before ELSE Head(commits)]
  <2>1. /\ Pc(s) = "list" /\ sync' = [sync EXCEPT ![s] = row]
        /\ UNCHANGED <<history, cursor, document, broken>>
    BY <1>0, <1>3 DEF ListCommits
  <2>2. commits \in Seq(Nat) /\ Range(commits) \subseteq 1..Len(history)
    <3>1. sync[s].before \in Nat
      BY <1>0 DEF SyncRow
    <3> QED
      BY <1>0, <3>1, ListedRows
  <2>3. commits # <<>> => Head(commits) \in Nat
    BY <2>2, TailRange
  <2> HIDE DEF commits
  <2>4. row \in SyncRow /\ row.todo = commits /\ row.found = sync[s].found /\ row.pc = "fetch"
    BY <1>0, <2>2, <2>3 DEF SyncRow
  <2>5. Range(row.todo) \cup Range(row.found) \subseteq 1..Len(history)
    BY <1>0, <2>2, <2>4 DEF WorksThrough
  <2>6. Prunes(sync[s]) = {}
    BY <2>1 DEF Prunes, Pc
  <2> HIDE DEF row
  <2> QED
    BY <1>0, <2>1, <2>4, <2>5, <2>6, SyncMoves, OldPairs, SameDocuments DEF GitRows
<1>4. ASSUME NEW s \in Syncs, FetchCommit(s) PROVE GitInv'
  <2>1. Pc(s) = "fetch" /\ UNCHANGED <<history, cursor, broken>> /\ sync[s] \in SyncRow
    BY <1>0, <1>4 DEF FetchCommit
  <2>2. Prunes(sync[s]) = {}
    BY <2>1 DEF Prunes, Pc
  <2>3. CASE sync[s].todo = <<>>
    <3> DEFINE row == [sync[s] EXCEPT !.pc = AfterFetch(s), !.todo = sync[s].found]
    <3>1. sync' = [sync EXCEPT ![s] = row] /\ UNCHANGED document
      BY <1>0, <1>4, <2>3 DEF FetchCommit
    <3>2. /\ row \in SyncRow /\ row.todo = sync[s].found /\ row.found = sync[s].found
          /\ row.pc = IF sync[s].found = <<>> THEN "commit" ELSE "index"
      BY <2>1 DEF AfterFetch, SyncRow
    <3>3. Range(row.todo) \cup Range(row.found) \subseteq 1..Len(history)
      BY <1>0, <3>2 DEF WorksThrough
    <3> HIDE DEF row
    <3> QED
      BY <1>0, <2>1, <2>2, <3>1, <3>2, <3>3, SyncMoves, OldPairs, SameDocuments DEF GitRows
  <2>4. CASE sync[s].todo # <<>>
    <3> DEFINE c == Head(sync[s].todo)
               rest == [sync[s] EXCEPT !.todo = Tail(sync[s].todo)]
    <3>1. /\ c \in Nat /\ c \in Range(sync[s].todo) /\ Tail(sync[s].todo) \in Seq(Nat)
          /\ Range(Tail(sync[s].todo)) \subseteq Range(sync[s].todo)
      BY <2>1, <2>4, TailRange DEF SyncRow
    <3>2. /\ rest \in SyncRow /\ rest.pc = "fetch"
          /\ Range(rest.todo) \cup Range(rest.found) \subseteq 1..Len(history)
          /\ c \in 1..Len(history)
      BY <1>0, <2>1, <3>1 DEF SyncRow, Pc, WorksThrough
    <3>3. CASE history[c].status = "removed"
      <4>1. sync' = [sync EXCEPT ![s] = rest] /\ document' = Revoked(FileOf(c), {})
        BY <1>0, <1>4, <2>4, <3>3 DEF FetchCommit
      <4> HIDE DEF rest, c
      <4>2. /\ document' \in [Commits -> {"absent", "ready", "deleted"}]
            /\ \A d \in Commits : d > Len(history) => document'[d] = "absent"
            /\ \A d, e \in Commits : Pair(d, e)' => Pair(d, e)
        BY <2>1, <4>1, RevokedRows, FewerReady
      <4> QED
        BY <1>0, <2>1, <2>2, <3>2, <4>1, <4>2, SyncMoves, OldPairs DEF GitRows
    <3>4. CASE history[c].status # "removed"
      <4> DEFINE more == [rest EXCEPT !.found = Append(sync[s].found, c)]
      <4>1. UNCHANGED document
        BY <1>4, <2>4, <3>4 DEF FetchCommit
      <4>2. CASE sync' = [sync EXCEPT ![s] = rest]
        <5> HIDE DEF rest, c
        <5> QED
          BY <1>0, <2>1, <2>2, <3>2, <4>1, <4>2, SyncMoves, OldPairs, SameDocuments DEF GitRows
      <4>3. CASE sync' = [sync EXCEPT ![s] = more]
        <5>1. /\ Append(sync[s].found, c) \in Seq(Nat)
              /\ Range(Append(sync[s].found, c)) = Range(sync[s].found) \cup {c}
          BY <2>1, <3>1, AppendRange DEF SyncRow
        <5>2. /\ more \in SyncRow /\ more.pc = "fetch"
              /\ more.todo = rest.todo /\ more.found = Append(sync[s].found, c)
          BY <3>2, <5>1 DEF SyncRow
        <5>3. Range(sync[s].found) \subseteq 1..Len(history)
          BY <1>0 DEF WorksThrough
        <5> HIDE DEF more, rest, c
        <5>4. Range(more.todo) \cup Range(more.found) \subseteq 1..Len(history)
          BY <3>2, <5>1, <5>2, <5>3
        <5> QED
          BY <1>0, <2>1, <2>2, <4>1, <4>3, <5>2, <5>4, SyncMoves, OldPairs, SameDocuments DEF GitRows
      <4>4. sync' = [sync EXCEPT ![s] = rest] \/ sync' = [sync EXCEPT ![s] = more]
        BY <1>0, <1>4, <2>4, <3>4 DEF FetchCommit
      <4> QED
        BY <4>2, <4>3, <4>4
    <3> QED
      BY <3>3, <3>4
  <2> QED
    BY <2>3, <2>4
<1>5. ASSUME NEW s \in Syncs, IndexRevision(s) PROVE GitInv'
  <2> DEFINE c == Head(sync[s].todo)
             row == IF Len(sync[s].todo) > 1 THEN [sync[s] EXCEPT !.todo = Tail(sync[s].todo)]
                    ELSE [sync[s] EXCEPT !.pc = "prune", !.todo = sync[s].found]
  <2>1. /\ Pc(s) = "index" /\ sync' = [sync EXCEPT ![s] = row]
        /\ UNCHANGED <<history, cursor, broken>> /\ sync[s] \in SyncRow
        /\ document' = IF document[c] = "absent" THEN [document EXCEPT ![c] = "ready"] ELSE document
    <3>1. Pc(s) = "index" /\ UNCHANGED <<history, cursor, broken>> /\ sync[s] \in SyncRow
      BY <1>0, <1>5 DEF IndexRevision
    <3>2. document' = IF document[c] = "absent" THEN [document EXCEPT ![c] = "ready"] ELSE document
      BY <1>5 DEF IndexRevision
    <3>3. Work(s, "prune")
      BY <1>5 DEF IndexRevision
    <3>4. sync' = [sync EXCEPT ![s] = row]
      <4>1. CASE Len(sync[s].todo) > 1
        <5>1. sync' = [sync EXCEPT ![s] = [sync[s] EXCEPT !.todo = Tail(sync[s].todo)]]
          BY <1>0, <3>3, <4>1 DEF Work
        <5> QED
          BY <4>1, <5>1
      <4>2. CASE ~(Len(sync[s].todo) > 1)
        <5>1. sync' = [sync EXCEPT ![s] = [sync[s] EXCEPT !.pc = "prune", !.todo = sync[s].found]]
          BY <1>0, <3>3, <4>2 DEF Work
        <5> QED
          BY <4>2, <5>1
      <4> QED
        BY <4>1, <4>2
    <3> QED
      BY <3>1, <3>2, <3>4
  <2>2. /\ sync[s].todo # <<>> /\ Range(sync[s].todo) \subseteq Range(sync[s].found)
        /\ Range(sync[s].found) \subseteq 1..Len(history)
    BY <1>0, <2>1 DEF WorksThrough
  <2>3. /\ c \in Range(sync[s].todo) /\ Tail(sync[s].todo) \in Seq(Nat)
        /\ Range(Tail(sync[s].todo)) \subseteq Range(sync[s].todo)
        /\ Len(sync[s].todo) > 1 => Tail(sync[s].todo) # <<>>
    BY <2>1, <2>2, TailRange DEF SyncRow
  <2>4. sync[s].found # <<>>
    <3>1. Range(<<>>) = {}
      BY DEF Range
    <3> QED
      BY <2>2, <2>3, <3>1
  <2>5. /\ row \in SyncRow /\ row.todo # <<>> /\ row.found = sync[s].found
        /\ Range(row.todo) \subseteq Range(row.found)
        /\ row.pc # "index" => row.pc = "prune" /\ row.todo = sync[s].found
    BY <2>1, <2>2, <2>3, <2>4 DEF SyncRow, Pc
  <2> HIDE DEF row
  <2>6. Prunes(row) = Range(sync[s].found) /\ Prunes(sync[s]) = Range(sync[s].found)
    BY <2>1, <2>5 DEF Prunes, Pc
  <2>7. /\ c \in Commits /\ c \in Range(sync[s].found) /\ ~(c > Len(history))
        /\ \A d \in Commits : d > Len(history) => document[d] = "absent"
    BY <1>0, <2>2, <2>3, GitAssumption DEF GitRows, Commits
  <2> HIDE DEF c
  <2>8. /\ document' \in [Commits -> {"absent", "ready", "deleted"}]
        /\ \A d \in Commits \ {c} : document'[d] = document[d]
    BY <1>0, <2>1 DEF GitRows
  <2>9. \A d \in Commits : d > Len(history) => document'[d] = "absent"
    BY <2>7, <2>8
  <2>10. ASSUME NEW d \in Commits, NEW e \in Commits, Pair(d, e)', ~broken'
         PROVE  \/ \E t \in Syncs \ {s} : d \in Prunes(sync[t]) \/ e \in Prunes(sync[t])
                \/ d \in Prunes(row) \/ e \in Prunes(row)
    <3>1. CASE d = c \/ e = c
      BY <2>6, <2>7, <3>1
    <3>2. CASE d # c /\ e # c
      <4>1. Pair(d, e)
        BY <2>1, <2>8, <2>10, <3>2 DEF Pair, Ready, FileOf
      <4> QED
        BY <1>0, <2>1, <2>6, <2>10, <4>1 DEF PairsEnd
    <3> QED
      BY <3>1, <3>2
  <2> QED
    BY <1>0, <2>1, <2>2, <2>5, <2>8, <2>9, <2>10, SyncMoves DEF GitRows
<1>6. ASSUME NEW s \in Syncs, PruneOthers(s) PROVE GitInv'
  <2> DEFINE c == Head(sync[s].todo)
             row == IF Len(sync[s].todo) > 1 THEN [sync[s] EXCEPT !.todo = Tail(sync[s].todo)]
                    ELSE [sync[s] EXCEPT !.pc = "commit", !.todo = sync[s].found]
  <2>1. /\ Pc(s) = "prune" /\ sync' = [sync EXCEPT ![s] = row]
        /\ UNCHANGED <<history, cursor, broken>> /\ sync[s] \in SyncRow
        /\ document' = Revoked(FileOf(c), {c})
    <3>1. Pc(s) = "prune" /\ UNCHANGED <<history, cursor, broken>> /\ sync[s] \in SyncRow
      BY <1>0, <1>6 DEF PruneOthers
    <3>2. document' = Revoked(FileOf(c), {c})
      BY <1>6 DEF PruneOthers
    <3>3. Work(s, "commit")
      BY <1>6 DEF PruneOthers
    <3>4. sync' = [sync EXCEPT ![s] = row]
      <4>1. CASE Len(sync[s].todo) > 1
        <5>1. sync' = [sync EXCEPT ![s] = [sync[s] EXCEPT !.todo = Tail(sync[s].todo)]]
          BY <1>0, <3>3, <4>1 DEF Work
        <5> QED
          BY <4>1, <5>1
      <4>2. CASE ~(Len(sync[s].todo) > 1)
        <5>1. sync' = [sync EXCEPT ![s] = [sync[s] EXCEPT !.pc = "commit", !.todo = sync[s].found]]
          BY <1>0, <3>3, <4>2 DEF Work
        <5> QED
          BY <4>2, <5>1
      <4> QED
        BY <4>1, <4>2
    <3> QED
      BY <3>1, <3>2, <3>4
  <2>2. /\ sync[s].todo # <<>>
        /\ Range(sync[s].todo) \cup Range(sync[s].found) \subseteq 1..Len(history)
    BY <1>0, <2>1 DEF WorksThrough
  <2>3. /\ Tail(sync[s].todo) \in Seq(Nat)
        /\ Range(sync[s].todo) = {c} \cup Range(Tail(sync[s].todo))
        /\ Len(sync[s].todo) > 1 <=> Tail(sync[s].todo) # <<>>
    BY <2>1, <2>2, TailRange DEF SyncRow
  <2>4. /\ row \in SyncRow /\ row.pc # "index" /\ (row.pc = "prune" => row.todo # <<>>)
        /\ Range(row.todo) \cup Range(row.found) \subseteq 1..Len(history)
        /\ Len(sync[s].todo) > 1 => row.pc = "prune" /\ row.todo = Tail(sync[s].todo)
    <3>1. CASE Len(sync[s].todo) > 1
      BY <2>1, <2>2, <2>3, <3>1 DEF SyncRow, Pc
    <3>2. CASE ~(Len(sync[s].todo) > 1)
      BY <2>1, <2>2, <2>3, <3>2 DEF SyncRow, Pc
    <3> QED
      BY <3>1, <3>2
  <2> HIDE DEF row
  <2>5. Prunes(sync[s]) \subseteq {c} \cup Prunes(row)
    <3>1. Prunes(sync[s]) = {c} \cup Range(Tail(sync[s].todo))
      BY <2>1, <2>3 DEF Prunes, Pc
    <3>2. Tail(sync[s].todo) = <<>> => Range(Tail(sync[s].todo)) = {}
      BY DEF Range
    <3>3. Tail(sync[s].todo) # <<>> => Prunes(row) = Range(Tail(sync[s].todo))
      BY <2>3, <2>4 DEF Prunes
    <3> QED
      BY <3>1, <3>2, <3>3
  <2> HIDE DEF c
  <2>6. /\ document' \in [Commits -> {"absent", "ready", "deleted"}]
        /\ \A d \in Commits : d > Len(history) => document'[d] = "absent"
        /\ \A d, e \in Commits : Pair(d, e)' => Pair(d, e)
    BY <2>1, RevokedRows, FewerReady
  <2>7. ASSUME NEW d \in Commits, NEW e \in Commits, Pair(d, e)' PROVE FileOf(d) # FileOf(c)
    <3>1. SUFFICES ASSUME FileOf(d) = FileOf(c) PROVE FALSE
      OBVIOUS
    <3>2. Pair(d, e)
      BY <2>6, <2>7
    <3>3. d # e /\ d \in Revisions(FileOf(c)) /\ e \in Revisions(FileOf(c))
      BY <3>1, <3>2 DEF Pair, Ready, Revisions
    <3>4. document'[d] = "ready" /\ document'[e] = "ready"
      BY <2>7 DEF Pair, Ready
    <3>5. d \in {c} /\ e \in {c}
      BY <2>1, <3>3, <3>4, RevokedRows
    <3> QED
      BY <3>3, <3>5
  <2>8. ASSUME NEW d \in Commits, NEW e \in Commits, Pair(d, e)', ~broken'
        PROVE  \/ \E t \in Syncs \ {s} : d \in Prunes(sync[t]) \/ e \in Prunes(sync[t])
               \/ d \in Prunes(row) \/ e \in Prunes(row)
    <3>1. Pair(d, e) /\ FileOf(d) # FileOf(c) /\ FileOf(e) # FileOf(c)
      BY <2>6, <2>7, <2>8 DEF Pair
    <3>2. PICK t \in Syncs : d \in Prunes(sync[t]) \/ e \in Prunes(sync[t])
      BY <1>0, <2>1, <2>8, <3>1 DEF PairsEnd
    <3> QED
      BY <2>5, <3>1, <3>2
  <2> QED
    BY <1>0, <2>1, <2>4, <2>6, <2>8, SyncMoves DEF GitRows
<1>7. ASSUME NEW s \in Syncs, SaveCursor(s) PROVE GitInv'
  <2>1. /\ Pc(s) = "commit" /\ sync' = [sync EXCEPT ![s] = Idle]
        /\ cursor' = sync[s].after /\ UNCHANGED <<history, document, broken>>
    BY <1>7 DEF SaveCursor
  <2>2. Idle \in SyncRow /\ Range(Idle.todo) = {} /\ Range(Idle.found) = {} /\ Idle.pc = "idle"
    BY DEF Idle, SyncRow, Range
  <2>3. Prunes(sync[s]) = {} /\ cursor' \in Nat
    BY <1>0, <2>1 DEF Prunes, Pc, SyncRow
  <2> QED
    BY <1>0, <2>1, <2>2, <2>3, SyncMoves, OldPairs, SameDocuments DEF GitRows
<1>8. ASSUME NEW s \in Syncs, FailSync(s) PROVE GitInv'
  <2>1. /\ sync' = [sync EXCEPT ![s] = Idle] /\ broken' = TRUE
        /\ UNCHANGED <<history, cursor, document>>
    BY <1>8 DEF FailSync
  <2>2. Idle \in SyncRow /\ Range(Idle.todo) = {} /\ Range(Idle.found) = {} /\ Idle.pc = "idle"
    BY DEF Idle, SyncRow, Range
  <2> QED
    BY <1>0, <2>1, <2>2, SyncMoves DEF GitRows
<1>9. ASSUME NEW c \in Commits, RevokeGitSource(c) PROVE GitInv'
  <2>1. /\ document[c] = "ready" /\ document' = [document EXCEPT ![c] = "deleted"]
        /\ UNCHANGED <<history, cursor, sync, broken>>
    BY <1>9 DEF RevokeGitSource
  <2>2. /\ document' \in [Commits -> {"absent", "ready", "deleted"}]
        /\ \A d \in Commits : d > Len(history) => document'[d] = "absent"
        /\ \A d, e \in Commits : Pair(d, e)' => Pair(d, e)
    BY <1>0, <2>1, FewerReady DEF GitRows
  <2>3. GitRows'
    BY <1>0, <2>1, <2>2 DEF GitRows
  <2>4. \A s \in Syncs : WorksThrough(s)'
    BY <1>0, <2>1 DEF WorksThrough, Pc
  <2>5. ~broken' => PairsEnd'
    BY <1>0, <2>1, <2>2 DEF PairsEnd
  <2> QED
    BY <2>3, <2>4, <2>5 DEF GitInv
<1> QED
  BY <1>1, <1>2, <1>3, <1>4, <1>5, <1>6, <1>7, <1>8, <1>9 DEF GitStep, SyncStep

LEMMA GitLeftAlone == GitInv /\ UNCHANGED gitVars => GitInv'
  BY DEF GitInv, GitRows, WorksThrough, PairsEnd, Pair, Ready, FileOf, Commits, Pc, gitVars

(* When no sync is on its way there is no pair.                            *)
LEMMA GitSettled == GitInv => OneRevisionPerFile
<1> SUFFICES ASSUME GitInv, ~broken, \A s \in Syncs : Pc(s) = "idle", NEW f \in Files
             PROVE  Cardinality({c \in Revisions(f) : document[c] = "ready"}) <= 1
  BY DEF OneRevisionPerFile
<1> DEFINE R == {c \in Revisions(f) : document[c] = "ready"}
<1>1. \A s \in Syncs : Prunes(sync[s]) = {}
  BY DEF Prunes, Pc
<1>2. \A c, d \in Commits : ~Pair(c, d)
  BY <1>1 DEF GitInv, PairsEnd
<1>3. Revisions(f) \subseteq Commits
  BY GitAssumption DEF Revisions, Commits, GitInv, GitRows
<1>4. \A c, d \in R : c = d
  BY <1>2, <1>3 DEF Pair, Ready, Revisions
<1>5. R = {} \/ \E c : R = {c}
  BY <1>4
<1> HIDE DEF R
<1>6. CASE R = {}
  BY <1>6, FS_EmptySet DEF R
<1>7. ASSUME NEW c, R = {c} PROVE Cardinality(R) <= 1
  <2>1. Cardinality({c}) = 1
    BY FS_Singleton
  <2> QED
    BY <1>7, <2>1
<1> QED
  BY <1>5, <1>6, <1>7 DEF R

(* Once no sync is on its way and none has failed, a file has one ready    *)
(* revision at most, for any number of syncs, files and commits: what the  *)
(* pruning of one sync leaves is never joined by what another one stored.  *)
THEOREM OneRevisionReady == Spec => []OneRevisionPerFile
<1>1. Init => GitInv
  BY InitGit DEF Init
<1>2. GitInv /\ [Next]_serviceVars => GitInv'
  BY StepGit, GitLeftAlone
  DEF Next, serviceVars, DuringAttempt, DuringTrain, DuringServe, DuringGit, DuringLearn
<1> QED
  BY <1>1, <1>2, GitSettled, PTL DEF Spec
---------------------------------------------------------------------------
(* Learning from evaluations. A script writes what an object names before  *)
(* the object, so what is in the bucket is closed; and a training set says *)
(* what its compiler saw of the suite, the report and the reviews.         *)

Labelled(m) == UNION {About(e).labels : e \in About(m).sources}

Permits(m) ==
  /\ Balanced(Labelled(m))
  /\ Labelled(m) \subseteq permitted
  /\ \A l \in Labelled(m) :
       /\ suite[About(l).task].split # "evaluation_holdout"
       /\ About(About(m).report)[2][About(l).task, "base"] = "failed"

IsManifest(o) == Kind(o) = "compile_manifest"
IsLabel(o) == Kind(o) = "label" /\ About(o).task \in Tasks

(* Everything that the trials of a campaign read is there.                 *)
Prepared == \A t \in Tasks : TaskBundle(t) \in objects /\ Receipt(t, TRUE) \in objects

Fields == {"todo", "pc", "about", "seen"}
IsSequence(q) == q \in Seq(Range(q))

LearningRows ==
  /\ suite \in Suites
  /\ trial \in [Campaigns -> [Tasks \X Arms -> {"queued", "succeeded", "failed", "invalidated"}]]
  /\ DOMAIN author = Authors
  /\ \A p \in Authors : DOMAIN author[p] = Fields /\ IsSequence(author[p].todo)

(* What the bucket, the rows and the reviews stand on.                     *)
Foundations ==
  /\ ReferencesClosed
  /\ \A o \in objects : IsManifest(o) => Permits(o)
  /\ printed \subseteq objects
  /\ \A c \in Campaigns, x \in Tasks \X Arms : trial[c][x] # "queued" =>
       Prepared /\ Transcript(c, x[1], x[2], trial[c][x]) \in objects
  /\ \A l \in DOMAIN reviews :
       l \in objects /\ IsLabel(l) /\ (reviews[l] = "approved" => l \in permitted)

(* Each object that a script is to write names only what is there by then. *)
InOrder(todo) ==
  \A i \in DOMAIN todo :
    \A o \in Refs(todo[i]) : o \in objects \/ \E j \in 1..(i - 1) : todo[j] = o

(* What is there when a script has written what it is at.                  *)
Written(p) == objects \cup Range(author[p].todo)

Judged(p) == Prepared /\ JudgeCall("a") \in Written(p) /\ JudgeCall("b") \in Written(p)

Measures(p) == author[p].pc \in {"measure", "finish"}

WritesWell(p) ==
  /\ InOrder(author[p].todo)
  /\ \A o \in Range(author[p].todo) : IsManifest(o) => Permits(o)

Publishes(p) ==
  /\ author[p].pc = "bundles" => \A t \in Tasks \ author[p].about : TaskBundle(t) \in Written(p)
  /\ author[p].pc = "receipts" => \A t \in Tasks : TaskBundle(t) \in Written(p)

MeasuresWell(p) ==
  /\ Measures(p) =>
       /\ Prepared
       /\ \E c \in Campaigns : author[p].about = {c}
       /\ author[p].seen \in [Tasks \X Arms -> {"succeeded", "failed", "invalidated"}]
  /\ author[p].pc = "finish" =>
       \A c \in author[p].about :
         /\ Queued(c) # {}
         /\ Transcript(c, UpNext(c)[1], UpNext(c)[2], author[p].seen[UpNext(c)]) \in Written(p)

LabelsWell(p) ==
  /\ author[p].pc \in {"judge", "annotate", "approve"} =>
       author[p].about # {} /\ \A l \in author[p].about : IsLabel(l)
  /\ author[p].pc = "judge" => Judged(p)
  /\ author[p].pc \in {"annotate", "approve"} => Judged(p) \/ \E l : author[p].about = {l}
  /\ author[p].pc = "annotate" => Current(p) \in Written(p)

CompilesWell(p) ==
  /\ author[p].pc \in {"read", "authorize"} =>
       /\ author[p].about \subseteq objects
       /\ \E r \in author[p].about : Kind(r) = "gap_report"
       /\ LabelsOf(p) \subseteq DOMAIN reviews
       /\ \A s \in author[p].seen :
            s[1] \in DOMAIN reviews /\ (s[2] = "approved" => s[1] \in permitted)
  /\ author[p].pc = "authorize" =>
       \A l \in LabelsOf(p) : l \in permitted \/ \E s \in author[p].seen : s[1] = l
  /\ author[p].pc \in {"snapshot", "compiled", "decided"} => author[p].about \subseteq Written(p)

ScriptInv(p) ==
  WritesWell(p) /\ Publishes(p) /\ MeasuresWell(p) /\ LabelsWell(p) /\ CompilesWell(p)

LearningInv ==
  /\ LearningRows
  /\ Foundations
  /\ \A p \in Authors : ScriptInv(p)
  /\ \A p, q \in Authors : Measures(p) /\ Measures(q) /\ author[p].about = author[q].about => p = q

---------------------------------------------------------------------------
(* What objects name.                                                      *)
LEMMA LeafRefs ==
  /\ Refs(Environment) = {}
  /\ \A t : Refs(Input(t)) = {} /\ Refs(Criteria(t)) = {}
  /\ \A t, ready : Refs(Preflight(t, ready)) = {}
  /\ \A pass : Refs(JudgeCall(pass)) = {}
  /\ \A sources : Refs(Dataset(sources)) = {}
  BY DEF Refs, Kind, About, Object, Environment, Input, Criteria, Preflight, JudgeCall, Dataset

LEMMA BundleRefs ==
  \A t : Refs(TaskBundle(t)) = {Input(t), Environment, Criteria(t)}
  BY DEF Refs, Kind, About, Object, TaskBundle

LEMMA ReceiptRefs ==
  \A t, ready : Refs(Receipt(t, ready)) = {Preflight(t, ready)}
  BY DEF Refs, Kind, About, Object, Receipt

LEMMA TranscriptRefs ==
  \A c, t, g, state : Refs(Transcript(c, t, g, state)) = {Receipt(t, TRUE)}
  BY DEF Refs, Kind, About, Object, Transcript

LEMMA GapReportRefs ==
  \A c, states : Refs(GapReport(c, states)) =
    {Transcript(c, x[1], x[2], states[x]) : x \in Tasks \X Arms}
  BY DEF Refs, Kind, About, Object, GapReport

LEMMA EventRefs ==
  \A t, g : /\ Refs(Event(t, g, "context_built")) = {Receipt(t, TRUE)}
            /\ Refs(Event(t, g, "verifier_result")) = {}
  BY DEF Refs, Kind, About, Object, Event

LEMMA ExperienceRefs ==
  \A t, g, labels : Refs(Experience(t, g, labels)) =
    {TaskBundle(t), Receipt(t, TRUE), Event(t, g, "context_built"), Event(t, g, "verifier_result")}
<1> TAKE t, g, labels
<1> DEFINE o == Experience(t, g, labels)
<1>1. Kind(o) = "experience" /\ About(o) = [task |-> t, arm |-> g, labels |-> labels]
  BY DEF Kind, About, Object, Experience
<1> HIDE DEF o
<1>2. Refs(o) = {TaskBundle(About(o).task), Receipt(About(o).task, TRUE)}
                  \cup Events(About(o).task, About(o).arm)
  BY <1>1 DEF Refs
<1>3. About(o).task = t /\ About(o).arm = g
  BY <1>1
<1>4. Refs(o) = {TaskBundle(t), Receipt(t, TRUE)} \cup Events(t, g)
  BY <1>2, <1>3
<1> QED
  BY <1>4 DEF o, Events

LEMMA LabelRefs ==
  \A l : IsLabel(l) =>
    /\ Experience(About(l).task, About(l).arm, {}) \in Refs(l)
    /\ \A o \in Refs(l) :
         \/ o = Experience(About(l).task, About(l).arm, {})
         \/ o \in {JudgeCall("a"), JudgeCall("b")} /\ About(l).by = "judge"
  BY DEF IsLabel, Refs

LEMMA CompileRefs ==
  \A report, sources :
    /\ Refs(CompileManifest(report, sources)) = {report, Dataset(sources)} \cup sources
    /\ Refs(CompileDecision(report, sources)) = {report} \cup sources
  BY DEF Refs, Kind, About, Object, CompileManifest, CompileDecision

LEMMA DecisionRefs ==
  /\ \A source, report, decision :
       Refs(MigrationReport(source, report, decision)) = {source, report}
  /\ \A o : Refs(DpoGate(o)) = {o} /\ Refs(RlGate(o)) = {o}
  BY DEF Refs, Kind, About, Object, MigrationReport, DpoGate, RlGate

(* Only a compilation makes a manifest.                                    *)
LEMMA NoManifests ==
  /\ ~IsManifest(Environment)
  /\ \A t : ~IsManifest(Input(t)) /\ ~IsManifest(Criteria(t)) /\ ~IsManifest(TaskBundle(t))
  /\ \A t, ready : ~IsManifest(Preflight(t, ready)) /\ ~IsManifest(Receipt(t, ready))
  /\ \A c, t, g, state : ~IsManifest(Transcript(c, t, g, state))
  /\ \A c, states : ~IsManifest(GapReport(c, states))
  /\ \A t, g, step : ~IsManifest(Event(t, g, step))
  /\ \A t, g, labels : ~IsManifest(Experience(t, g, labels))
  /\ \A pass : ~IsManifest(JudgeCall(pass))
  /\ \A l : IsLabel(l) => ~IsManifest(l)
  /\ \A sources : ~IsManifest(Dataset(sources))
  /\ \A report, sources : ~IsManifest(CompileDecision(report, sources))
  /\ \A source, report, decision : ~IsManifest(MigrationReport(source, report, decision))
  /\ \A o : ~IsManifest(DpoGate(o)) /\ ~IsManifest(RlGate(o))
  BY DEF IsManifest, IsLabel, Kind, Object, Environment, Input, Criteria, TaskBundle, Preflight,
         Receipt, Transcript, GapReport, Event, Experience, JudgeCall, Dataset, CompileDecision,
         MigrationReport, DpoGate, RlGate

LEMMA LabelIsLabel ==
  ASSUME NEW t \in Tasks, NEW g, NEW given, NEW by
  PROVE  /\ IsLabel(Label(t, g, given, by)) /\ ~IsManifest(Label(t, g, given, by))
         /\ About(Label(t, g, given, by)).task = t /\ About(Label(t, g, given, by)).arm = g
         /\ About(Label(t, g, given, by)).by = by
<1>1. /\ Kind(Label(t, g, given, by)) = "label"
      /\ About(Label(t, g, given, by)) = [task |-> t, arm |-> g, split |-> given[t].split,
                                          group |-> given[t].document, by |-> by]
  BY DEF Kind, About, Object, Label
<1> QED
  BY <1>1 DEF IsLabel, IsManifest

(* Writing the head of a list leaves its tail.                             *)
LEMMA TailWrites ==
  ASSUME NEW q, IsSequence(q), q # <<>>
  PROVE  /\ IsSequence(Tail(q)) /\ Range(q) = {Head(q)} \cup Range(Tail(q))
         /\ 1 \in DOMAIN q /\ q[1] = Head(q)
         /\ \A i \in DOMAIN Tail(q) : i \in Nat \ {0} /\ i + 1 \in DOMAIN q /\ Tail(q)[i] = q[i + 1]
<1>1. /\ q \in Seq(Range(q)) /\ Tail(q) \in Seq(Range(q))
      /\ Range(q) = {Head(q)} \cup Range(Tail(q))
  BY TailRange DEF IsSequence
<1>2. /\ DOMAIN Tail(q) = 1..(Len(q) - 1) /\ Len(q) \in Nat /\ Len(q) > 0 /\ DOMAIN q = 1..Len(q)
      /\ \A i \in 1..(Len(q) - 1) : Tail(q)[i] = q[i + 1]
      /\ Head(q) = q[1]
  BY <1>1
<1>3. \A i \in DOMAIN Tail(q) : Tail(q)[i] \in Range(Tail(q))
  BY DEF Range
<1>4. IsSequence(Tail(q))
  <2> DEFINE rest == Tail(q)
             n == Len(q) - 1
  <2>1. rest \in Seq(Range(q)) /\ DOMAIN rest = 1..n /\ n \in Nat
    BY <1>1, <1>2
  <2> HIDE DEF rest, n
  <2>2. rest \in [1..n -> Range(rest)]
    BY <2>1, LenProperties DEF Range
  <2>3. rest \in Seq(Range(rest))
    BY <2>1, <2>2, SeqDef, Zenon
  <2> QED
    BY <2>3 DEF IsSequence, rest
<1> QED
  BY <1>1, <1>2, <1>4

LEMMA ShortLists ==
  /\ IsSequence(<<>>) /\ Range(<<>>) = {}
  /\ \A a : IsSequence(<<a>>) /\ Range(<<a>>) = {a}
  /\ \A a, b : IsSequence(<<a, b>>) /\ Range(<<a, b>>) = {a, b}
  /\ \A a, b, c : IsSequence(<<a, b, c>>) /\ Range(<<a, b, c>>) = {a, b, c}
  /\ \A a, b, c, d : IsSequence(<<a, b, c, d>>) /\ Range(<<a, b, c, d>>) = {a, b, c, d}
<1>1. Range(<<>>) = {}
  BY DEF Range
<1>2. \A a : Range(<<a>>) = {a}
  BY DEF Range
<1>3. \A a, b : Range(<<a, b>>) = {a, b}
  BY DEF Range
<1>4. \A a, b, c : Range(<<a, b, c>>) = {a, b, c}
  BY DEF Range
<1>5. \A a, b, c, d : Range(<<a, b, c, d>>) = {a, b, c, d}
  BY DEF Range
<1> QED
  BY <1>1, <1>2, <1>3, <1>4, <1>5 DEF IsSequence

(* A short list is in order when each object names what is there or stands *)
(* before it.                                                              *)
LEMMA ListsInOrder ==
  /\ InOrder(<<>>)
  /\ \A a : Refs(a) \subseteq objects => InOrder(<<a>>)
  /\ \A a, b : Refs(a) \subseteq objects /\ Refs(b) \subseteq objects \cup {a} => InOrder(<<a, b>>)
  /\ \A a, b, c : /\ Refs(a) \subseteq objects /\ Refs(b) \subseteq objects \cup {a}
                  /\ Refs(c) \subseteq objects \cup {a, b}
                  => InOrder(<<a, b, c>>)
  /\ \A a, b, c, d : /\ Refs(a) \subseteq objects /\ Refs(b) \subseteq objects \cup {a}
                     /\ Refs(c) \subseteq objects \cup {a, b}
                     /\ Refs(d) \subseteq objects \cup {a, b, c}
                     => InOrder(<<a, b, c, d>>)
<1>1. InOrder(<<>>)
  BY DEF InOrder
<1>2. ASSUME NEW a, Refs(a) \subseteq objects PROVE InOrder(<<a>>)
  BY <1>2 DEF InOrder
<1>3. ASSUME NEW a, NEW b, Refs(a) \subseteq objects, Refs(b) \subseteq objects \cup {a}
      PROVE  InOrder(<<a, b>>)
  <2>1. \A o \in Refs(b) : o \in objects \/ o = a
    BY <1>3
  <2> QED
    BY <1>3, <2>1 DEF InOrder
<1>4. ASSUME NEW a, NEW b, NEW c, Refs(a) \subseteq objects, Refs(b) \subseteq objects \cup {a},
             Refs(c) \subseteq objects \cup {a, b}
      PROVE  InOrder(<<a, b, c>>)
  <2>1. /\ \A o \in Refs(b) : o \in objects \/ o = a
        /\ \A o \in Refs(c) : o \in objects \/ o = a \/ o = b
    BY <1>4
  <2> QED
    BY <1>4, <2>1 DEF InOrder
<1>5. ASSUME NEW a, NEW b, NEW c, NEW d, Refs(a) \subseteq objects,
             Refs(b) \subseteq objects \cup {a}, Refs(c) \subseteq objects \cup {a, b},
             Refs(d) \subseteq objects \cup {a, b, c}
      PROVE  InOrder(<<a, b, c, d>>)
  <2>1. /\ \A o \in Refs(b) : o \in objects \/ o = a
        /\ \A o \in Refs(c) : o \in objects \/ o = a \/ o = b
        /\ \A o \in Refs(d) : o \in objects \/ o = a \/ o = b \/ o = c
    BY <1>5
  <2> QED
    BY <1>5, <2>1 DEF InOrder
<1> QED
  BY <1>1, <1>2, <1>3, <1>4, <1>5

(* What the row of a script becomes while the others stay.                 *)
Turns(p, todo, pc, about, seen) ==
  /\ \A q \in Authors \ {p} : author'[q] = author[q]
  /\ DOMAIN author' = Authors /\ DOMAIN author'[p] = Fields
  /\ author'[p].todo = todo /\ author'[p].pc = pc
  /\ author'[p].about = about /\ author'[p].seen = seen

LEMMA BecomesTurns ==
  ASSUME LearningRows, NEW p \in Authors, NEW todo, NEW pc, NEW about, Becomes(p, todo, pc, about)
  PROVE  Turns(p, todo, pc, about, {})
  BY DEF LearningRows, Becomes, Turns, Fields

LEMMA DoneTurns ==
  ASSUME LearningRows, NEW p \in Authors, Done(p)
  PROVE  Turns(p, <<>>, "free", {}, {})
  BY DEF LearningRows, Done, Free, Turns, Fields

(* A review that is added or overridden takes no permission back.          *)
LEMMA PermitsStays ==
  ASSUME suite' = suite, permitted \subseteq permitted', NEW m, Permits(m)
  PROVE  Permits(m)'
  BY DEF Permits, Labelled, Balanced

(* A script keeps what it has while others take their steps.               *)
LEMMA OthersStand ==
  ASSUME LearningInv, NEW q \in Authors, author'[q] = author[q], suite' = suite,
         objects \subseteq objects', permitted \subseteq permitted',
         DOMAIN reviews \subseteq DOMAIN reviews',
         Measures(q) => \A c \in author[q].about : trial'[c] = trial[c]
  PROVE  ScriptInv(q)' /\ Measures(q)' = Measures(q)
<1>0. ScriptInv(q)
  BY DEF LearningInv
<1>1. Written(q) \subseteq Written(q)' /\ (Prepared => Prepared')
  BY DEF Written, Prepared
<1>2. Judged(q) => Judged(q)'
  BY <1>1 DEF Judged
<1>3. WritesWell(q)'
  BY <1>0, PermitsStays DEF ScriptInv, WritesWell, InOrder
<1>4. Publishes(q)'
  BY <1>0, <1>1 DEF ScriptInv, Publishes
<1>5. MeasuresWell(q)'
  <2>1. Measures(q) => \A c \in author[q].about : Queued(c)' = Queued(c) /\ UpNext(c)' = UpNext(c)
    BY DEF Queued, UpNext
  <2> QED
    BY <1>0, <1>1, <2>1 DEF ScriptInv, MeasuresWell, Measures
<1>6. LabelsWell(q)'
  BY <1>0, <1>1, <1>2 DEF ScriptInv, LabelsWell, Current
<1>7. CompilesWell(q)'
  BY <1>0, <1>1 DEF ScriptInv, CompilesWell, LabelsOf
<1> QED
  BY <1>3, <1>4, <1>5, <1>6, <1>7 DEF ScriptInv, Measures

(* A step of one script that leaves the bucket and the rows of the trials: *)
(* its own part of the invariant and that of the reviews are enough.       *)
LEMMA ScriptReviews ==
  ASSUME LearningInv, NEW p \in Authors, NEW todo, NEW pc, NEW about, NEW seen,
         Turns(p, todo, pc, about, seen), IsSequence(todo),
         UNCHANGED <<suite, objects, trial>>, printed' \subseteq objects,
         permitted \subseteq permitted', DOMAIN reviews \subseteq DOMAIN reviews',
         \A l \in DOMAIN reviews' :
           l \in objects /\ IsLabel(l) /\ (reviews'[l] = "approved" => l \in permitted'),
         ScriptInv(p)',
         pc \in {"measure", "finish"} =>
           \A q \in Authors \ {p} : Measures(q) => author[q].about # about
  PROVE  LearningInv'
<1>1. \A q \in Authors \ {p} : ScriptInv(q)' /\ Measures(q)' = Measures(q)
  BY OthersStand DEF Turns
<1>2. LearningRows'
  BY DEF LearningInv, LearningRows, Turns
<1>3. Foundations'
  BY PermitsStays DEF LearningInv, Foundations, ReferencesClosed, Prepared
<1>4. ASSUME NEW q \in Authors, NEW r \in Authors, Measures(q)', Measures(r)',
             author'[q].about = author'[r].about
      PROVE  q = r
  <2>1. CASE q # p /\ r # p
    BY <1>1, <1>4, <2>1 DEF LearningInv, Turns
  <2>2. CASE q = p /\ r # p
    <3>1. pc \in {"measure", "finish"} /\ author'[q].about = about
      BY <1>4, <2>2 DEF Turns, Measures
    <3>2. Measures(r) /\ author'[r] = author[r]
      BY <1>1, <1>4, <2>2 DEF Turns
    <3> QED
      BY <1>4, <2>2, <3>1, <3>2
  <2>3. CASE q # p /\ r = p
    <3>1. pc \in {"measure", "finish"} /\ author'[r].about = about
      BY <1>4, <2>3 DEF Turns, Measures
    <3>2. Measures(q) /\ author'[q] = author[q]
      BY <1>1, <1>4, <2>3 DEF Turns
    <3> QED
      BY <1>4, <2>3, <3>1, <3>2
  <2> QED
    BY <2>1, <2>2, <2>3
<1> QED
  BY <1>1, <1>2, <1>3, <1>4 DEF LearningInv

LEMMA ScriptTurns ==
  ASSUME LearningInv, NEW p \in Authors, NEW todo, NEW pc, NEW about, NEW seen,
         Turns(p, todo, pc, about, seen), IsSequence(todo),
         UNCHANGED <<suite, objects, trial, reviews, permitted>>, printed' \subseteq objects,
         ScriptInv(p)',
         pc \in {"measure", "finish"} =>
           \A q \in Authors \ {p} : Measures(q) => author[q].about # about
  PROVE  LearningInv'
<1>1. \A l \in DOMAIN reviews' :
        l \in objects /\ IsLabel(l) /\ (reviews'[l] = "approved" => l \in permitted')
  BY DEF LearningInv, Foundations
<1> QED
  BY <1>1, ScriptReviews

(* A script that has ended has nothing to answer for.                      *)
LEMMA Ends ==
  ASSUME LearningInv, NEW p \in Authors, Done(p),
         UNCHANGED <<suite, objects, trial, reviews, permitted>>, printed' \subseteq objects
  PROVE  LearningInv'
<1>1. Turns(p, <<>>, "free", {}, {})
  BY DoneTurns DEF LearningInv
<1>2. ScriptInv(p)'
  BY <1>1, ListsInOrder, ShortLists
  DEF Turns, ScriptInv, WritesWell, InOrder, Publishes, MeasuresWell, Measures, LabelsWell, CompilesWell
<1> QED
  BY <1>1, <1>2, ShortLists, ScriptTurns

(* A list without a manifest in it is written well.                        *)
LEMMA WritesPlain ==
  ASSUME NEW p \in Authors, NEW todo, NEW pc, NEW about, NEW seen, Turns(p, todo, pc, about, seen),
         objects' = objects, InOrder(todo), \A o \in Range(todo) : ~IsManifest(o)
  PROVE  WritesWell(p)'
  BY DEF Turns, WritesWell, InOrder

LEMMA FinishEnds ==
  ASSUME LearningInv, NEW p \in Authors, NEW o, NEW passed, Finish(p, o, passed), passed => o \in objects
  PROVE  LearningInv'
<1>1. printed' \subseteq objects
  BY DEF Finish, LearningInv, Foundations
<1> QED
  BY <1>1, Ends DEF Finish

(* PutImmutable: the next object of a list goes into the bucket.           *)
LEMMA PutsInOrder ==
  ASSUME LearningInv, NEW p \in Authors, PutImmutable(p)
  PROVE  LearningInv'
<1> DEFINE q == author[p].todo
<1>0. LearningRows /\ Foundations /\ ScriptInv(p) /\ IsSequence(q) /\ q # <<>>
  BY DEF LearningInv, LearningRows, PutImmutable
<1>1. /\ objects' = objects \cup {Head(q)}
      /\ UNCHANGED <<suite, trial, reviews, printed, permitted>>
      /\ author' = [author EXCEPT ![p].todo = Tail(q)]
  BY DEF PutImmutable
<1>2. /\ Turns(p, Tail(q), author[p].pc, author[p].about, author[p].seen)
  BY <1>0, <1>1 DEF LearningRows, Turns, Fields
<1>3. /\ IsSequence(Tail(q)) /\ Range(q) = {Head(q)} \cup Range(Tail(q))
      /\ 1 \in DOMAIN q /\ q[1] = Head(q)
      /\ \A i \in DOMAIN Tail(q) : i \in Nat \ {0} /\ i + 1 \in DOMAIN q /\ Tail(q)[i] = q[i + 1]
  BY <1>0, TailWrites
<1>4. Refs(Head(q)) \subseteq objects
  BY <1>0, <1>3 DEF ScriptInv, WritesWell, InOrder
<1>5. InOrder(author[p].todo)'
  <2>1. ASSUME NEW i \in DOMAIN Tail(q), NEW o \in Refs(Tail(q)[i])
        PROVE  o \in objects' \/ \E j \in 1..(i - 1) : Tail(q)[j] = o
    <3>1. i \in Nat \ {0} /\ i + 1 \in DOMAIN q /\ Tail(q)[i] = q[i + 1]
      BY <1>3
    <3>2. o \in objects \/ \E j \in 1..((i + 1) - 1) : q[j] = o
      BY <1>0, <3>1 DEF ScriptInv, WritesWell, InOrder
    <3>3. ASSUME NEW j \in 1..((i + 1) - 1), q[j] = o
          PROVE  o \in objects' \/ \E k \in 1..(i - 1) : Tail(q)[k] = o
      <4>1. CASE j = 1
        BY <1>1, <1>3, <3>3, <4>1
      <4>2. CASE j # 1
        <5>1. j - 1 \in 1..(i - 1) /\ (j - 1) + 1 = j
          BY <3>1, <4>2
        <5>2. j - 1 \in DOMAIN Tail(q)
          <6>1. DOMAIN Tail(q) = 1..(Len(q) - 1) /\ Len(q) \in Nat
            BY <1>0 DEF IsSequence
          <6> QED
            BY <3>1, <5>1, <6>1
        <5>3. Tail(q)[j - 1] = o
          BY <1>3, <3>3, <5>1, <5>2
        <5> QED
          BY <5>1, <5>3
      <4> QED
        BY <4>1, <4>2
    <3> QED
      BY <1>1, <3>2, <3>3
  <2>2. \A i \in DOMAIN Tail(q) : \A o \in Refs(Tail(q)[i]) :
           o \in objects' \/ \E j \in 1..(i - 1) : Tail(q)[j] = o
    BY <2>1
  <2> QED
    BY <1>2, <2>2 DEF InOrder, Turns
<1>6. Written(p)' = Written(p)
  BY <1>1, <1>2, <1>3 DEF Written, Turns
<1>7. ScriptInv(p)'
  <2>1. WritesWell(p)'
    <3>1. \A o \in Range(Tail(q)) : IsManifest(o) => Permits(o)'
      BY <1>0, <1>1, <1>3, PermitsStays DEF ScriptInv, WritesWell
    <3>2. author'[p].todo = Tail(q)
      BY <1>2 DEF Turns
    <3> QED
      BY <1>5, <3>1, <3>2 DEF WritesWell
  <2>2. Publishes(p)'
    BY <1>0, <1>2, <1>6 DEF ScriptInv, Publishes, Turns
  <2>3. Prepared => Prepared'
    BY <1>1 DEF Prepared
  <2>4. MeasuresWell(p)'
    <3>1. \A c : Queued(c)' = Queued(c) /\ UpNext(c)' = UpNext(c)
      BY <1>1 DEF Queued, UpNext
    <3> QED
      BY <1>0, <1>2, <1>6, <2>3, <3>1 DEF ScriptInv, MeasuresWell, Measures, Turns
  <2>5. LabelsWell(p)'
    BY <1>0, <1>2, <1>6, <2>3 DEF ScriptInv, LabelsWell, Judged, Current, Turns
  <2>6. CompilesWell(p)'
    BY <1>0, <1>1, <1>2, <1>6 DEF ScriptInv, CompilesWell, LabelsOf, Turns
  <2> QED
    BY <2>1, <2>2, <2>4, <2>5, <2>6 DEF ScriptInv
<1>8. \A r \in Authors \ {p} : ScriptInv(r)' /\ Measures(r)' = Measures(r)
  BY <1>1, <1>2, OthersStand DEF Turns
<1>9. LearningRows'
  BY <1>0, <1>1, <1>2, <1>3 DEF LearningRows, Turns
<1>10. Foundations'
  <2>1. ReferencesClosed'
    BY <1>0, <1>1, <1>4 DEF Foundations, ReferencesClosed
  <2>2. \A o \in objects' : IsManifest(o) => Permits(o)'
    BY <1>0, <1>1, <1>3, PermitsStays DEF Foundations, ScriptInv, WritesWell
  <2>3. Prepared => Prepared'
    BY <1>1 DEF Prepared
  <2> QED
    BY <1>0, <1>1, <2>1, <2>2, <2>3 DEF Foundations
<1>11. Measures(p)' = Measures(p) /\ author'[p].about = author[p].about
  BY <1>2 DEF Turns, Measures
<1>12. \A r \in Authors : Measures(r)' = Measures(r) /\ author'[r].about = author[r].about
  BY <1>2, <1>8, <1>11 DEF Turns
<1> QED
  BY <1>7, <1>8, <1>9, <1>10, <1>12 DEF LearningInv

---------------------------------------------------------------------------
(* A script that begins to write, with nothing to answer for but its list. *)
LEMMA Writes ==
  ASSUME LearningInv, NEW p \in Authors, NEW todo, NEW pc, NEW about, Becomes(p, todo, pc, about),
         pc \in {"reported", "recorded", "decided"}, pc = "decided" => about \subseteq Range(todo),
         IsSequence(todo), InOrder(todo), \A o \in Range(todo) : ~IsManifest(o),
         UNCHANGED <<suite, objects, trial, reviews, permitted>>, printed' = printed
  PROVE  LearningInv'
<1>1. Turns(p, todo, pc, about, {})
  BY BecomesTurns DEF LearningInv
<1>2. WritesWell(p)'
  BY <1>1, WritesPlain
<1>3. ScriptInv(p)'
  BY <1>1, <1>2
  DEF Turns, ScriptInv, Publishes, MeasuresWell, Measures, LabelsWell, CompilesWell, Written
<1>4. printed' \subseteq objects
  BY DEF LearningInv, Foundations
<1> QED
  BY <1>1, <1>3, <1>4, ScriptTurns

(* A trial that has ended read its task and its receipt.                   *)
LEMMA MeasuredOnPrepared ==
  ASSUME LearningInv, NEW t \in Tasks, NEW g \in Arms, Publishable(t, g)
  PROVE  Prepared
<1>1. trial["gap"][<<t, g>>] # "queued"
  BY DEF Publishable
<1> QED
  BY <1>1 DEF LearningInv, Foundations, Campaigns

(* The record of an experience is in order, and so is a label after it.    *)
LEMMA RecordedInOrder ==
  ASSUME Prepared, NEW t \in Tasks, NEW g
  PROVE  /\ InOrder(Recorded(t, g)) /\ IsSequence(Recorded(t, g))
         /\ \A o \in Range(Recorded(t, g)) : ~IsManifest(o)
         /\ \A l : /\ IsLabel(l) /\ About(l).task = t /\ About(l).arm = g
                   /\ About(l).by = "judge" => {JudgeCall("a"), JudgeCall("b")} \subseteq objects
                   => /\ InOrder(Append(Recorded(t, g), l)) /\ IsSequence(Append(Recorded(t, g), l))
                      /\ \A o \in Range(Append(Recorded(t, g), l)) : ~IsManifest(o)
                      /\ l \in Range(Append(Recorded(t, g), l))
<1> DEFINE a == Event(t, g, "context_built")
           b == Event(t, g, "verifier_result")
           c == Experience(t, g, {})
<1>1. Recorded(t, g) = <<a, b, c>>
  BY DEF Recorded
<1>2. /\ Refs(a) = {Receipt(t, TRUE)} /\ Refs(b) = {}
      /\ Refs(c) = {TaskBundle(t), Receipt(t, TRUE), a, b}
  <2>1. Refs(a) = {Receipt(t, TRUE)} /\ Refs(b) = {}
    BY EventRefs
  <2>2. Refs(c) = {TaskBundle(t), Receipt(t, TRUE), a, b}
    BY ExperienceRefs
  <2> QED
    BY <2>1, <2>2
<1>3. ~IsManifest(a) /\ ~IsManifest(b) /\ ~IsManifest(c)
  BY NoManifests
<1>4. ASSUME NEW l, IsLabel(l), About(l).task = t, About(l).arm = g,
             About(l).by = "judge" => {JudgeCall("a"), JudgeCall("b")} \subseteq objects
      PROVE  Refs(l) \subseteq objects \cup {a, b, c} /\ ~IsManifest(l)
  BY <1>2, <1>4, LabelRefs, NoManifests
<1> HIDE DEF a, b, c
<1>8. /\ Refs(a) \subseteq objects /\ Refs(b) \subseteq objects \cup {a}
      /\ Refs(c) \subseteq objects \cup {a, b}
  BY <1>2 DEF Prepared
<1>5. ASSUME NEW l PROVE Append(<<a, b, c>>, l) = <<a, b, c, l>>
  <2> DEFINE S == {a, b, c, l}
  <2>1. <<a, b, c>> \in Seq(S) /\ <<a, b, c, l>> \in Seq(S) /\ l \in S
    OBVIOUS
  <2>2. /\ Append(<<a, b, c>>, l) \in Seq(S) /\ Len(Append(<<a, b, c>>, l)) = 4
        /\ Append(<<a, b, c>>, l)[4] = l
        /\ \A i \in 1..3 : Append(<<a, b, c>>, l)[i] = <<a, b, c>>[i]
    BY <2>1, AppendProperties
  <2> HIDE DEF S
  <2>3. \A i \in 1..4 : Append(<<a, b, c>>, l)[i] = <<a, b, c, l>>[i]
    <3>1. 1..4 = 1..3 \cup {4}
      OBVIOUS
    <3>2. \A i \in 1..3 : <<a, b, c>>[i] = <<a, b, c, l>>[i]
      OBVIOUS
    <3> QED
      BY <2>2, <3>1, <3>2
  <2>4. Len(<<a, b, c, l>>) = 4
    OBVIOUS
  <2> QED
    BY <2>1, <2>2, <2>3, <2>4, SeqEqual
<1>6. InOrder(<<a, b, c>>) /\ IsSequence(<<a, b, c>>) /\ \A o \in Range(<<a, b, c>>) : ~IsManifest(o)
  BY <1>3, <1>8, ListsInOrder, ShortLists
<1>7. ASSUME NEW l, IsLabel(l), About(l).task = t, About(l).arm = g,
             About(l).by = "judge" => {JudgeCall("a"), JudgeCall("b")} \subseteq objects
      PROVE  /\ InOrder(Append(<<a, b, c>>, l)) /\ IsSequence(Append(<<a, b, c>>, l))
             /\ \A o \in Range(Append(<<a, b, c>>, l)) : ~IsManifest(o)
             /\ l \in Range(Append(<<a, b, c>>, l))
  <2>1. Refs(l) \subseteq objects \cup {a, b, c} /\ ~IsManifest(l)
    BY <1>4, <1>7
  <2>2. InOrder(<<a, b, c, l>>)
    BY <1>8, <2>1, ListsInOrder
  <2>3. IsSequence(<<a, b, c, l>>) /\ Range(<<a, b, c, l>>) = {a, b, c, l}
    BY ShortLists
  <2> QED
    BY <1>3, <1>5, <2>1, <2>2, <2>3
<1> QED
  BY <1>1, <1>6, <1>7

(* publish_rag_suite.                                                      *)
LEMMA PublishingSteps ==
  ASSUME LearningInv, NEW p \in Authors,
         \/ PublishSuite(p) \/ PublishBundle(p) \/ CheckEnvironment(p) \/ PublishReceipt(p)
         \/ SuitePublished(p)
  PROVE  LearningInv'
<1>0. /\ LearningRows /\ Foundations /\ ScriptInv(p) /\ printed \subseteq objects
  BY DEF LearningInv, Foundations
<1>1. CASE PublishSuite(p)
  <2>1. Becomes(p, <<>>, "bundles", Tasks) /\ UNCHANGED <<suite, objects, trial, reviews, printed, permitted>>
    BY <1>1 DEF PublishSuite
  <2>2. Turns(p, <<>>, "bundles", Tasks, {})
    BY <1>0, <2>1, BecomesTurns
  <2>3. WritesWell(p)'
    BY <2>1, <2>2, ListsInOrder, ShortLists, WritesPlain
  <2>4. ScriptInv(p)'
    BY <2>2, <2>3 DEF Turns, ScriptInv, Publishes, MeasuresWell, Measures, LabelsWell, CompilesWell
  <2> QED
    BY <1>0, <2>1, <2>2, <2>4, ShortLists, ScriptTurns
<1>2. CASE PublishBundle(p)
  <2> DEFINE t == Current(p)
             todo == <<Input(t), Environment, Criteria(t), TaskBundle(t)>>
             left == author[p].about \ {t}
  <2>1. /\ author[p].pc = "bundles" /\ author[p].todo = <<>>
        /\ author' = [author EXCEPT ![p].todo = todo, ![p].about = left]
        /\ UNCHANGED <<suite, objects, trial, reviews, printed, permitted>>
    BY <1>2 DEF PublishBundle, Is
  <2> HIDE DEF t
  <2>2. Turns(p, todo, "bundles", left, author[p].seen)
    BY <1>0, <2>1 DEF LearningRows, Turns, Fields
  <2>3. InOrder(todo) /\ IsSequence(todo) /\ Range(todo) = {Input(t), Environment, Criteria(t), TaskBundle(t)}
    BY LeafRefs, BundleRefs, ListsInOrder, ShortLists
  <2>4. \A o \in Range(todo) : ~IsManifest(o)
    BY <2>3, NoManifests
  <2>5. WritesWell(p)'
    BY <2>1, <2>2, <2>3, <2>4, WritesPlain
  <2>6. Publishes(p)'
    <3>1. \A u \in Tasks \ author[p].about : TaskBundle(u) \in objects
      BY <1>0, <2>1, ShortLists DEF ScriptInv, Publishes, Written
    <3>2. \A u \in Tasks \ left : TaskBundle(u) \in objects \cup Range(todo)
      BY <2>3, <3>1
    <3>3. /\ author'[p].pc = "bundles" /\ author'[p].about = left
          /\ Written(p)' = objects \cup Range(todo)
      BY <2>1, <2>2 DEF Turns, Written
    <3> QED
      BY <3>2, <3>3 DEF Publishes
  <2> HIDE DEF todo, left
  <2>7. ScriptInv(p)'
    BY <2>2, <2>5, <2>6 DEF Turns, ScriptInv, MeasuresWell, Measures, LabelsWell, CompilesWell
  <2> QED
    BY <1>0, <2>1, <2>2, <2>3, <2>7, ScriptTurns
<1>3. CASE CheckEnvironment(p)
  <2>1. /\ author[p].pc = "bundles" /\ author[p].todo = <<>> /\ author[p].about = {}
        /\ UNCHANGED <<suite, objects, trial, reviews, printed, permitted>>
    BY <1>3 DEF CheckEnvironment, Is
  <2>2. PICK ready \in BOOLEAN :
          author' = [author EXCEPT ![p].pc = "receipts", ![p].about = Tasks, ![p].seen = {ready}]
    BY <1>3 DEF CheckEnvironment
  <2>3. Turns(p, <<>>, "receipts", Tasks, {ready})
    BY <1>0, <2>1, <2>2 DEF LearningRows, Turns, Fields
  <2>4. WritesWell(p)'
    BY <2>1, <2>3, ListsInOrder, ShortLists, WritesPlain
  <2>5. \A t \in Tasks : TaskBundle(t) \in objects
    BY <1>0, <2>1, ShortLists DEF ScriptInv, Publishes, Written
  <2>6. ScriptInv(p)'
    BY <2>1, <2>3, <2>4, <2>5
    DEF Turns, ScriptInv, Publishes, Written, MeasuresWell, Measures, LabelsWell, CompilesWell
  <2> QED
    BY <1>0, <2>1, <2>3, <2>6, ShortLists, ScriptTurns
<1>4. CASE PublishReceipt(p)
  <2> DEFINE t == Current(p)
             left == author[p].about \ {t}
  <2>1. /\ author[p].pc = "receipts" /\ author[p].todo = <<>>
        /\ UNCHANGED <<suite, objects, trial, reviews, printed, permitted>>
    BY <1>4 DEF PublishReceipt, Is
  <2>2. PICK ready \in author[p].seen :
          author' = [author EXCEPT ![p].todo = <<Preflight(t, ready), Receipt(t, ready)>>, ![p].about = left]
    BY <1>4 DEF PublishReceipt
  <2> DEFINE todo == <<Preflight(t, ready), Receipt(t, ready)>>
  <2> HIDE DEF t, left
  <2>3. Turns(p, todo, "receipts", left, author[p].seen)
    BY <1>0, <2>1, <2>2 DEF LearningRows, Turns, Fields
  <2>4. InOrder(todo) /\ IsSequence(todo) /\ Range(todo) = {Preflight(t, ready), Receipt(t, ready)}
    BY LeafRefs, ReceiptRefs, ListsInOrder, ShortLists
  <2>5. \A o \in Range(todo) : ~IsManifest(o)
    BY <2>4, NoManifests
  <2> HIDE DEF todo
  <2>6. WritesWell(p)'
    BY <2>1, <2>3, <2>4, <2>5, WritesPlain
  <2>7. \A u \in Tasks : TaskBundle(u) \in objects
    BY <1>0, <2>1, ShortLists DEF ScriptInv, Publishes, Written
  <2>8. ScriptInv(p)'
    BY <2>1, <2>3, <2>6, <2>7
    DEF Turns, ScriptInv, Publishes, Written, MeasuresWell, Measures, LabelsWell, CompilesWell
  <2> QED
    BY <1>0, <2>1, <2>3, <2>4, <2>8, ScriptTurns
<1>5. CASE SuitePublished(p)
  <2>1. /\ author[p].pc = "receipts" /\ author[p].todo = <<>> /\ Done(p)
        /\ UNCHANGED <<suite, objects, trial, reviews, permitted>>
        /\ printed' = printed \cup {TaskBundle(t) : t \in Tasks}
    BY <1>5 DEF SuitePublished, Is
  <2>2. \A t \in Tasks : TaskBundle(t) \in objects
    BY <1>0, <2>1, ShortLists DEF ScriptInv, Publishes, Written
  <2>3. printed' \subseteq objects
    BY <1>0, <2>1, <2>2
  <2> QED
    BY <2>1, <2>3, Ends
<1> QED
  BY <1>1, <1>2, <1>3, <1>4, <1>5

(* rerollout: the trials of a campaign and its report.                     *)
LEMMA MeasuringSteps ==
  ASSUME LearningInv, NEW p \in Authors,
         \/ \E c \in Campaigns : BeginRerollout(p, c)
         \/ MeasureTrial(p) \/ BuildGapReport(p) \/ GapReported(p)
  PROVE  LearningInv'
<1>0. /\ LearningRows /\ Foundations /\ ScriptInv(p) /\ printed \subseteq objects
  BY DEF LearningInv, Foundations
<1>1. ASSUME NEW c \in Campaigns, BeginRerollout(p, c) PROVE LearningInv'
  <2>1. /\ Is(p, "free")
        /\ \A q \in Authors : author[q].pc \in {"measure", "finish"} => author[q].about # {c}
        /\ \A t \in Tasks : Runnable(t)
        /\ UNCHANGED <<suite, objects, trial, reviews, printed, permitted>>
    BY <1>1 DEF BeginRerollout
  <2>2. PICK states \in Measurements[suite][c] :
          author' = [author EXCEPT ![p] =
            [todo |-> <<>>, pc |-> "measure", about |-> {c}, seen |-> states]]
    BY <1>1 DEF BeginRerollout
  <2>3. states \in [Tasks \X Arms -> {"succeeded", "failed", "invalidated"}]
    BY <1>0, LearningAssumption DEF LearningRows
  <2>4. Turns(p, <<>>, "measure", {c}, states)
    BY <1>0, <2>2 DEF LearningRows, Turns, Fields
  <2>5. WritesWell(p)'
    BY <2>1, <2>4, ListsInOrder, ShortLists, WritesPlain
  <2>6. Prepared'
    BY <2>1 DEF Runnable, Prepared
  <2>7. ScriptInv(p)'
    BY <2>3, <2>4, <2>5, <2>6
    DEF Turns, ScriptInv, Publishes, MeasuresWell, Measures, LabelsWell, CompilesWell
  <2>8. \A q \in Authors \ {p} : Measures(q) => author[q].about # {c}
    BY <2>1 DEF Measures
  <2> QED
    BY <1>0, <2>1, <2>4, <2>7, <2>8, ShortLists, ScriptTurns
<1>2. CASE MeasureTrial(p)
  <2>1. PICK c \in author[p].about :
          /\ Is(p, "measure") /\ Queued(c) # {}
          /\ author' = [author EXCEPT
               ![p].todo = <<Transcript(c, UpNext(c)[1], UpNext(c)[2], author[p].seen[UpNext(c)])>>,
               ![p].pc = "finish"]
          /\ UNCHANGED <<suite, objects, trial, reviews, printed, permitted>>
    BY <1>2 DEF MeasureTrial
  <2> DEFINE o == Transcript(c, UpNext(c)[1], UpNext(c)[2], author[p].seen[UpNext(c)])
  <2>2. /\ author[p].pc = "measure" /\ Prepared /\ author[p].about = {c} /\ c \in Campaigns
        /\ author[p].seen \in [Tasks \X Arms -> {"succeeded", "failed", "invalidated"}]
    BY <1>0, <2>1 DEF Is, ScriptInv, MeasuresWell, Measures
  <2>3. Turns(p, <<o>>, "finish", {c}, author[p].seen)
    BY <1>0, <2>1, <2>2 DEF LearningRows, Turns, Fields
  <2>4. UpNext(c) \in Queued(c)
    BY <2>1 DEF UpNext
  <2>5. UpNext(c)[1] \in Tasks
    <3> DEFINE x == UpNext(c)
    <3>1. x \in Tasks \X Arms
      BY <2>4 DEF Queued
    <3> HIDE DEF x
    <3>2. x[1] \in Tasks
      BY <3>1
    <3> QED
      BY <3>2 DEF x
  <2>6. Refs(o) \subseteq objects /\ ~IsManifest(o)
    <3>1. Refs(o) = {Receipt(UpNext(c)[1], TRUE)}
      BY TranscriptRefs
    <3>2. ~IsManifest(o)
      BY NoManifests
    <3> QED
      BY <2>2, <2>5, <3>1, <3>2 DEF Prepared
  <2>7. WritesWell(p)'
    BY <2>1, <2>3, <2>6, ListsInOrder, ShortLists, WritesPlain
  <2>8. MeasuresWell(p)'
    <3>1. /\ author'[p].about = {c} /\ author'[p].seen = author[p].seen /\ author'[p].todo = <<o>>
          /\ author'[p].pc = "finish"
      BY <2>3 DEF Turns
    <3>2. Prepared' /\ Queued(c)' = Queued(c) /\ UpNext(c)' = UpNext(c)
      BY <2>1, <2>2 DEF Prepared, Queued, UpNext
    <3>3. o \in Written(p)'
      BY <3>1, ShortLists DEF Written
    <3> QED
      BY <2>1, <2>2, <3>1, <3>2, <3>3 DEF MeasuresWell, Measures
  <2>9. ScriptInv(p)'
    BY <2>3, <2>7, <2>8 DEF Turns, ScriptInv, Publishes, LabelsWell, CompilesWell
  <2>10. \A q \in Authors \ {p} : Measures(q) => author[q].about # {c}
    BY <2>2 DEF LearningInv, Measures
  <2> QED
    BY <1>0, <2>1, <2>3, <2>9, <2>10, ShortLists, ScriptTurns
<1>3. CASE BuildGapReport(p)
  <2>1. PICK c \in author[p].about :
          /\ Is(p, "measure") /\ Queued(c) = {}
          /\ Becomes(p, <<GapReport(c, trial[c])>>, "reported", {GapReport(c, trial[c])})
          /\ UNCHANGED <<suite, objects, trial, reviews, printed, permitted>>
    BY <1>3 DEF BuildGapReport
  <2>2. c \in Campaigns
    BY <1>0, <2>1 DEF Is, ScriptInv, MeasuresWell, Measures
  <2>3. \A x \in Tasks \X Arms : trial[c][x] # "queued"
    BY <2>1 DEF Queued
  <2>4. Refs(GapReport(c, trial[c])) \subseteq objects /\ ~IsManifest(GapReport(c, trial[c]))
    BY <1>0, <2>2, <2>3, GapReportRefs, NoManifests DEF Foundations
  <2>5. /\ InOrder(<<GapReport(c, trial[c])>>) /\ IsSequence(<<GapReport(c, trial[c])>>)
        /\ \A o \in Range(<<GapReport(c, trial[c])>>) : ~IsManifest(o)
    BY <2>4, ListsInOrder, ShortLists
  <2> QED
    BY <2>1, <2>5, Writes
<1>4. CASE GapReported(p)
  <2>1. PICK r \in author[p].about :
          Finish(p, r, /\ GapVerifies(r)
                       /\ \A t \in Tasks : Classification(About(r)[2], t) # "invalid")
    BY <1>4 DEF GapReported
  <2>2. GapVerifies(r) => r \in objects
    BY DEF GapVerifies, Resolves
  <2> QED
    BY <2>1, <2>2, FinishEnds
<1> QED
  BY <1>1, <1>2, <1>3, <1>4

(* finish_evaluation_trials: the row takes the outcome that the transcript *)
(* tells.                                                                  *)
LEMMA TrialFinishes ==
  ASSUME LearningInv, NEW p \in Authors, FinishTrial(p)
  PROVE  LearningInv'
<1>0. /\ LearningRows /\ Foundations /\ ScriptInv(p)
      /\ \A q, r \in Authors : Measures(q) /\ Measures(r) /\ author[q].about = author[r].about => q = r
  BY DEF LearningInv
<1>1. PICK c \in author[p].about :
        /\ Is(p, "finish")
        /\ trial' = [trial EXCEPT ![c][UpNext(c)] = author[p].seen[UpNext(c)]]
        /\ author' = [author EXCEPT ![p].pc = "measure"]
        /\ UNCHANGED <<suite, objects, reviews, printed, permitted>>
  BY DEF FinishTrial
<1> DEFINE x == UpNext(c)
           state == author[p].seen[x]
<1>2. /\ Prepared /\ author[p].about = {c} /\ c \in Campaigns /\ Queued(c) # {}
      /\ author[p].seen \in [Tasks \X Arms -> {"succeeded", "failed", "invalidated"}]
      /\ Transcript(c, x[1], x[2], state) \in Written(p) /\ author[p].todo = <<>>
  BY <1>0, <1>1 DEF Is, ScriptInv, MeasuresWell, Measures
<1>3. x \in Tasks \X Arms
  BY <1>2 DEF UpNext, Queued
<1>4. Transcript(c, x[1], x[2], state) \in objects
  BY <1>2, ShortLists DEF Written
<1>5. Turns(p, <<>>, "measure", {c}, author[p].seen)
  BY <1>0, <1>1, <1>2 DEF LearningRows, Turns, Fields
<1> HIDE DEF x
<1>6. /\ trial' \in [Campaigns -> [Tasks \X Arms -> {"queued", "succeeded", "failed", "invalidated"}]]
      /\ trial'[c][x] = state
      /\ \A d \in Campaigns : d # c => trial'[d] = trial[d]
      /\ \A y \in Tasks \X Arms : y # x => trial'[c][y] = trial[c][y]
  <2>1. trial' = [trial EXCEPT ![c] = [trial[c] EXCEPT ![x] = state]]
    BY <1>0, <1>1 DEF x, LearningRows
  <2>2. state \in {"succeeded", "failed", "invalidated"}
    BY <1>2, <1>3
  <2> QED
    BY <1>0, <1>2, <1>3, <2>1, <2>2 DEF LearningRows
<1>7. ASSUME NEW q \in Authors \ {p} PROVE ScriptInv(q)' /\ Measures(q)' = Measures(q)
  <2>1. author'[q] = author[q]
    BY <1>5 DEF Turns
  <2>2. Measures(q) => \A d \in author[q].about : trial'[d] = trial[d]
    <3>1. SUFFICES ASSUME Measures(q), NEW d \in author[q].about PROVE trial'[d] = trial[d]
      OBVIOUS
    <3>2. d \in Campaigns /\ author[q].about = {d}
      BY <3>1 DEF LearningInv, ScriptInv, MeasuresWell
    <3>3. d # c
      BY <1>0, <1>1, <1>2, <3>1, <3>2 DEF Measures, Is
    <3> QED
      BY <1>6, <3>2, <3>3
  <2> QED
    BY <1>1, <2>1, <2>2, OthersStand
<1>8. ScriptInv(p)'
  <2>1. WritesWell(p)'
    BY <1>1, <1>5, ListsInOrder, ShortLists, WritesPlain
  <2>2. Prepared'
    BY <1>1, <1>2 DEF Prepared
  <2> QED
    BY <1>2, <1>5, <2>1, <2>2
    DEF Turns, ScriptInv, Publishes, MeasuresWell, Measures, LabelsWell, CompilesWell
<1>9. LearningRows'
  BY <1>0, <1>1, <1>5, <1>6, ShortLists DEF LearningRows, Turns
<1>10. Foundations'
  <2>1. Prepared'
    BY <1>1, <1>2 DEF Prepared
  <2>2. ASSUME NEW d \in Campaigns, NEW y \in Tasks \X Arms, trial'[d][y] # "queued"
        PROVE  Transcript(d, y[1], y[2], trial'[d][y]) \in objects'
    <3>1. CASE d = c /\ y = x
      BY <1>1, <1>4, <1>6, <3>1
    <3>2. CASE ~(d = c /\ y = x)
      BY <1>0, <1>1, <1>6, <2>2, <3>2 DEF Foundations
    <3> QED
      BY <3>1, <3>2
  <2>3. \A o \in objects' : IsManifest(o) => Permits(o)'
    BY <1>0, <1>1, PermitsStays DEF Foundations
  <2> QED
    BY <1>0, <1>1, <2>1, <2>2, <2>3 DEF Foundations, ReferencesClosed
<1>11. /\ \A q \in Authors : Measures(q)' = Measures(q) /\ author'[q].about = author[q].about
  <2>1. Measures(p)' = Measures(p) /\ author'[p].about = author[p].about
    BY <1>1, <1>2, <1>5 DEF Turns, Measures, Is
  <2> QED
    BY <1>5, <1>7, <2>1 DEF Turns
<1> QED
  BY <1>0, <1>7, <1>8, <1>9, <1>10, <1>11 DEF LearningInv

(* The experiences and the labels that the scripts write.                  *)
LEMMA LabellingSteps ==
  ASSUME LearningInv, NEW p \in Authors,
         \/ \E t \in Tasks, g \in Arms :
              PublishExperience(p, t, g) \/ WriteLabel(p, t, g) \/ BridgeFeedback(p, t, g)
         \/ ExperiencePublished(p)
         \/ \E r \in printed : JudgeGap(p, r)
         \/ JudgeNext(p)
  PROVE  LearningInv'
<1>0. /\ LearningRows /\ Foundations /\ ScriptInv(p) /\ printed \subseteq objects
  BY DEF LearningInv, Foundations
<1>1. ASSUME NEW t \in Tasks, NEW g \in Arms, PublishExperience(p, t, g) PROVE LearningInv'
  <2>1. /\ Publishable(t, g) /\ Becomes(p, Recorded(t, g), "recorded", {Experience(t, g, {})})
        /\ UNCHANGED <<suite, objects, trial, reviews, printed, permitted>>
    BY <1>1 DEF PublishExperience
  <2>2. /\ InOrder(Recorded(t, g)) /\ IsSequence(Recorded(t, g))
        /\ \A o \in Range(Recorded(t, g)) : ~IsManifest(o)
    BY <2>1, MeasuredOnPrepared, RecordedInOrder
  <2> QED
    BY <2>1, <2>2, Writes
<1>2. ASSUME NEW t \in Tasks, NEW g \in Arms, NEW l, NEW todo,
             IsLabel(l), l \in Range(todo), InOrder(todo), IsSequence(todo),
             \A o \in Range(todo) : ~IsManifest(o),
             Becomes(p, todo, "annotate", {l}),
             UNCHANGED <<suite, objects, trial, reviews, printed, permitted>>
      PROVE  LearningInv'
  <2>1. Turns(p, todo, "annotate", {l}, {})
    BY <1>0, <1>2, BecomesTurns
  <2>2. WritesWell(p)'
    BY <1>2, <2>1, WritesPlain
  <2>3. LabelsWell(p)'
    <3>1. /\ author'[p].pc = "annotate" /\ author'[p].about = {l} /\ author'[p].todo = todo
      BY <2>1 DEF Turns
    <3>2. Current(p)' = l
      BY <3>1 DEF Current
    <3> QED
      BY <1>2, <3>1, <3>2 DEF LabelsWell, Written
  <2>4. ScriptInv(p)'
    BY <2>1, <2>2, <2>3 DEF Turns, ScriptInv, Publishes, MeasuresWell, Measures, CompilesWell
  <2> QED
    BY <1>0, <1>2, <2>1, <2>4, ScriptTurns
<1>3. ASSUME NEW t \in Tasks, NEW g \in Arms, WriteLabel(p, t, g) PROVE LearningInv'
  <2> DEFINE l == Label(t, g, suite, "curator")
  <2>1. /\ Experience(t, g, {}) \in printed /\ Becomes(p, <<l>>, "annotate", {l})
        /\ UNCHANGED <<suite, objects, trial, reviews, printed, permitted>>
    BY <1>3 DEF WriteLabel
  <2>2. /\ IsLabel(l) /\ ~IsManifest(l) /\ About(l).task = t /\ About(l).arm = g
        /\ About(l).by = "curator"
    BY LabelIsLabel
  <2> HIDE DEF l
  <2>3. Refs(l) \subseteq objects
    BY <1>0, <2>1, <2>2, LabelRefs
  <2>4. /\ InOrder(<<l>>) /\ IsSequence(<<l>>) /\ l \in Range(<<l>>)
        /\ \A o \in Range(<<l>>) : ~IsManifest(o)
    BY <2>2, <2>3, ListsInOrder, ShortLists
  <2> QED
    BY <1>2, <2>1, <2>2, <2>4
<1>4. ASSUME NEW t \in Tasks, NEW g \in Arms, BridgeFeedback(p, t, g) PROVE LearningInv'
  <2> DEFINE l == Label(t, g, suite, "bridge")
             todo == Append(Recorded(t, g), l)
  <2>1. /\ Publishable(t, g) /\ Becomes(p, todo, "annotate", {l})
        /\ UNCHANGED <<suite, objects, trial, reviews, printed, permitted>>
    BY <1>4 DEF BridgeFeedback
  <2>2. /\ IsLabel(l) /\ About(l).task = t /\ About(l).arm = g /\ About(l).by = "bridge"
    BY LabelIsLabel
  <2> HIDE DEF l
  <2>3. /\ InOrder(todo) /\ IsSequence(todo) /\ l \in Range(todo)
        /\ \A o \in Range(todo) : ~IsManifest(o)
    BY <2>1, <2>2, MeasuredOnPrepared, RecordedInOrder
  <2> HIDE DEF todo
  <2> QED
    BY <1>2, <2>1, <2>2, <2>3
<1>5. CASE ExperiencePublished(p)
  <2>1. PICK e \in author[p].about : Finish(p, e, ExperienceVerifies(e))
    BY <1>5 DEF ExperiencePublished
  <2>2. ExperienceVerifies(e) => e \in objects
    BY DEF ExperienceVerifies, Resolves
  <2> QED
    BY <2>1, <2>2, FinishEnds
<1>6. ASSUME NEW r \in printed, JudgeGap(p, r) PROVE LearningInv'
  <2>1. UNCHANGED <<suite, objects, trial, reviews, printed, permitted>>
    BY <1>6 DEF JudgeGap
  <2>2. PICK given \in Editions[suite], accepted \in (SUBSET CandidateTasks(r)) \ {{}} :
          Becomes(p, <<JudgeCall("a"), JudgeCall("b")>>, "judge",
                  {Label(t, "base", given, "judge") : t \in accepted})
    BY <1>6 DEF JudgeGap
  <2> DEFINE labels == {Label(t, "base", given, "judge") : t \in accepted}
             todo == <<JudgeCall("a"), JudgeCall("b")>>
  <2>3. PICK t \in accepted : t \in Tasks /\ Publishable(t, "base")
    BY DEF CandidateTasks
  <2>4. Prepared
    BY <2>3, MeasuredOnPrepared DEF Arms
  <2>5. labels # {} /\ \A l \in labels : IsLabel(l)
    <3>1. accepted \subseteq Tasks
      BY DEF CandidateTasks
    <3> QED
      BY <2>3, <3>1, LabelIsLabel
  <2>6. /\ InOrder(todo) /\ IsSequence(todo) /\ Range(todo) = {JudgeCall("a"), JudgeCall("b")}
    BY LeafRefs, ListsInOrder, ShortLists
  <2>7. \A o \in Range(todo) : ~IsManifest(o)
    BY <2>6, NoManifests
  <2> HIDE DEF labels, todo
  <2>8. Turns(p, todo, "judge", labels, {})
    BY <1>0, <2>2, BecomesTurns DEF labels, todo
  <2>9. WritesWell(p)'
    BY <2>1, <2>6, <2>7, <2>8, WritesPlain
  <2>10. LabelsWell(p)'
    <3>1. author'[p].pc = "judge" /\ author'[p].about = labels /\ author'[p].todo = todo
      BY <2>8 DEF Turns
    <3>2. Prepared'
      BY <2>1, <2>4 DEF Prepared
    <3> QED
      BY <2>5, <2>6, <3>1, <3>2 DEF LabelsWell, Judged, Written
  <2>11. ScriptInv(p)'
    BY <2>8, <2>9, <2>10 DEF Turns, ScriptInv, Publishes, MeasuresWell, Measures, CompilesWell
  <2> QED
    BY <1>0, <2>1, <2>6, <2>8, <2>11, ScriptTurns
<1>7. CASE JudgeNext(p)
  <2> DEFINE l == Current(p)
             todo == Append(Recorded(About(l).task, About(l).arm), l)
  <2>1. /\ author[p].pc = "judge" /\ author[p].todo = <<>>
        /\ author' = [author EXCEPT ![p].todo = todo, ![p].pc = "annotate"]
        /\ UNCHANGED <<suite, objects, trial, reviews, printed, permitted>>
    BY <1>7 DEF JudgeNext, Is
  <2>2. /\ author[p].about # {} /\ \A m \in author[p].about : IsLabel(m)
        /\ Prepared /\ JudgeCall("a") \in objects /\ JudgeCall("b") \in objects
    BY <1>0, <2>1, ShortLists DEF ScriptInv, LabelsWell, Judged, Written
  <2>3. l \in author[p].about
    BY <2>2 DEF Current
  <2> HIDE DEF l
  <2>4. IsLabel(l) /\ About(l).task \in Tasks
    BY <2>2, <2>3 DEF IsLabel
  <2>5. /\ InOrder(todo) /\ IsSequence(todo) /\ l \in Range(todo)
        /\ \A o \in Range(todo) : ~IsManifest(o)
    BY <2>2, <2>4, RecordedInOrder
  <2> HIDE DEF todo
  <2>6. Turns(p, todo, "annotate", author[p].about, author[p].seen)
    BY <1>0, <2>1 DEF LearningRows, Turns, Fields
  <2>7. WritesWell(p)'
    BY <2>1, <2>5, <2>6, WritesPlain
  <2>8. LabelsWell(p)'
    <3>1. /\ author'[p].pc = "annotate" /\ author'[p].about = author[p].about
          /\ author'[p].todo = todo
      BY <2>6 DEF Turns
    <3>2. Prepared' /\ Current(p)' = l
      BY <2>1, <2>2, <3>1 DEF Prepared, Current, l
    <3> QED
      BY <2>1, <2>2, <2>5, <3>1, <3>2 DEF LabelsWell, Judged, Written
  <2>9. ScriptInv(p)'
    BY <2>6, <2>7, <2>8 DEF Turns, ScriptInv, Publishes, MeasuresWell, Measures, CompilesWell
  <2> QED
    BY <1>0, <2>1, <2>5, <2>6, <2>9, ScriptTurns
<1> QED
  BY <1>1, <1>3, <1>4, <1>5, <1>6, <1>7

(* The annotations of a label: the script that wrote it goes on to approve *)
(* it, and then to the next.                                               *)
LEMMA AnnotatingSteps ==
  ASSUME LearningInv, NEW p \in Authors, CreateAnnotation(p) \/ ApproveAnnotation(p)
  PROVE  LearningInv'
<1>0. /\ LearningRows /\ Foundations /\ ScriptInv(p) /\ printed \subseteq objects
  BY DEF LearningInv, Foundations
<1> DEFINE l == Current(p)
<1>1. CASE CreateAnnotation(p)
  <2>1. /\ author[p].pc = "annotate" /\ author[p].todo = <<>>
        /\ reviews' = [x \in DOMAIN reviews \cup {l} |->
                         IF x \in DOMAIN reviews THEN reviews[x] ELSE "candidate"]
        /\ Done(p) \/ author' = [author EXCEPT ![p].pc = "approve"]
        /\ UNCHANGED <<suite, objects, trial, printed, permitted>>
    BY <1>1 DEF CreateAnnotation, Is
  <2>2. /\ author[p].about # {} /\ \A m \in author[p].about : IsLabel(m)
        /\ Judged(p) \/ \E m : author[p].about = {m}
        /\ l \in objects
    BY <1>0, <2>1, ShortLists DEF ScriptInv, LabelsWell, Written
  <2>3. l \in author[p].about
    BY <2>2 DEF Current
  <2> HIDE DEF l
  <2>4. /\ DOMAIN reviews \subseteq DOMAIN reviews'
        /\ \A m \in DOMAIN reviews' :
             m \in objects /\ IsLabel(m) /\ (reviews'[m] = "approved" => m \in permitted')
    <3>1. DOMAIN reviews' = DOMAIN reviews \cup {l}
      BY <2>1
    <3>2. /\ \A m \in DOMAIN reviews : reviews'[m] = reviews[m]
          /\ l \notin DOMAIN reviews => reviews'[l] = "candidate"
      BY <2>1
    <3>3. permitted' = permitted
      BY <2>1
    <3> QED
      BY <1>0, <2>2, <2>3, <3>1, <3>2, <3>3 DEF Foundations
  <2>5. CASE Done(p)
    <3>1. Turns(p, <<>>, "free", {}, {})
      BY <1>0, <2>5, DoneTurns
    <3>2. ScriptInv(p)'
      BY <3>1, ListsInOrder, ShortLists
      DEF Turns, ScriptInv, WritesWell, InOrder, Publishes, MeasuresWell, Measures, LabelsWell,
          CompilesWell
    <3> QED
      BY <1>0, <2>1, <2>4, <3>1, <3>2, ShortLists, ScriptReviews
  <2>6. CASE author' = [author EXCEPT ![p].pc = "approve"]
    <3>1. Turns(p, <<>>, "approve", author[p].about, author[p].seen)
      BY <1>0, <2>1, <2>6 DEF LearningRows, Turns, Fields
    <3>2. WritesWell(p)'
      BY <2>1, <3>1, ListsInOrder, ShortLists, WritesPlain
    <3>3. Judged(p) => Judged(p)'
      BY <2>1, <3>1 DEF Judged, Prepared, Written, Turns
    <3>4. ScriptInv(p)'
      BY <2>2, <3>1, <3>2, <3>3
      DEF Turns, ScriptInv, Publishes, MeasuresWell, Measures, LabelsWell, CompilesWell
    <3> QED
      BY <1>0, <2>1, <2>4, <3>1, <3>4, ShortLists, ScriptReviews
  <2> QED
    BY <2>1, <2>5, <2>6
<1>2. CASE ApproveAnnotation(p)
  <2>1. /\ author[p].pc = "approve" /\ author[p].todo = <<>>
        /\ reviews' = [reviews EXCEPT ![l] = "approved"]
        /\ permitted' = permitted \cup {l}
        /\ IF author[p].about = {l} THEN Done(p) ELSE Becomes(p, <<>>, "judge", author[p].about \ {l})
        /\ UNCHANGED <<suite, objects, trial, printed>>
    BY <1>2 DEF ApproveAnnotation, Is
  <2>2. /\ author[p].about # {} /\ \A m \in author[p].about : IsLabel(m)
        /\ Judged(p) \/ \E m : author[p].about = {m}
    BY <1>0, <2>1 DEF ScriptInv, LabelsWell
  <2>3. l \in author[p].about
    BY <2>2 DEF Current
  <2> HIDE DEF l
  <2>4. /\ permitted \subseteq permitted' /\ DOMAIN reviews \subseteq DOMAIN reviews'
        /\ \A m \in DOMAIN reviews' :
             m \in objects /\ IsLabel(m) /\ (reviews'[m] = "approved" => m \in permitted')
    BY <1>0, <2>1 DEF Foundations
  <2>5. CASE author[p].about = {l}
    <3>1. Turns(p, <<>>, "free", {}, {})
      BY <1>0, <2>1, <2>5, DoneTurns
    <3>2. ScriptInv(p)'
      BY <3>1, ListsInOrder, ShortLists
      DEF Turns, ScriptInv, WritesWell, InOrder, Publishes, MeasuresWell, Measures, LabelsWell,
          CompilesWell
    <3> QED
      BY <1>0, <2>1, <2>4, <3>1, <3>2, ShortLists, ScriptReviews
  <2>6. CASE author[p].about # {l}
    <3>1. Turns(p, <<>>, "judge", author[p].about \ {l}, {})
      BY <1>0, <2>1, <2>6, BecomesTurns
    <3>2. WritesWell(p)'
      BY <2>1, <3>1, ListsInOrder, ShortLists, WritesPlain
    <3>3. Judged(p)
      BY <2>2, <2>3, <2>6
    <3>4. Judged(p)'
      BY <2>1, <3>1, <3>3 DEF Judged, Prepared, Written, Turns
    <3>5. author[p].about \ {l} # {} /\ \A m \in author[p].about \ {l} : IsLabel(m)
      BY <2>2, <2>3, <2>6
    <3>6. ScriptInv(p)'
      BY <3>1, <3>2, <3>4, <3>5
      DEF Turns, ScriptInv, Publishes, MeasuresWell, Measures, LabelsWell, CompilesWell
    <3> QED
      BY <1>0, <2>1, <2>4, <3>1, <3>6, ShortLists, ScriptReviews
  <2> QED
    BY <2>5, <2>6
<1> QED
  BY <1>1, <1>2

(* A review by another person.                                             *)
LEMMA ReviewStep ==
  ASSUME LearningInv, NEW l \in DOMAIN reviews, NEW status \in {"approved", "withdrawn"},
         ReviewAnnotation(l, status)
  PROVE  LearningInv'
<1>1. /\ reviews' = [reviews EXCEPT ![l] = status]
      /\ permitted \subseteq permitted' /\ (status = "approved" => l \in permitted')
      /\ UNCHANGED <<suite, objects, trial, author, printed>>
  BY DEF ReviewAnnotation
<1>2. LearningRows /\ Foundations
  BY DEF LearningInv
<1>3. \A m \in DOMAIN reviews' :
        m \in objects /\ IsLabel(m) /\ (reviews'[m] = "approved" => m \in permitted')
  BY <1>1, <1>2 DEF Foundations
<1>4. \A q \in Authors : ScriptInv(q)' /\ Measures(q)' = Measures(q)
  BY <1>1, OthersStand
<1>5. LearningRows'
  BY <1>1, <1>2 DEF LearningRows
<1>6. Foundations'
  BY <1>1, <1>2, <1>3, PermitsStays DEF Foundations, ReferencesClosed, Prepared
<1> QED
  BY <1>1, <1>4, <1>5, <1>6 DEF LearningInv

(* What a compiler authorizes stands on what the label stands on, and a    *)
(* manifest of it is labelled with those that it was authorized by.        *)
LEMMA AuthorizedRefs ==
  ASSUME ReferencesClosed, NEW l \in objects, IsLabel(l)
  PROVE  Refs(Authorized(l)) \subseteq objects
<1>1. Experience(About(l).task, About(l).arm, {}) \in objects
  BY LabelRefs DEF ReferencesClosed
<1>2. Refs(Experience(About(l).task, About(l).arm, {})) \subseteq objects
  BY <1>1 DEF ReferencesClosed
<1>3. Refs(Authorized(l)) = Refs(Experience(About(l).task, About(l).arm, {}))
  <2>1. Refs(Authorized(l)) =
          {TaskBundle(About(l).task), Receipt(About(l).task, TRUE),
           Event(About(l).task, About(l).arm, "context_built"),
           Event(About(l).task, About(l).arm, "verifier_result")}
    BY ExperienceRefs DEF Authorized
  <2>2. Refs(Experience(About(l).task, About(l).arm, {})) =
          {TaskBundle(About(l).task), Receipt(About(l).task, TRUE),
           Event(About(l).task, About(l).arm, "context_built"),
           Event(About(l).task, About(l).arm, "verifier_result")}
    BY ExperienceRefs
  <2> QED
    BY <2>1, <2>2
<1> QED
  BY <1>2, <1>3

LEMMA ManifestLabels ==
  ASSUME NEW report, NEW labels
  PROVE  LET m == CompileManifest(report, {Authorized(l) : l \in labels}) IN
         Labelled(m) = labels /\ About(m).report = report
<1> DEFINE m == CompileManifest(report, {Authorized(l) : l \in labels})
<1>1. About(m) = [report |-> report, sources |-> {Authorized(l) : l \in labels}]
  BY DEF CompileManifest, About, Object
<1>2. ASSUME NEW l PROVE About(Authorized(l)).labels = {l}
  <2>1. About(Authorized(l)) = [task |-> About(l).task, arm |-> About(l).arm, labels |-> {l}]
    BY DEF Authorized, Experience, About, Object
  <2> QED
    BY <2>1
<1>3. About(m).report = report /\ About(m).sources = {Authorized(l) : l \in labels}
  BY <1>1
<1> HIDE DEF m
<1>4. \A k : k \in Labelled(m) <=> k \in labels
  <2>1. \A k : k \in Labelled(m) <=> \E e \in About(m).sources : k \in About(e).labels
    BY DEF Labelled
  <2>2. \A k : k \in Labelled(m) <=> \E l \in labels : k \in About(Authorized(l)).labels
    BY <1>3, <2>1
  <2> QED
    BY <1>2, <2>2
<1>5. Labelled(m) = labels
  BY <1>4
<1> QED
  BY <1>3, <1>5 DEF m

(* compile_sft_experiences: the annotations are read once before anything  *)
(* is published.                                                           *)
LEMMA ReadingSteps ==
  ASSUME LearningInv, NEW p \in Authors,
         \/ \E r \in printed, labels \in SUBSET DOMAIN reviews : BeginCompile(p, r, labels)
         \/ ReadAnnotation(p) \/ Authorize(p)
  PROVE  LearningInv'
<1>0. /\ LearningRows /\ Foundations /\ ScriptInv(p) /\ printed \subseteq objects
  BY DEF LearningInv, Foundations
<1>1. ASSUME NEW r \in printed, NEW labels \in SUBSET DOMAIN reviews, BeginCompile(p, r, labels)
      PROVE  LearningInv'
  <2> DEFINE about == {r} \cup labels
  <2>1. /\ Kind(r) = "gap_report" /\ Becomes(p, <<>>, "read", about)
        /\ UNCHANGED <<suite, objects, trial, reviews, printed, permitted>>
    BY <1>1 DEF BeginCompile
  <2>2. /\ about \subseteq objects /\ r \in about
        /\ \A l \in about : Kind(l) = "label" => l \in DOMAIN reviews
    BY <1>0, <2>1 DEF Foundations, IsLabel
  <2> HIDE DEF about
  <2>3. Turns(p, <<>>, "read", about, {})
    BY <1>0, <2>1, BecomesTurns
  <2>4. WritesWell(p)'
    BY <2>1, <2>3, ListsInOrder, ShortLists, WritesPlain
  <2>5. CompilesWell(p)'
    BY <2>1, <2>2, <2>3 DEF Turns, CompilesWell, LabelsOf
  <2>6. ScriptInv(p)'
    BY <2>3, <2>4, <2>5 DEF Turns, ScriptInv, Publishes, MeasuresWell, Measures, LabelsWell
  <2> QED
    BY <1>0, <2>1, <2>3, <2>6, ShortLists, ScriptTurns
<1>2. CASE ReadAnnotation(p)
  <2> DEFINE unread == {l \in LabelsOf(p) : \A s \in author[p].seen : s[1] # l}
             l == CHOOSE l \in unread : TRUE
             pc == IF unread = {l} THEN "authorize" ELSE "read"
             seen == author[p].seen \cup {<<l, reviews[l]>>}
  <2>1. /\ author[p].pc = "read" /\ author[p].todo = <<>> /\ l \in unread
        /\ author' = [author EXCEPT ![p].seen = seen, ![p].pc = pc]
        /\ UNCHANGED <<suite, objects, trial, reviews, printed, permitted>>
    BY <1>2 DEF ReadAnnotation, Is
  <2>2. /\ author[p].about \subseteq objects /\ LabelsOf(p) \subseteq DOMAIN reviews
        /\ \E r \in author[p].about : Kind(r) = "gap_report"
        /\ \A s \in author[p].seen :
             s[1] \in DOMAIN reviews /\ (s[2] = "approved" => s[1] \in permitted)
    BY <1>0, <2>1 DEF ScriptInv, CompilesWell
  <2>3. l \in DOMAIN reviews /\ (reviews[l] = "approved" => l \in permitted)
    BY <1>0, <2>1, <2>2 DEF Foundations
  <2>4. pc = "authorize" => \A k \in LabelsOf(p) : \E s \in seen : s[1] = k
    <3>1. SUFFICES ASSUME unread = {l}, NEW k \in LabelsOf(p) PROVE \E s \in seen : s[1] = k
      OBVIOUS
    <3>2. CASE k \in unread
      <4>1. <<l, reviews[l]>> \in seen /\ <<l, reviews[l]>>[1] = k
        BY <3>1, <3>2
      <4> QED
        BY <4>1
    <3>3. CASE k \notin unread
      BY <3>3
    <3> QED
      BY <3>2, <3>3
  <2>5. \A s \in seen : s[1] \in DOMAIN reviews /\ (s[2] = "approved" => s[1] \in permitted)
    <3>1. <<l, reviews[l]>>[1] = l /\ <<l, reviews[l]>>[2] = reviews[l]
      OBVIOUS
    <3> HIDE DEF l
    <3> QED
      BY <2>2, <2>3, <3>1
  <2>6. pc \in {"read", "authorize"}
    OBVIOUS
  <2> HIDE DEF pc, seen, l, unread
  <2>7. Turns(p, <<>>, pc, author[p].about, seen)
    BY <1>0, <2>1 DEF LearningRows, Turns, Fields
  <2>8. WritesWell(p)'
    BY <2>1, <2>7, ListsInOrder, ShortLists, WritesPlain
  <2>9. CompilesWell(p)'
    <3>1. /\ author'[p].pc = pc /\ author'[p].about = author[p].about /\ author'[p].seen = seen
      BY <2>7 DEF Turns
    <3>2. LabelsOf(p)' = LabelsOf(p)
      BY <3>1 DEF LabelsOf
    <3> QED
      BY <2>1, <2>2, <2>4, <2>5, <2>6, <3>1, <3>2 DEF CompilesWell
  <2>10. ScriptInv(p)'
    BY <2>6, <2>7, <2>8, <2>9 DEF Turns, ScriptInv, Publishes, MeasuresWell, Measures, LabelsWell
  <2> QED
    BY <1>0, <2>1, <2>6, <2>7, <2>10, ShortLists, ScriptTurns
<1>3. CASE Authorize(p)
  <2> DEFINE s == CHOOSE s \in author[p].seen : TRUE
             left == author[p].seen \ {s}
  <2>1. /\ author[p].pc = "authorize" /\ author[p].todo = <<>> /\ s \in author[p].seen
        /\ \/ s[2] = "approved" /\ author' = [author EXCEPT ![p].todo = <<Authorized(s[1])>>,
                                                              ![p].seen = left]
           \/ Done(p)
        /\ UNCHANGED <<suite, objects, trial, reviews, printed, permitted>>
    BY <1>3 DEF Authorize, Is
  <2> HIDE DEF s
  <2>2. CASE Done(p)
    BY <1>0, <2>1, <2>2, Ends
  <2>3. CASE s[2] = "approved" /\ author' = [author EXCEPT ![p].todo = <<Authorized(s[1])>>,
                                                             ![p].seen = left]
    <3> DEFINE e == Authorized(s[1])
    <3>1. /\ author[p].about \subseteq objects /\ LabelsOf(p) \subseteq DOMAIN reviews
          /\ \E r \in author[p].about : Kind(r) = "gap_report"
          /\ \A x \in author[p].seen :
               x[1] \in DOMAIN reviews /\ (x[2] = "approved" => x[1] \in permitted)
          /\ \A l \in LabelsOf(p) : l \in permitted \/ \E x \in author[p].seen : x[1] = l
      BY <1>0, <2>1 DEF ScriptInv, CompilesWell
    <3>2. Refs(e) \subseteq objects /\ ~IsManifest(e)
      <4>1. s[1] \in objects /\ IsLabel(s[1])
        BY <1>0, <2>1, <3>1 DEF Foundations
      <4>2. Refs(e) \subseteq objects
        BY <1>0, <4>1, AuthorizedRefs DEF Foundations
      <4>3. ~IsManifest(e)
        BY NoManifests DEF Authorized
      <4> QED
        BY <4>2, <4>3
    <3> HIDE DEF e
    <3>3. \A l \in LabelsOf(p) : l \in permitted \/ \E x \in left : x[1] = l
      BY <2>1, <2>3, <3>1
    <3>4. /\ InOrder(<<e>>) /\ IsSequence(<<e>>) /\ \A o \in Range(<<e>>) : ~IsManifest(o)
      BY <3>2, ListsInOrder, ShortLists
    <3>5. Turns(p, <<e>>, "authorize", author[p].about, left)
      BY <1>0, <2>1, <2>3 DEF LearningRows, Turns, Fields, e
    <3> HIDE DEF left
    <3>6. WritesWell(p)'
      BY <2>1, <3>4, <3>5, WritesPlain
    <3>7. CompilesWell(p)'
      <4>1. /\ author'[p].pc = "authorize" /\ author'[p].about = author[p].about
            /\ author'[p].seen = left
        BY <3>5 DEF Turns
      <4>2. LabelsOf(p)' = LabelsOf(p)
        BY <4>1 DEF LabelsOf
      <4> QED
        BY <2>1, <3>1, <3>3, <4>1, <4>2 DEF CompilesWell, left
    <3>8. ScriptInv(p)'
      BY <3>5, <3>6, <3>7 DEF Turns, ScriptInv, Publishes, MeasuresWell, Measures, LabelsWell
    <3> QED
      BY <1>0, <2>1, <3>4, <3>5, <3>8, ScriptTurns
  <2> QED
    BY <2>1, <2>2, <2>3
<1> QED
  BY <1>1, <1>2, <1>3

(* The dataset and its manifest, or the decision not to train.             *)
LEMMA CompileStep ==
  ASSUME LearningInv, NEW p \in Authors, Compile(p)
  PROVE  LearningInv'
<1>0. /\ LearningRows /\ Foundations /\ ScriptInv(p) /\ printed \subseteq objects
  BY DEF LearningInv, Foundations
<1> DEFINE report == ReportOf(p)
           labels == LabelsOf(p)
           eligible == {l \in labels : Eligible(report, l)}
           result == Compiled(report, labels)
           sources == {Authorized(l) : l \in eligible}
           others == {Authorized(l) : l \in labels}
<1>a. /\ author[p].pc = "authorize" /\ author[p].todo = <<>> /\ author[p].seen = {}
      /\ IF AuthorizedVerify(p)
         THEN IF Kind(result) = "compile_manifest"
              THEN Becomes(p, <<Dataset(About(result).sources), result>>, "snapshot", {result})
              ELSE Becomes(p, <<result>>, "compiled", {result})
         ELSE Done(p)
      /\ UNCHANGED <<suite, objects, trial, reviews, printed, permitted>>
  BY DEF Compile, Is
<1>b. labels \ {s[1] : s \in author[p].seen} = labels
  BY <1>a
<1>c. AuthorizedVerify(p) <=> \A l \in labels : ExperienceVerifies(Authorized(l))
  BY <1>b DEF AuthorizedVerify
<1>1. /\ author[p].pc = "authorize" /\ author[p].todo = <<>> /\ author[p].seen = {}
      /\ IF \A l \in labels : ExperienceVerifies(Authorized(l))
         THEN IF Kind(result) = "compile_manifest"
              THEN Becomes(p, <<Dataset(About(result).sources), result>>, "snapshot", {result})
              ELSE Becomes(p, <<result>>, "compiled", {result})
         ELSE Done(p)
      /\ UNCHANGED <<suite, objects, trial, reviews, printed, permitted>>
  <2> HIDE DEF result, labels
  <2> QED
    BY <1>a, <1>c
<1>2. /\ author[p].about \subseteq objects /\ \E r \in author[p].about : Kind(r) = "gap_report"
      /\ \A l \in labels : l \in permitted
  BY <1>0, <1>1 DEF ScriptInv, CompilesWell
<1>3. report \in objects
  BY <1>2 DEF ReportOf
<1>4. result = IF Balanced(eligible) THEN CompileManifest(report, sources)
                                     ELSE CompileDecision(report, others)
  BY DEF Compiled
<1>5. \A l \in eligible : /\ l \in labels /\ suite[About(l).task].split # "evaluation_holdout"
                          /\ About(report)[2][About(l).task, "base"] = "failed"
  BY DEF Eligible, Trainable
<1>6. CASE ~ \A l \in labels : ExperienceVerifies(Authorized(l))
  BY <1>0, <1>1, <1>6, Ends
<1>7. CASE \A l \in labels : ExperienceVerifies(Authorized(l))
  <2>1. \A l \in labels : Authorized(l) \in objects
    BY <1>7 DEF ExperienceVerifies, Resolves
  <2>2. sources \subseteq objects /\ others \subseteq objects
    BY <1>5, <2>1
  <2>3. CASE Balanced(eligible)
    <3> DEFINE m == CompileManifest(report, sources)
               todo == <<Dataset(sources), m>>
    <3>1. Kind(m) = "compile_manifest" /\ About(m).sources = sources
      <4>1. Kind(m) = "compile_manifest" /\ About(m) = [report |-> report, sources |-> sources]
        BY DEF CompileManifest, Kind, About, Object
      <4> QED
        BY <4>1
    <3>2. Labelled(m) = eligible /\ About(m).report = report
      <4> HIDE DEF eligible
      <4> QED
        BY ManifestLabels
    <3>3. Refs(m) = {report, Dataset(sources)} \cup sources
      BY CompileRefs
    <3>4. Becomes(p, todo, "snapshot", {m})
      BY <1>1, <1>4, <1>7, <2>3, <3>1
    <3>5. ~IsManifest(Dataset(sources)) /\ Refs(Dataset(sources)) = {}
      BY NoManifests, LeafRefs
    <3> HIDE DEF m, sources, eligible, report, labels
    <3>6. Permits(m)
      BY <1>2, <1>5, <2>3, <3>2 DEF Permits
    <3>7. /\ InOrder(todo) /\ IsSequence(todo) /\ Range(todo) = {Dataset(sources), m}
      BY <1>3, <2>2, <3>3, <3>5, ListsInOrder, ShortLists
    <3> HIDE DEF todo
    <3>8. Turns(p, todo, "snapshot", {m}, {})
      BY <1>0, <3>4, BecomesTurns
    <3>9. \A o \in Range(todo) : IsManifest(o) => Permits(o)'
      BY <1>1, <3>5, <3>6, <3>7, PermitsStays
    <3>10. WritesWell(p)'
      BY <1>1, <3>7, <3>8, <3>9 DEF Turns, WritesWell, InOrder
    <3>11. CompilesWell(p)'
      BY <3>7, <3>8 DEF Turns, CompilesWell, Written
    <3>12. ScriptInv(p)'
      BY <3>8, <3>10, <3>11 DEF Turns, ScriptInv, Publishes, MeasuresWell, Measures, LabelsWell
    <3> QED
      BY <1>0, <1>1, <3>7, <3>8, <3>12, ScriptTurns
  <2>4. CASE ~Balanced(eligible)
    <3> DEFINE d == CompileDecision(report, others)
    <3>1. Kind(d) # "compile_manifest"
      BY DEF CompileDecision, Kind, Object
    <3>2. Refs(d) = {report} \cup others
      BY CompileRefs
    <3>3. Becomes(p, <<d>>, "compiled", {d})
      BY <1>1, <1>4, <1>7, <2>4, <3>1
    <3>4. ~IsManifest(d)
      BY <3>1 DEF IsManifest
    <3> HIDE DEF d, others, report
    <3>5. /\ InOrder(<<d>>) /\ IsSequence(<<d>>) /\ Range(<<d>>) = {d}
      BY <1>3, <2>2, <3>2, ListsInOrder, ShortLists
    <3>6. Turns(p, <<d>>, "compiled", {d}, {})
      BY <1>0, <3>3, BecomesTurns
    <3>7. WritesWell(p)'
      BY <1>1, <3>4, <3>5, <3>6, WritesPlain
    <3>8. CompilesWell(p)'
      BY <3>5, <3>6 DEF Turns, CompilesWell, Written
    <3>9. ScriptInv(p)'
      BY <3>6, <3>7, <3>8 DEF Turns, ScriptInv, Publishes, MeasuresWell, Measures, LabelsWell
    <3> QED
      BY <1>0, <1>1, <3>5, <3>6, <3>9, ScriptTurns
  <2> QED
    BY <2>3, <2>4
<1> QED
  BY <1>6, <1>7

LEMMA CompiledSteps ==
  ASSUME LearningInv, NEW p \in Authors, CreateSnapshot(p) \/ CompilationPublished(p)
  PROVE  LearningInv'
<1>0. /\ LearningRows /\ Foundations /\ ScriptInv(p) /\ printed \subseteq objects
  BY DEF LearningInv, Foundations
<1>1. author[p].todo = <<>> /\ author[p].about \subseteq objects
  BY <1>0, ShortLists DEF CreateSnapshot, CompilationPublished, Is, ScriptInv, CompilesWell, Written
<1>2. CASE CreateSnapshot(p)
  <2>1. PICK m \in author[p].about :
          /\ Becomes(p, <<>>, "compiled", {m}) \/ Done(p)
          /\ UNCHANGED <<suite, objects, trial, reviews, printed, permitted>>
    BY <1>2 DEF CreateSnapshot
  <2>2. CASE Done(p)
    BY <1>0, <2>1, <2>2, Ends
  <2>3. CASE Becomes(p, <<>>, "compiled", {m})
    <3>1. Turns(p, <<>>, "compiled", {m}, {})
      BY <1>0, <2>3, BecomesTurns
    <3>2. WritesWell(p)'
      BY <2>1, <3>1, ListsInOrder, ShortLists, WritesPlain
    <3>3. CompilesWell(p)'
      BY <1>1, <2>1, <3>1 DEF Turns, CompilesWell, Written
    <3>4. ScriptInv(p)'
      BY <3>1, <3>2, <3>3 DEF Turns, ScriptInv, Publishes, MeasuresWell, Measures, LabelsWell
    <3> QED
      BY <1>0, <2>1, <3>1, <3>4, ShortLists, ScriptTurns
  <2> QED
    BY <2>1, <2>2, <2>3
<1>3. CASE CompilationPublished(p)
  <2>1. PICK o \in author[p].about :
          Finish(p, o, IF Kind(o) = "compile_manifest" THEN ManifestVerifies(o) ELSE DecisionVerifies(o))
    BY <1>3 DEF CompilationPublished
  <2>2. o \in objects
    BY <1>1
  <2> QED
    BY <2>1, <2>2, FinishEnds
<1> QED
  BY <1>2, <1>3

(* The decisions: each is an object that names what was printed.           *)
LEMMA DecidingSteps ==
  ASSUME LearningInv, NEW p \in Authors,
         \/ \E source, report \in printed :
              DecideModelMigration(p, source, report) \/ DecideGapAB(p, source, report)
         \/ \E o \in printed : DecideDpoGate(p, o) \/ DecideRlGate(p, o)
         \/ DecisionPublished(p)
  PROVE  LearningInv'
<1>0. printed \subseteq objects
  BY DEF LearningInv, Foundations
<1>1. ASSUME NEW o, Decide(p, o), Refs(o) \subseteq objects, ~IsManifest(o) PROVE LearningInv'
  <2>1. /\ InOrder(<<o>>) /\ IsSequence(<<o>>) /\ \A x \in Range(<<o>>) : ~IsManifest(x)
        /\ {o} \subseteq Range(<<o>>)
    BY <1>1, ListsInOrder, ShortLists
  <2>2. /\ Becomes(p, <<o>>, "decided", {o})
        /\ UNCHANGED <<suite, objects, trial, reviews, printed, permitted>>
    BY <1>1 DEF Decide
  <2> QED
    BY <2>1, <2>2, Writes
<1>2. ASSUME NEW source \in printed, NEW report \in printed, DecideMigration(p, source, report)
      PROVE  LearningInv'
  <2>1. PICK decision : Decide(p, MigrationReport(source, report, decision))
    BY <1>2 DEF DecideMigration
  <2> DEFINE o == MigrationReport(source, report, decision)
  <2>2. Refs(o) = {source, report} /\ ~IsManifest(o)
    BY DecisionRefs, NoManifests
  <2>3. Decide(p, o)
    BY <2>1
  <2> HIDE DEF o
  <2> QED
    BY <1>0, <1>1, <2>2, <2>3
<1>3. ASSUME NEW o \in printed, Decide(p, DpoGate(o)) \/ Decide(p, RlGate(o)) PROVE LearningInv'
  <2>1. /\ Refs(DpoGate(o)) = {o} /\ Refs(RlGate(o)) = {o}
        /\ ~IsManifest(DpoGate(o)) /\ ~IsManifest(RlGate(o))
    BY DecisionRefs, NoManifests
  <2> QED
    BY <1>0, <1>1, <1>3, <2>1
<1>4. CASE DecisionPublished(p)
  <2>1. PICK o \in author[p].about :
          /\ author[p].pc = "decided" /\ author[p].todo = <<>>
          /\ Finish(p, o, CASE Kind(o) = "migration_report" -> MigrationVerifies(o)
                            [] Kind(o) = "dpo_gate" -> DpoGateVerifies(o)
                            [] Kind(o) = "rl_gate" -> RlGateVerifies(o))
    BY <1>4 DEF DecisionPublished, Is
  <2>2. o \in objects
    BY <2>1, ShortLists DEF LearningInv, ScriptInv, CompilesWell, Written
  <2> DEFINE passed == CASE Kind(o) = "migration_report" -> MigrationVerifies(o)
                         [] Kind(o) = "dpo_gate" -> DpoGateVerifies(o)
                         [] Kind(o) = "rl_gate" -> RlGateVerifies(o)
  <2>3. Finish(p, o, passed)
    BY <2>1
  <2> HIDE DEF passed
  <2> QED
    BY <2>2, <2>3, FinishEnds
<1> QED
  BY <1>2, <1>3, <1>4 DEF DecideModelMigration, DecideGapAB, DecideDpoGate, DecideRlGate

(* One step of a script.                                                   *)
LEMMA AuthorSteps ==
  ASSUME LearningInv, NEW p \in Authors, AuthorStep(p) \/ ScriptFails(p)
  PROVE  LearningInv'
<1>1. CASE PutImmutable(p)
  BY <1>1, PutsInOrder
<1>2. CASE \/ PublishSuite(p) \/ PublishBundle(p) \/ CheckEnvironment(p) \/ PublishReceipt(p)
           \/ SuitePublished(p)
  BY <1>2, PublishingSteps
<1>3. CASE \/ \E c \in Campaigns : BeginRerollout(p, c)
           \/ MeasureTrial(p) \/ BuildGapReport(p) \/ GapReported(p)
  BY <1>3, MeasuringSteps
<1>4. CASE FinishTrial(p)
  BY <1>4, TrialFinishes
<1>5. CASE \/ \E t \in Tasks, g \in Arms :
                PublishExperience(p, t, g) \/ WriteLabel(p, t, g) \/ BridgeFeedback(p, t, g)
           \/ ExperiencePublished(p)
           \/ \E r \in printed : JudgeGap(p, r)
           \/ JudgeNext(p)
  BY <1>5, LabellingSteps
<1>6. CASE CreateAnnotation(p) \/ ApproveAnnotation(p)
  BY <1>6, AnnotatingSteps
<1>7. CASE \/ \E r \in printed, labels \in SUBSET DOMAIN reviews : BeginCompile(p, r, labels)
           \/ ReadAnnotation(p) \/ Authorize(p)
  BY <1>7, ReadingSteps
<1>8. CASE Compile(p)
  BY <1>8, CompileStep
<1>9. CASE CreateSnapshot(p) \/ CompilationPublished(p)
  BY <1>9, CompiledSteps
<1>10. CASE \/ \E source, report \in printed :
                 DecideModelMigration(p, source, report) \/ DecideGapAB(p, source, report)
            \/ \E o \in printed : DecideDpoGate(p, o) \/ DecideRlGate(p, o)
            \/ DecisionPublished(p)
  BY <1>10, DecidingSteps
<1>11. CASE ScriptFails(p)
  <2>1. /\ Done(p) /\ printed' \subseteq objects
        /\ UNCHANGED <<suite, objects, trial, reviews, permitted>>
    BY <1>11 DEF ScriptFails, LearningInv, Foundations
  <2> QED
    BY <2>1, Ends
<1> QED
  BY <1>1, <1>2, <1>3, <1>4, <1>5, <1>6, <1>7, <1>8, <1>9, <1>10, <1>11 DEF AuthorStep

LEMMA InitLearning == Init => LearningInv
<1> SUFFICES ASSUME LearningInit PROVE LearningInv
  <2>1. Init => LearningInit
    BY DEF Init
  <2> QED
    BY <2>1
<1>1. /\ suite \in Suites /\ objects = {} /\ printed = {} /\ DOMAIN reviews = {}
      /\ trial = [c \in Campaigns |-> [x \in Tasks \X Arms |-> "queued"]]
      /\ author = [p \in Authors |-> Free]
  BY DEF LearningInit
<1>2. /\ DOMAIN author = Authors
      /\ \A p \in Authors : /\ author[p].todo = <<>> /\ author[p].pc = "free"
                            /\ author[p].about = {} /\ author[p].seen = {}
                            /\ DOMAIN author[p] = Fields
  BY <1>1 DEF Free, Fields
<1>3. LearningRows
  BY <1>1, <1>2, ShortLists DEF LearningRows
<1>4. Foundations
  BY <1>1 DEF Foundations, ReferencesClosed
<1>5. ASSUME NEW p \in Authors PROVE ScriptInv(p) /\ ~Measures(p)
  BY <1>2, ListsInOrder, ShortLists
  DEF ScriptInv, WritesWell, Publishes, MeasuresWell, Measures, LabelsWell, CompilesWell
<1> QED
  BY <1>3, <1>4, <1>5 DEF LearningInv

LEMMA LearningLeftAlone == LearningInv /\ UNCHANGED learningVars => LearningInv'
<1> SUFFICES ASSUME LearningInv, UNCHANGED learningVars PROVE LearningInv'
  OBVIOUS
<1>1. UNCHANGED <<suite, objects, trial, reviews, author, printed, permitted>>
  BY DEF learningVars
<1>2. \A q \in Authors : ScriptInv(q)' /\ Measures(q)' = Measures(q)
  BY <1>1, OthersStand
<1>3. LearningRows'
  BY <1>1 DEF LearningInv, LearningRows
<1>4. Foundations'
  BY <1>1, PermitsStays DEF LearningInv, Foundations, ReferencesClosed, Prepared
<1> QED
  BY <1>1, <1>2, <1>3, <1>4 DEF LearningInv

LEMMA StepLearning == LearningInv /\ [Next]_serviceVars => LearningInv'
<1> SUFFICES ASSUME LearningInv, [Next]_serviceVars PROVE LearningInv'
  OBVIOUS
<1>1. CASE UNCHANGED learningVars
  BY <1>1, LearningLeftAlone
<1>2. CASE LearningStep
  BY <1>2, AuthorSteps, ReviewStep DEF LearningStep
<1> QED
  BY <1>1, <1>2 DEF Next, serviceVars, DuringAttempt, DuringTrain, DuringServe, DuringGit, DuringLearn

(* LearningIsGrounded: whatever scripts ran side by side and wherever one  *)
(* died, what an object of the bucket names is there, and a compile        *)
(* manifest has only tasks that the model failed and that are not held     *)
(* out, each once, under a label that was approved.                        *)
THEOREM LearningGrounded == Spec => []LearningIsGrounded
<1>1. LearningInv => LearningIsGrounded
  BY DEF LearningInv, Foundations, LearningIsGrounded, CompiledIsPermitted, Permits, Labelled, IsManifest
<1> QED
  BY <1>1, InitLearning, StepLearning, PTL DEF Spec

---------------------------------------------------------------------------
(* The types of all parts. Of the attempts: at most one is active, because *)
(* one is created only when there is none, and every other write of a      *)
(* state that may make one active is held to the index.                    *)

AttemptRow == [state : States \cup {"absent"}, owner : Scripts \cup {Gone, Nobody},
               lapsed : BOOLEAN, config : Configs \cup {"none", Outdated},
               snap : BOOLEAN, release : BOOLEAN]
Underway == {"acquire", "running", "snapshot", "approval", "prepare", "base", "wait", "raise"}
ScriptRow == [pc : Underway \cup {"idle", "load"}, resume : BOOLEAN,
              attempt : Attempts \cup {"none"}, config : Configs \cup {"none", Outdated}]

Actives(rows) == {t \in Attempts : rows[t].state \notin Terminal}
AtMostOne(S) == IsFiniteSet(S) /\ Cardinality(S) <= 1

(* What a script has to know of its attempt.                               *)
Knows(row) == row.pc \in Underway \/ row.resume => row.attempt \in Attempts

AttemptRows(rows) == rows \in [Attempts -> AttemptRow] /\ AtMostOne(Actives(rows))

AttemptInv ==
  /\ AttemptRows(attempt)
  /\ script \in [Scripts -> ScriptRow]
  /\ \A s \in Scripts : Knows(script[s])

LEMMA FewerActive ==
  ASSUME NEW S, AtMostOne(S), NEW T \in SUBSET S
  PROVE  AtMostOne(T)
<1>1. IsFiniteSet(T) /\ Cardinality(T) <= Cardinality(S)
  BY FS_Subset DEF AtMostOne
<1>2. Cardinality(S) \in Nat /\ Cardinality(T) \in Nat
  BY <1>1, FS_CardinalityType DEF AtMostOne
<1> QED
  BY <1>1, <1>2 DEF AtMostOne

LEMMA OneActive == \A x : AtMostOne({x})
<1> SUFFICES ASSUME NEW x PROVE AtMostOne({x})
  OBVIOUS
<1>1. IsFiniteSet({x}) /\ Cardinality({x}) = 1
  BY FS_Singleton
<1> QED
  BY <1>1 DEF AtMostOne

LEMMA InitAttempt == AttemptInit => AttemptInv
<1> SUFFICES ASSUME AttemptInit PROVE AttemptInv
  OBVIOUS
<1>1. PICK old \in Inherited \cup {Absent} :
        attempt = [t \in Attempts |-> IF t = Oldest THEN old ELSE Absent]
  BY DEF AttemptInit
<1>2. old \in AttemptRow /\ Absent \in AttemptRow
  <2>1. Absent \in AttemptRow
    BY DEF Absent, AttemptRow
  <2>2. old \in AttemptRow
    BY <1>1, <2>1 DEF AttemptRow, Inherited
  <2> QED
    BY <2>1, <2>2
<1>3. attempt \in [Attempts -> AttemptRow]
  BY <1>1, <1>2
<1>4. Actives(attempt) \subseteq {Oldest}
  BY <1>1 DEF Actives, Absent, Terminal
<1>5. AtMostOne({Oldest})
  BY OneActive
<1>6. AtMostOne(Actives(attempt))
  BY <1>4, <1>5, FewerActive
<1>7. Waiting \in ScriptRow /\ Knows(Waiting) /\ script = [s \in Scripts |-> Waiting]
  BY DEF AttemptInit, Waiting, ScriptRow, Knows, Underway
<1> QED
  BY <1>1, <1>3, <1>6, <1>7 DEF AttemptInv, AttemptRows

(* A script takes a step that leaves good rows.                            *)
LEMMA ScriptMoves ==
  ASSUME AttemptInv, NEW s \in Scripts, NEW row \in ScriptRow, Knows(row),
         script' = [script EXCEPT ![s] = row], AttemptRows(attempt')
  PROVE  AttemptInv'
<1>1. script' \in [Scripts -> ScriptRow] /\ \A q \in Scripts : Knows(script'[q])
  BY DEF AttemptInv
<1> QED
  BY <1>1 DEF AttemptInv, AttemptRows, AttemptRow, Actives, Knows, ScriptRow

LEMMA ScriptGoesOn ==
  ASSUME AttemptInv, NEW s \in Scripts, script[s].pc \in Underway, NEW pc \in Underway,
         GoOn(s, pc), AttemptRows(attempt')
  PROVE  AttemptInv'
<1> DEFINE row == [script[s] EXCEPT !.pc = pc]
<1>1. script' = [script EXCEPT ![s] = row] /\ script[s] \in ScriptRow /\ Knows(script[s])
  BY DEF GoOn, AttemptInv
<1>2. row \in ScriptRow /\ Knows(row)
  BY <1>1 DEF ScriptRow, Knows
<1> HIDE DEF row
<1> QED
  BY <1>1, <1>2, ScriptMoves

(* A process that ends leaves the states of the attempts.                  *)
LEMMA ScriptEnds ==
  ASSUME AttemptInv, NEW s \in Scripts, NEW rows, AttemptRows(rows), End(s, rows)
  PROVE  AttemptInv'
<1>1. /\ attempt' = Ended(s, rows) /\ script' = [script EXCEPT ![s] = Waiting]
      /\ rows \in [Attempts -> AttemptRow]
  BY DEF End, AttemptRows
<1>2. \A t \in Attempts :
        LET row == [rows[t] EXCEPT !.owner = IF @ = s THEN Gone ELSE @]
        IN  row \in AttemptRow /\ row.state = rows[t].state
  BY <1>1 DEF AttemptRow
<1>3. Ended(s, rows) \in [Attempts -> AttemptRow]
      /\ \A t \in Attempts : Ended(s, rows)[t].state = rows[t].state
  BY <1>2 DEF Ended
<1>4. Actives(attempt') = Actives(rows)
  BY <1>1, <1>3 DEF Actives
<1>5. AttemptRows(attempt')
  BY <1>1, <1>3, <1>4 DEF AttemptRows
<1>6. Waiting \in ScriptRow /\ Knows(Waiting)
  BY DEF Waiting, ScriptRow, Knows, Underway
<1> QED
  BY <1>1, <1>5, <1>6, ScriptMoves

(* What a mark does to the active attempts.                                *)
LEMMA Marked ==
  ASSUME AttemptInv, NEW t \in Attempts, NEW state \in States
  PROVE  /\ Mark(t, state) \in [Attempts -> AttemptRow]
         /\ state \in Terminal => AttemptRows(Mark(t, state))
         /\ IndexHolds(Mark(t, state)) => AttemptRows(Mark(t, state))
<1> DEFINE marked == [attempt[t] EXCEPT !.state = state]
           row == IF state \in Terminal
                  THEN [marked EXCEPT !.owner = Nobody, !.lapsed = FALSE]
                  ELSE marked
<1>1. attempt \in [Attempts -> AttemptRow] /\ AtMostOne(Actives(attempt))
  BY DEF AttemptInv, AttemptRows
<1>2. Mark(t, state) = [attempt EXCEPT ![t] = row]
  BY DEF Mark
<1>3. row \in AttemptRow /\ row.state = state
  <2>1. attempt[t] \in AttemptRow
    BY <1>1
  <2> QED
    BY <2>1 DEF AttemptRow
<1> HIDE DEF row
<1>4. /\ Mark(t, state) \in [Attempts -> AttemptRow]
      /\ Mark(t, state)[t].state = state
      /\ \A u \in Attempts \ {t} : Mark(t, state)[u] = attempt[u]
  BY <1>1, <1>2, <1>3
<1>5. ASSUME state \in Terminal PROVE AttemptRows(Mark(t, state))
  <2>1. Actives(Mark(t, state)) \subseteq Actives(attempt)
    BY <1>4, <1>5 DEF Actives
  <2> QED
    BY <1>1, <1>4, <2>1, FewerActive DEF AttemptRows
<1>6. ASSUME IndexHolds(Mark(t, state)) PROVE AttemptRows(Mark(t, state))
  <2>1. Actives(Mark(t, state)) \subseteq Actives(attempt) \cup {t}
    BY <1>4 DEF Actives
  <2>2. IsFiniteSet(Actives(attempt) \cup {t})
    BY <1>1, FS_AddElement DEF AtMostOne
  <2>3. IsFiniteSet(Actives(Mark(t, state)))
    BY <2>1, <2>2, FS_Subset
  <2>4. Cardinality(Actives(Mark(t, state))) <= 1
    BY <1>6 DEF IndexHolds, Actives
  <2> QED
    BY <1>4, <2>3, <2>4 DEF AttemptRows, AtMostOne
<1> QED
  BY <1>4, <1>5, <1>6

(* A row whose state stays.                                                *)
LEMMA OtherOwner ==
  ASSUME AttemptRows(attempt), NEW t \in Attempts, NEW row \in AttemptRow, row.state = attempt[t].state,
         attempt' = [attempt EXCEPT ![t] = row]
  PROVE  AttemptRows(attempt')
<1>1. attempt' \in [Attempts -> AttemptRow]
      /\ \A u \in Attempts : attempt'[u].state = attempt[u].state
  BY DEF AttemptRows
<1>2. Actives(attempt') = Actives(attempt)
  BY <1>1 DEF Actives
<1> QED
  BY <1>1, <1>2 DEF AttemptRows

LEMMA StepAttempt == AttemptInv /\ AttemptStep => AttemptInv'
<1> SUFFICES ASSUME AttemptInv, AttemptStep PROVE AttemptInv'
  OBVIOUS
<1>0. /\ AttemptRows(attempt) /\ attempt \in [Attempts -> AttemptRow]
      /\ script \in [Scripts -> ScriptRow] /\ \A s \in Scripts : Knows(script[s])
  BY DEF AttemptInv, AttemptRows
<1>a. Today \in Configs
  BY AttemptAssumption DEF Today
<1>1. ASSUME NEW s \in Scripts, Start(s) PROVE AttemptInv'
  <2>1. PICK named \in Attempts \cup {"none"} :
          script' = [script EXCEPT ![s] = [pc |-> "load", resume |-> FALSE, attempt |-> named,
                                           config |-> Today]]
    BY <1>1 DEF Start
  <2> DEFINE row == [pc |-> "load", resume |-> FALSE, attempt |-> named, config |-> Today]
  <2>2. row \in ScriptRow /\ Knows(row)
    BY <1>a DEF ScriptRow, Knows, Underway
  <2>3. script' = [script EXCEPT ![s] = row] /\ attempt' = attempt
    BY <1>1, <2>1 DEF Start
  <2> HIDE DEF row
  <2> QED
    BY <1>0, <2>2, <2>3, ScriptMoves
<1>2. ASSUME NEW s \in Scripts, NEW t \in Attempts, Resume(s, t) PROVE AttemptInv'
  <2> DEFINE row == [pc |-> "load", resume |-> TRUE, attempt |-> t,
                     config |-> IF attempt[t].config = Outdated THEN Today ELSE attempt[t].config]
  <2>1. row \in ScriptRow /\ Knows(row)
    BY <1>0, <1>a DEF ScriptRow, Knows, Underway, AttemptRow
  <2>2. script' = [script EXCEPT ![s] = row] /\ attempt' = attempt
    BY <1>2 DEF Resume
  <2> HIDE DEF row
  <2> QED
    BY <1>0, <2>1, <2>2, ScriptMoves
<1>3. ASSUME NEW s \in Scripts, AnnotationRefused(s) \/ ScriptDies(s) PROVE AttemptInv'
  BY <1>0, <1>3, ScriptEnds DEF AnnotationRefused, ScriptDies
<1>4. ASSUME NEW s \in Scripts, CreateOrLoad(s) PROVE AttemptInv'
  <2> DEFINE named == script[s].attempt
             found == IF named # "none" THEN {named} ELSE {t \in Attempts : IsActive(t)}
             took(t) == [script[s] EXCEPT !.pc = "acquire", !.attempt = t]
  <2>1. \A t \in Attempts : took(t) \in ScriptRow /\ Knows(took(t))
    <3>1. script[s] \in ScriptRow
      BY <1>0
    <3> QED
      BY <3>1 DEF ScriptRow, Knows, Underway
  <2>2. found \subseteq Attempts
    BY <1>0 DEF ScriptRow
  <2>3. Waiting \in ScriptRow /\ Knows(Waiting)
    BY DEF Waiting, ScriptRow, Knows, Underway
  <2>4. \/ \E t \in found :
             /\ \/ script' = [script EXCEPT ![s] = took(t)]
                \/ script' = [script EXCEPT ![s] = Waiting]
             /\ UNCHANGED attempt
        \/ /\ found = {}
           /\ \E t \in Attempts :
                /\ attempt' = [attempt EXCEPT ![t] =
                     [Absent EXCEPT !.state = "candidate", !.config = script[s].config]]
                /\ script' = [script EXCEPT ![s] = took(t)]
    BY <1>0, <1>4 DEF CreateOrLoad
  <2> HIDE DEF took
  <2>5. ASSUME NEW t \in found, UNCHANGED attempt,
               \/ script' = [script EXCEPT ![s] = took(t)]
               \/ script' = [script EXCEPT ![s] = Waiting]
        PROVE  AttemptInv'
    <3>1. AttemptRows(attempt') /\ t \in Attempts
      BY <1>0, <2>2, <2>5
    <3> QED
      BY <2>1, <2>3, <2>5, <3>1, ScriptMoves
  <2>6. ASSUME found = {}, NEW t \in Attempts, script' = [script EXCEPT ![s] = took(t)],
               attempt' = [attempt EXCEPT ![t] =
                 [Absent EXCEPT !.state = "candidate", !.config = script[s].config]]
        PROVE  AttemptInv'
    <3> DEFINE row == [Absent EXCEPT !.state = "candidate", !.config = script[s].config]
    <3>1. row \in AttemptRow
      BY <1>0 DEF Absent, AttemptRow, States, ScriptRow
    <3> HIDE DEF row
    <3>2. attempt' = [attempt EXCEPT ![t] = row]
      BY <2>6 DEF row
    <3>3. \A u \in Attempts : attempt[u].state \in Terminal
      BY <2>6 DEF IsActive
    <3>4. Actives(attempt') \subseteq {t}
      BY <1>0, <3>2, <3>3 DEF Actives
    <3>5. AtMostOne(Actives(attempt'))
      BY <3>4, OneActive, FewerActive
    <3>6. AttemptRows(attempt')
      BY <1>0, <3>1, <3>2, <3>5 DEF AttemptRows
    <3> QED
      BY <2>1, <2>6, <3>6, ScriptMoves
  <2> QED
    BY <2>4, <2>5, <2>6
<1>5. ASSUME NEW s \in Scripts, AcquireAttempt(s) PROVE AttemptInv'
  <2> DEFINE t == script[s].attempt
             row == [attempt[t] EXCEPT !.owner = s, !.lapsed = FALSE]
  <2>1. script[s].pc = "acquire" /\ t \in Attempts
    BY <1>0, <1>5 DEF AcquireAttempt, Doing, Knows, Underway
  <2>2. CASE MayAcquire(s, t)
    <3>1. attempt' = [attempt EXCEPT ![t] = row] /\ GoOn(s, "running")
      BY <1>0, <1>5, <2>1, <2>2 DEF AcquireAttempt
    <3>2. row \in AttemptRow /\ row.state = attempt[t].state
      <4>1. attempt[t] \in AttemptRow
        BY <1>0, <2>1
      <4> QED
        BY <4>1 DEF AttemptRow
    <3> HIDE DEF row, t
    <3>3. AttemptRows(attempt')
      BY <1>0, <2>1, <3>1, <3>2, OtherOwner
    <3> QED
      BY <2>1, <3>1, <3>3, ScriptGoesOn DEF Underway
  <2>3. CASE ~MayAcquire(s, t)
    <3>1. End(s, attempt)
      BY <1>5, <2>3 DEF AcquireAttempt
    <3> QED
      BY <1>0, <3>1, ScriptEnds
  <2> QED
    BY <2>2, <2>3
<1>6. ASSUME NEW s \in Scripts, MarkRunning(s) PROVE AttemptInv'
  <2> DEFINE rows == Mark(script[s].attempt, "running")
  <2>1. script[s].pc = "running" /\ script[s].attempt \in Attempts /\ Write(s, rows, "snapshot")
    BY <1>0, <1>6 DEF MarkRunning, Doing, Knows, Underway
  <2>2. IndexHolds(rows) => AttemptRows(rows)
    BY <2>1, Marked DEF States
  <2> HIDE DEF rows
  <2>3. CASE IndexHolds(rows)
    <3>1. AttemptRows(attempt') /\ GoOn(s, "snapshot")
      BY <2>1, <2>2, <2>3 DEF Write
    <3> QED
      BY <2>1, <3>1, ScriptGoesOn DEF Underway
  <2>4. CASE ~IndexHolds(rows)
    BY <1>0, <2>1, <2>4, ScriptEnds DEF Write
  <2> QED
    BY <2>3, <2>4
<1>7. ASSUME NEW s \in Scripts, FindSnapshot(s) \/ CheckApproval(s) \/ PrepareBase(s) \/ EndBase(s)
      PROVE  AttemptInv'
  <2>1. /\ script[s].pc \in Underway /\ attempt' = attempt
        /\ \E pc \in Underway : GoOn(s, pc)
    BY <1>7 DEF FindSnapshot, CheckApproval, PrepareBase, EndBase, Doing, Underway
  <2> QED
    BY <1>0, <2>1, ScriptGoesOn
<1>8. ASSUME NEW s \in Scripts, AwaitApproval(s) PROVE AttemptInv'
  <2> DEFINE rows == Mark(script[s].attempt, "waiting_approval")
  <2>1. /\ script[s].attempt \in Attempts
        /\ End(s, IF IndexHolds(rows) THEN rows ELSE attempt)
    BY <1>0, <1>8 DEF AwaitApproval, Doing, Knows, Underway
  <2>2. IndexHolds(rows) => AttemptRows(rows)
    BY <2>1, Marked DEF States
  <2> HIDE DEF rows
  <2> QED
    BY <1>0, <2>1, <2>2, ScriptEnds
<1>9. ASSUME NEW s \in Scripts, Renew(s) PROVE AttemptInv'
  <2> DEFINE t == script[s].attempt
             row == [attempt[t] EXCEPT !.lapsed = FALSE]
  <2>1. script[s].pc = "base" /\ t \in Attempts
    BY <1>0, <1>9 DEF Renew, Doing, Knows, Underway
  <2>2. CASE IsActive(t) /\ attempt[t].owner = s
    <3>1. attempt' = [attempt EXCEPT ![t] = row] /\ UNCHANGED script
      BY <1>0, <1>9, <2>1, <2>2 DEF Renew
    <3>2. row \in AttemptRow /\ row.state = attempt[t].state
      <4>1. attempt[t] \in AttemptRow
        BY <1>0, <2>1
      <4> QED
        BY <4>1 DEF AttemptRow
    <3> HIDE DEF row, t
    <3>3. AttemptRows(attempt')
      BY <1>0, <2>1, <3>1, <3>2, OtherOwner
    <3> QED
      BY <1>0, <3>1, <3>3 DEF AttemptInv, AttemptRows, AttemptRow, Actives, Knows, ScriptRow
  <2>3. CASE ~(IsActive(t) /\ attempt[t].owner = s)
    <3>1. GoOn(s, "raise") /\ attempt' = attempt
      BY <1>9, <2>3 DEF Renew
    <3> QED
      BY <1>0, <2>1, <3>1, ScriptGoesOn DEF Underway
  <2> QED
    BY <2>2, <2>3
<1>10. ASSUME NEW s \in Scripts, MarkFailed(s) PROVE AttemptInv'
  <2>1. script[s].attempt \in Attempts /\ End(s, Mark(script[s].attempt, "failed"))
    BY <1>0, <1>10 DEF MarkFailed, Doing, Knows, Underway
  <2>2. AttemptRows(Mark(script[s].attempt, "failed"))
    BY <2>1, Marked DEF States, Terminal
  <2> QED
    BY <2>1, <2>2, ScriptEnds
<1>11. ASSUME NEW t \in Attempts, LeaseLapses(t) PROVE AttemptInv'
  <2> DEFINE row == [attempt[t] EXCEPT !.lapsed = TRUE]
  <2>1. attempt' = [attempt EXCEPT ![t] = row] /\ UNCHANGED script
    BY <1>0, <1>11 DEF LeaseLapses
  <2>2. row \in AttemptRow /\ row.state = attempt[t].state
    BY <1>0 DEF AttemptRow
  <2> HIDE DEF row
  <2>3. AttemptRows(attempt')
    BY <1>0, <2>1, <2>2, OtherOwner
  <2> QED
    BY <1>0, <2>1, <2>3 DEF AttemptInv, AttemptRows, AttemptRow, Actives, Knows, ScriptRow
<1>12. CASE DecideSnapshot \/ DecideRelease
  <2>1. UNCHANGED <<attempt, script>>
    BY <1>12 DEF DecideSnapshot, DecideRelease
  <2> QED
    BY <2>1 DEF AttemptInv, AttemptRows, AttemptRow, Actives, Knows, ScriptRow
<1> QED
  BY <1>1, <1>2, <1>3, <1>4, <1>5, <1>6, <1>7, <1>8, <1>9, <1>10, <1>11, <1>12
  DEF AttemptStep, ScriptStep

LEMMA AttemptLeftAlone == AttemptInv /\ UNCHANGED attemptVars => AttemptInv'
  BY DEF AttemptInv, AttemptRows, AttemptRow, Actives, Knows, ScriptRow, attemptVars

---------------------------------------------------------------------------
(* Of the pods: none writes more files or cases than there are.            *)
PodsCount ==
  /\ \A p \in Pods : pod[p].done \in 0..(NFiles + NCases)
  /\ transcripts \in [1..NCases -> Pods \cup {Nothing}]

LEMMA InitPodsCount == RunnerInit => PodsCount
  BY RunnerAssumption DEF RunnerInit, PodsCount

(* A pod whose count stays.                                                *)
LEMMA SameCounts ==
  ASSUME PodsCount, pod \in [Pods -> PodRow], NEW p \in Pods, NEW pc, Advanced(p, pc),
         UNCHANGED transcripts
  PROVE  PodsCount'
<1>1. \A q \in Pods : pod'[q].done = pod[q].done
  BY DEF Advanced, PodRow
<1> QED
  BY <1>1 DEF PodsCount

LEMMA StepPodsCount == RunnerInv /\ PodsCount /\ RunnerStep => PodsCount'
<1> SUFFICES ASSUME RunnerInv, PodsCount, RunnerStep PROVE PodsCount'
  OBVIOUS
<1>0. /\ pod \in [Pods -> PodRow] /\ \A p \in Pods : Trains(p) /\ Evaluates(p)
      /\ NFiles \in Nat /\ NCases \in Nat
  BY RunnerAssumption DEF RunnerInv, RunnerRows
<1>1. CASE Withdraw
  BY <1>1 DEF Withdraw, PodsCount
<1>2. ASSUME NEW p \in Pods, NEW kind \in Kinds, StartPod(p, kind) PROVE PodsCount'
  <2>1. \A q \in Pods : pod'[q].done \in {0, pod[q].done}
    BY <1>0, <1>2 DEF StartPod
  <2> QED
    BY <1>0, <1>2, <2>1 DEF StartPod, PodsCount
<1>3. ASSUME NEW p \in Pods,
             \/ CheckTaskApproval(p) \/ CheckPrerequisites(p) \/ Train(p) \/ CreateAdapterCandidate(p)
             \/ StageCandidateAdapter(p) \/ CompleteMeasurement(p) \/ WriteResult(p) \/ PodDies(p)
      PROVE  PodsCount'
  <2>1. UNCHANGED transcripts /\ \E pc : Advanced(p, pc)
    BY <1>3
    DEF CheckTaskApproval, CheckPrerequisites, Train, CreateAdapterCandidate, StageCandidateAdapter,
        CompleteMeasurement, WriteResult, PodDies
  <2> QED
    BY <1>0, <2>1, SameCounts
<1>4. ASSUME NEW p \in Pods, PublishFile(p) PROVE PodsCount'
  <2>1. pod[p].done < NFiles /\ UNCHANGED transcripts
    BY <1>0, <1>4 DEF PublishFile, Stage, Trains
  <2>2. CASE Put(p)
    <3>1. pod[p].done \in Nat /\ pod[p] \in PodRow
      BY <1>0 DEF PodRow
    <3>2. \A q \in Pods : pod'[q].done \in {pod[q].done} \cup {pod[p].done + 1}
      BY <1>0, <2>2, <3>1 DEF Put, PodRow
    <3>3. pod[p].done + 1 \in 0..(NFiles + NCases)
      BY <1>0, <2>1, <3>1
    <3> QED
      BY <1>0, <2>1, <3>2, <3>3 DEF PodsCount
  <2>3. CASE ~Put(p)
    BY <1>0, <1>4, <2>1, <2>3, SameCounts DEF PublishFile
  <2> QED
    BY <2>2, <2>3
<1>5. ASSUME NEW p \in Pods, WriteTranscript(p) PROVE PodsCount'
  <2>1. /\ transcripts' = [transcripts EXCEPT ![pod[p].done + 1] = p]
        /\ Advanced(p, "finish")
    BY <1>5 DEF WriteTranscript
  <2>2. transcripts' \in [1..NCases -> Pods \cup {Nothing}]
    BY <2>1 DEF PodsCount
  <2>3. \A q \in Pods : pod'[q].done = pod[q].done
    BY <1>0, <2>1 DEF Advanced, PodRow
  <2> QED
    BY <2>2, <2>3 DEF PodsCount
<1>6. ASSUME NEW p \in Pods, FinishEvaluationTrial(p) PROVE PodsCount'
  <2>1. pod[p].done < NCases /\ UNCHANGED transcripts /\ pod[p].done \in Nat /\ pod[p] \in PodRow
    BY <1>0, <1>6 DEF FinishEvaluationTrial, Stage, Evaluates, PodRow
  <2>2. CASE verdicts[pod[p].done + 1] = Nothing
    <3>1. \A q \in Pods : pod'[q].done \in {pod[q].done} \cup {pod[p].done + 1}
      BY <1>0, <1>6, <2>1, <2>2 DEF FinishEvaluationTrial, PodRow
    <3>2. pod[p].done + 1 \in 0..(NFiles + NCases)
      BY <1>0, <2>1
    <3> QED
      BY <1>0, <2>1, <3>1, <3>2 DEF PodsCount
  <2>3. CASE verdicts[pod[p].done + 1] # Nothing
    BY <1>0, <1>6, <2>1, <2>3, SameCounts DEF FinishEvaluationTrial
  <2> QED
    BY <2>2, <2>3
<1> QED
  BY <1>1, <1>2, <1>3, <1>4, <1>5, <1>6 DEF RunnerStep, PodStep

LEMMA RunnerTyped == RunnerInv /\ PodsCount => RunnerTypeOK
  BY DEF RunnerInv, RunnerRows, PodsCount, RunnerTypeOK, PodRow

---------------------------------------------------------------------------
(* Of the deque: a call is in it once at most, because it joins it once.   *)
Asked(r) == request[r].pc \notin {"idle", "lookup"}

CallsOnce ==
  /\ IsInjective(queue) /\ \A r \in Range(queue) : Asked(r)
  /\ Len(processor.batch) <= MaxBatch
  /\ abandoned \subseteq Requests

LEMMA InitCallsOnce == BatchInit => CallsOnce
<1> SUFFICES ASSUME BatchInit PROVE CallsOnce
  OBVIOUS
<1>1. IsInjective(queue) /\ Range(queue) = {}
  BY DEF BatchInit, IsInjective, Range
<1>2. processor.batch = <<>> /\ abandoned = {} /\ MaxBatch \in Nat
  BY BatchAssumption DEF BatchInit
<1> QED
  BY <1>1, <1>2 DEF CallsOnce

(* A call never goes back to where it may join the deque.                  *)
LEMMA AskedStays ==
  ASSUME BatchInv, BatchStep, NEW q \in Requests, Asked(q)
  PROVE  Asked(q)'
<1>0. request \in [Requests -> CallRow]
  BY DEF BatchInv, BatchRows
<1>1. ASSUME NEW r \in Requests, Ask(r) \/ Enqueue(r)
      PROVE  Asked(q)'
  BY <1>0, <1>1 DEF Asked, Ask, Enqueue, Now, CallRow
<1>2. ASSUME NEW r \in Requests, AnswerFromCache(r) \/ Wake(r) \/ StoreResult(r) \/ Disconnect(r)
      PROVE  Asked(q)'
  BY <1>0, <1>2 DEF Asked, AnswerFromCache, Wake, StoreResult, Disconnect, Return, CallRow
<1>3. ASSUME NEW S, NEW outcome, request' = Resolved(S, outcome)
      PROVE  Asked(q)'
  BY <1>0, <1>3 DEF Asked, Resolved, CallRow
<1>4. CASE RunGroup \/ ClearQueue
  BY <1>3, <1>4 DEF RunGroup, ClearQueue
<1>5. CASE TakeBatch \/ BeginShutdown
  BY <1>5 DEF TakeBatch, BeginShutdown, Asked
<1> QED
  BY <1>1, <1>2, <1>4, <1>5 DEF BatchStep

LEMMA OnceAppended ==
  ASSUME NEW S, NEW q \in Seq(S), NEW e \in S, IsInjective(q), e \notin Range(q)
  PROVE  IsInjective(Append(q, e))
<1> DEFINE longer == Append(q, e)
<1>1. /\ Len(q) \in Nat /\ DOMAIN q = 1..Len(q) /\ DOMAIN longer = 1..(Len(q) + 1)
      /\ \A i \in 1..Len(q) : longer[i] = q[i]
      /\ longer[Len(q) + 1] = e
  OBVIOUS
<1> HIDE DEF longer
<1>2. \A i \in 1..Len(q) : q[i] # e
  BY <1>1 DEF Range
<1>3. ASSUME NEW i \in DOMAIN longer, NEW j \in DOMAIN longer, longer[i] = longer[j]
      PROVE  i = j
  <2>1. (i \in 1..Len(q) \/ i = Len(q) + 1) /\ (j \in 1..Len(q) \/ j = Len(q) + 1)
    BY <1>1
  <2> QED
    BY <1>1, <1>2, <1>3, <2>1 DEF IsInjective
<1> QED
  BY <1>3 DEF IsInjective, longer

LEMMA OnceShortened ==
  ASSUME NEW S, NEW q \in Seq(S), IsInjective(q), NEW n \in 0..Len(q)
  PROVE  /\ IsInjective(SubSeq(q, n + 1, Len(q)))
         /\ Range(SubSeq(q, n + 1, Len(q))) \subseteq Range(q)
<1> DEFINE back == SubSeq(q, n + 1, Len(q))
<1>1. /\ DOMAIN back = 1..(Len(q) - n) /\ Len(q) \in Nat /\ DOMAIN q = 1..Len(q)
      /\ \A i \in 1..(Len(q) - n) : back[i] = q[n + i]
  OBVIOUS
<1> HIDE DEF back
<1>2. ASSUME NEW i \in DOMAIN back PROVE n + i \in DOMAIN q /\ i \in Nat /\ back[i] = q[n + i]
  BY <1>1
<1>3. ASSUME NEW i \in DOMAIN back, NEW j \in DOMAIN back, back[i] = back[j]
      PROVE  i = j
  <2>1. n + i = n + j
    BY <1>2, <1>3 DEF IsInjective
  <2> QED
    BY <1>2, <2>1
<1>4. IsInjective(back)
  BY <1>3 DEF IsInjective
<1>5. Range(back) \subseteq Range(q)
  BY <1>2 DEF Range
<1> QED
  BY <1>4, <1>5 DEF back

LEMMA StepCallsOnce == BatchInv /\ CallsOnce /\ BatchStep => CallsOnce'
<1> SUFFICES ASSUME BatchInv, CallsOnce, BatchStep PROVE CallsOnce'
  OBVIOUS
<1>0. /\ request \in [Requests -> CallRow] /\ queue \in Seq(Requests) /\ processor \in ProcessorRow
      /\ Len(queue) \in Nat /\ Range(queue) \subseteq Requests /\ MaxBatch \in Nat
      /\ \A r \in Requests : Asked(r) => Asked(r)'
  <2>1. request \in [Requests -> CallRow] /\ queue \in Seq(Requests) /\ processor \in ProcessorRow
    BY DEF BatchInv, BatchRows
  <2>2. \A i \in DOMAIN queue : queue[i] \in Requests
    BY <2>1
  <2> QED
    BY <2>1, <2>2, AskedStays, BatchAssumption DEF Range
<1>1. CASE UNCHANGED <<queue, processor, abandoned>>
  BY <1>0, <1>1 DEF CallsOnce
<1>2. ASSUME NEW r \in Requests, Enqueue(r) PROVE CallsOnce'
  <2>1. /\ Now(r, "lookup") /\ queue' = Append(queue, r) /\ processor' = StartProcessor
        /\ request' = [request EXCEPT ![r] = [request[r] EXCEPT !.pc = "waiting", !.future = "pending"]]
        /\ abandoned' = abandoned
    BY <1>0, <1>2 DEF Enqueue
  <2>2. r \notin Range(queue)
    BY <2>1 DEF CallsOnce, Asked, Now
  <2>3. IsInjective(queue') /\ Range(queue') = Range(queue) \cup {r}
    <3>1. IsInjective(queue)
      BY DEF CallsOnce
    <3>2. IsInjective(Append(queue, r))
      BY <1>0, <2>2, <3>1, OnceAppended
    <3>3. Range(Append(queue, r)) = Range(queue) \cup {r}
      BY <1>0, AppendRange
    <3> QED
      BY <2>1, <3>2, <3>3
  <2>4. Asked(r)'
    BY <1>0, <2>1 DEF Asked, CallRow
  <2>5. Len(processor'.batch) <= MaxBatch
    BY <1>0, <2>1 DEF StartProcessor, Filling, CallsOnce
  <2> QED
    BY <1>0, <2>1, <2>3, <2>4, <2>5 DEF CallsOnce
<1>3. CASE TakeBatch
  <2> DEFINE n == IF Len(queue) < MaxBatch THEN Len(queue) ELSE MaxBatch
             batch == SubSeq(queue, 1, n)
  <2>1. /\ processor' = IF n = 0 THEN Stopped
                        ELSE [pc |-> "executing", batch |-> batch, left |-> Range(batch)]
        /\ queue' = SubSeq(queue, n + 1, Len(queue))
        /\ UNCHANGED <<request, abandoned>>
    BY <1>3 DEF TakeBatch
  <2>2. n \in 0..Len(queue) /\ n <= MaxBatch
    BY <1>0
  <2> HIDE DEF n
  <2>3. Len(batch) = n
    BY <1>0, <2>2
  <2> HIDE DEF batch
  <2>4. Len(processor'.batch) <= MaxBatch
    BY <1>0, <2>1, <2>2, <2>3 DEF Stopped
  <2>5. IsInjective(queue') /\ Range(queue') \subseteq Range(queue)
    BY <1>0, <2>1, <2>2, OnceShortened DEF CallsOnce
  <2> QED
    BY <1>0, <2>1, <2>4, <2>5 DEF CallsOnce
<1>4. CASE RunGroup
  <2>1. Len(processor'.batch) <= MaxBatch /\ UNCHANGED <<queue, abandoned>>
    BY <1>0, <1>4 DEF RunGroup, Filling, Stopped, CallsOnce, ProcessorRow
  <2> QED
    BY <1>0, <2>1 DEF CallsOnce
<1>5. CASE BeginShutdown
  <2>1. Len(processor'.batch) <= MaxBatch /\ UNCHANGED <<queue, request>>
    BY <1>0, <1>5 DEF BeginShutdown, Stopped, CallsOnce
  <2>2. abandoned' \subseteq Requests
    BY <1>0, <1>5 DEF BeginShutdown, CallsOnce, ProcessorRow
  <2> QED
    BY <1>0, <2>1, <2>2 DEF CallsOnce
<1>6. CASE ClearQueue
  <2>1. queue' = <<>> /\ UNCHANGED <<processor, abandoned>>
    BY <1>6 DEF ClearQueue
  <2>2. IsInjective(queue') /\ Range(queue') = {}
    BY <2>1 DEF IsInjective, Range
  <2> QED
    BY <1>0, <2>1, <2>2 DEF CallsOnce
<1> QED
  BY <1>1, <1>2, <1>3, <1>4, <1>5, <1>6
  DEF BatchStep, Ask, AnswerFromCache, Wake, StoreResult, Disconnect

LEMMA BatchTyped == BatchInv /\ CallsOnce => BatchTypeOK
  BY DEF BatchInv, BatchRows, CallsOnce, BatchTypeOK, CallRow

---------------------------------------------------------------------------
(* Of a sync: it lists and keeps each commit once.                         *)
ListsOnce(row) ==
  /\ row.before <= MaxCommits /\ row.after <= MaxCommits
  /\ IsInjective(row.todo) /\ IsInjective(row.found)
  /\ row.pc \in {"idle", "list"} => row.found = <<>>
  /\ row.pc = "fetch" => \A c \in Range(row.todo) : c \notin Range(row.found)

SyncsOnce ==
  /\ cursor <= MaxCommits
  /\ \A s \in Syncs : ListsOnce(sync[s])

LEMMA IdleSync == ListsOnce(Idle) /\ Range(<<>>) = {} /\ IsInjective(<<>>)
  BY GitAssumption DEF ListsOnce, Idle, IsInjective, Range

LEMMA InitSyncsOnce == GitInit => SyncsOnce
  BY GitAssumption, IdleSync DEF GitInit, SyncsOnce

LEMMA OnceListed ==
  ASSUME Len(history) \in Nat, NEW before \in Nat
  PROVE  IsInjective(Listed(before))
<1> DEFINE since == IF before = 0 THEN Len(history) ELSE Len(history) - before + 1
           length == IF since < PerPage THEN since ELSE PerPage
           page == [i \in 1..length |-> Len(history) + 1 - i]
<1>1. \A i, j \in 1..length : Len(history) + 1 - i = Len(history) + 1 - j => i = j
  <2> HIDE DEF length
  <2> QED
    OBVIOUS
<1>2. IsInjective(page)
  <2> HIDE DEF length
  <2> QED
    BY <1>1 DEF IsInjective
<1> QED
  BY <1>2 DEF Listed

LEMMA OnceLeft ==
  ASSUME NEW S, NEW q \in Seq(S), q # <<>>, IsInjective(q)
  PROVE  IsInjective(Tail(q)) /\ Head(q) \notin Range(Tail(q))
<1> DEFINE rest == Tail(q)
<1>1. /\ Len(q) \in Nat /\ Len(q) > 0 /\ DOMAIN q = 1..Len(q) /\ Head(q) = q[1]
      /\ DOMAIN rest = 1..(Len(q) - 1)
      /\ \A i \in 1..(Len(q) - 1) : rest[i] = q[i + 1]
  OBVIOUS
<1> HIDE DEF rest
<1>2. ASSUME NEW i \in DOMAIN rest
      PROVE  i \in Nat /\ i > 0 /\ i + 1 \in DOMAIN q /\ 1 \in DOMAIN q /\ rest[i] = q[i + 1]
  BY <1>1
<1>3. ASSUME NEW i \in DOMAIN rest, NEW j \in DOMAIN rest, rest[i] = rest[j]
      PROVE  i = j
  <2>1. i + 1 = j + 1
    BY <1>2, <1>3 DEF IsInjective
  <2> QED
    BY <1>2, <2>1
<1>4. ASSUME NEW i \in DOMAIN rest PROVE rest[i] # Head(q)
  <2>1. q[i + 1] = q[1] => i + 1 = 1
    BY <1>2, <1>4 DEF IsInjective
  <2> QED
    BY <1>1, <1>2, <1>4, <2>1
<1> QED
  BY <1>3, <1>4 DEF IsInjective, Range, rest

LEMMA SyncMovesMore ==
  ASSUME SyncsOnce, sync \in [Syncs -> SyncRow], NEW s \in Syncs, NEW row, ListsOnce(row),
         sync' = [sync EXCEPT ![s] = row], cursor' <= MaxCommits
  PROVE  SyncsOnce'
<1>1. \A t \in Syncs : ListsOnce(sync'[t])
  BY DEF SyncsOnce
<1> QED
  BY <1>1 DEF SyncsOnce, ListsOnce

LEMMA StepSyncsOnce == GitInv /\ SyncsOnce /\ GitStep => SyncsOnce'
<1> SUFFICES ASSUME GitInv, SyncsOnce, GitStep PROVE SyncsOnce'
  OBVIOUS
<1>0. /\ sync \in [Syncs -> SyncRow] /\ \A s \in Syncs : WorksThrough(s)
      /\ cursor \in Nat /\ Len(history) \in Nat /\ Len(history) <= MaxCommits /\ cursor <= MaxCommits
      /\ MaxCommits \in Nat
      /\ \A s \in Syncs : ListsOnce(sync[s])
  BY GitAssumption DEF GitInv, GitRows, SyncsOnce
<1>1. CASE UNCHANGED <<cursor, sync>>
  BY <1>0, <1>1 DEF SyncsOnce, ListsOnce
<1>2. ASSUME NEW s \in Syncs, BeginSync(s) PROVE SyncsOnce'
  <2> DEFINE row == [Idle EXCEPT !.pc = "list", !.before = cursor]
  <2>1. sync' = [sync EXCEPT ![s] = row] /\ cursor' = cursor
    BY <1>2 DEF BeginSync
  <2>2. ListsOnce(row)
    BY <1>0, IdleSync DEF ListsOnce, Idle
  <2> HIDE DEF row
  <2> QED
    BY <1>0, <2>1, <2>2, SyncMovesMore
<1>3. ASSUME NEW s \in Syncs, ListCommits(s) PROVE SyncsOnce'
  <2> DEFINE commits == Listed(sync[s].before)
             row == [sync[s] EXCEPT !.pc = "fetch", !.before = 0, !.todo = commits,
                       !.after = IF commits = <<>> THEN sync[s].before ELSE Head(commits)]
  <2>1. /\ Pc(s) = "list" /\ sync' = [sync EXCEPT ![s] = row] /\ cursor' = cursor
    BY <1>0, <1>3 DEF ListCommits
  <2>2. sync[s] \in SyncRow /\ sync[s].before \in Nat
    BY <1>0 DEF SyncRow
  <2>3. /\ commits \in Seq(Nat) /\ Range(commits) \subseteq 1..Len(history) /\ IsInjective(commits)
    BY <1>0, <2>2, ListedRows, OnceListed
  <2>4. commits # <<>> => Head(commits) \in 1..Len(history)
    BY <2>3, TailRange
  <2> HIDE DEF commits
  <2>5. /\ row.pc = "fetch" /\ row.before = 0 /\ row.todo = commits /\ row.found = sync[s].found
        /\ row.after = IF commits = <<>> THEN sync[s].before ELSE Head(commits)
    BY <2>2 DEF SyncRow
  <2>6. sync[s].before <= MaxCommits /\ sync[s].found = <<>>
    BY <1>0, <2>1 DEF ListsOnce, Pc
  <2> HIDE DEF row
  <2>7. row.after <= MaxCommits /\ row.before <= MaxCommits
    BY <1>0, <2>4, <2>5, <2>6
  <2>8. ListsOnce(row)
    BY <2>3, <2>5, <2>6, <2>7, IdleSync DEF ListsOnce
  <2> QED
    BY <1>0, <2>1, <2>8, SyncMovesMore
<1>4. ASSUME NEW s \in Syncs, FetchCommit(s) PROVE SyncsOnce'
  <2>1. /\ Pc(s) = "fetch" /\ cursor' = cursor /\ sync[s] \in SyncRow /\ ListsOnce(sync[s])
        /\ sync[s].pc = "fetch"
        /\ sync[s].todo \in Seq(Nat) /\ sync[s].found \in Seq(Nat)
    BY <1>0, <1>4 DEF FetchCommit, SyncRow, Pc
  <2>2. CASE sync[s].todo = <<>>
    <3> DEFINE row == [sync[s] EXCEPT !.pc = AfterFetch(s), !.todo = sync[s].found]
    <3>1. sync' = [sync EXCEPT ![s] = row]
      BY <1>0, <1>4, <2>2 DEF FetchCommit
    <3>2. /\ row.pc \in {"commit", "index"} /\ row.todo = sync[s].found /\ row.found = sync[s].found
          /\ row.before = sync[s].before /\ row.after = sync[s].after
      BY <2>1 DEF SyncRow, AfterFetch
    <3> HIDE DEF row
    <3>3. ListsOnce(row)
      BY <2>1, <3>2 DEF ListsOnce
    <3> QED
      BY <1>0, <2>1, <3>1, <3>3, SyncMovesMore
  <2>3. CASE sync[s].todo # <<>>
    <3> DEFINE c == Head(sync[s].todo)
               rest == Tail(sync[s].todo)
               skipped == [sync[s] EXCEPT !.todo = rest]
               kept == [sync[s] EXCEPT !.todo = rest, !.found = Append(sync[s].found, c)]
    <3>1. sync' = [sync EXCEPT ![s] = skipped] \/ sync' = [sync EXCEPT ![s] = kept]
      BY <1>0, <1>4, <2>3 DEF FetchCommit
    <3>2. /\ c \in Nat /\ c \in Range(sync[s].todo) /\ Range(sync[s].todo) = {c} \cup Range(rest)
          /\ IsInjective(rest) /\ c \notin Range(rest)
      <4>1. IsInjective(sync[s].todo)
        BY <2>1 DEF ListsOnce
      <4> QED
        BY <2>1, <2>3, <4>1, TailRange, OnceLeft
    <3>3. c \notin Range(sync[s].found) /\ \A d \in Range(rest) : d \notin Range(sync[s].found)
      BY <2>1, <3>2 DEF ListsOnce
    <3>4. /\ IsInjective(Append(sync[s].found, c))
          /\ Range(Append(sync[s].found, c)) = Range(sync[s].found) \cup {c}
      <4>1. IsInjective(sync[s].found)
        BY <2>1 DEF ListsOnce
      <4> QED
        BY <2>1, <3>2, <3>3, <4>1, OnceAppended, AppendRange
    <3> HIDE DEF c, rest
    <3>5. /\ skipped.pc = "fetch" /\ skipped.todo = rest /\ skipped.found = sync[s].found
          /\ skipped.before = sync[s].before /\ skipped.after = sync[s].after
          /\ kept.pc = "fetch" /\ kept.todo = rest /\ kept.found = Append(sync[s].found, c)
          /\ kept.before = sync[s].before /\ kept.after = sync[s].after
      BY <2>1 DEF SyncRow
    <3> HIDE DEF skipped, kept
    <3>6. ListsOnce(skipped)
      BY <2>1, <3>2, <3>3, <3>5 DEF ListsOnce
    <3>7. ListsOnce(kept)
      <4>1. \A d \in Range(rest) : d \notin Range(Append(sync[s].found, c))
        BY <3>2, <3>3, <3>4
      <4> QED
        BY <2>1, <3>2, <3>4, <3>5, <4>1 DEF ListsOnce
    <3> QED
      BY <1>0, <2>1, <3>1, <3>6, <3>7, SyncMovesMore
  <2> QED
    BY <2>2, <2>3
<1>5. ASSUME NEW s \in Syncs, NEW following \in {"prune", "commit"}, Work(s, following),
             Pc(s) \in {"index", "prune"}, cursor' = cursor
      PROVE  SyncsOnce'
  <2> DEFINE shorter == [sync[s] EXCEPT !.todo = Tail(sync[s].todo)]
             over == [sync[s] EXCEPT !.pc = following, !.todo = sync[s].found]
  <2>1. sync' = [sync EXCEPT ![s] = shorter] \/ sync' = [sync EXCEPT ![s] = over]
    BY <1>0, <1>5 DEF Work
  <2>2. /\ sync[s] \in SyncRow /\ ListsOnce(sync[s]) /\ sync[s].pc \in {"index", "prune"}
        /\ sync[s].todo \in Seq(Nat) /\ sync[s].todo # <<>>
    BY <1>0, <1>5 DEF SyncRow, Pc, WorksThrough
  <2>3. IsInjective(Tail(sync[s].todo))
    <3>1. IsInjective(sync[s].todo)
      BY <2>2 DEF ListsOnce
    <3> QED
      BY <2>2, <3>1, OnceLeft
  <2>4. /\ shorter.pc = sync[s].pc /\ shorter.todo = Tail(sync[s].todo)
        /\ shorter.found = sync[s].found
        /\ shorter.before = sync[s].before /\ shorter.after = sync[s].after
        /\ over.pc = following /\ over.todo = sync[s].found /\ over.found = sync[s].found
        /\ over.before = sync[s].before /\ over.after = sync[s].after
    BY <2>2 DEF SyncRow
  <2> HIDE DEF shorter, over
  <2>5. ListsOnce(shorter) /\ ListsOnce(over)
    BY <2>2, <2>3, <2>4 DEF ListsOnce
  <2> QED
    BY <1>0, <1>5, <2>1, <2>5, SyncMovesMore
<1>6. ASSUME NEW s \in Syncs, IndexRevision(s) \/ PruneOthers(s) PROVE SyncsOnce'
  BY <1>5, <1>6 DEF IndexRevision, PruneOthers
<1>7. ASSUME NEW s \in Syncs, SaveCursor(s) \/ FailSync(s) PROVE SyncsOnce'
  <2>1. sync' = [sync EXCEPT ![s] = Idle] /\ cursor' \in {cursor, sync[s].after}
    BY <1>7 DEF SaveCursor, FailSync
  <2>2. cursor' <= MaxCommits
    BY <1>0, <2>1 DEF ListsOnce
  <2> QED
    BY <1>0, <2>1, <2>2, IdleSync, SyncMovesMore
<1> QED
  BY <1>1, <1>2, <1>3, <1>4, <1>6, <1>7 DEF GitStep, SyncStep, PushCommit, RevokeGitSource

LEMMA GitTyped == GitInv /\ SyncsOnce => GitTypeOK
<1> SUFFICES ASSUME GitInv, SyncsOnce PROVE GitTypeOK
  OBVIOUS
<1>1. cursor \in 0..MaxCommits
  BY GitAssumption DEF GitInv, GitRows, SyncsOnce
<1> QED
  BY <1>1 DEF GitInv, GitRows, SyncsOnce, ListsOnce, GitTypeOK

---------------------------------------------------------------------------
(* Of the scripts: the bound on their deaths is kept.                      *)
LEMMA FewDeaths ==
  ASSUME failures \in 0..MaxFailures, LearningStep
  PROVE  failures' \in 0..MaxFailures
<1>1. ASSUME NEW p \in Authors, ScriptFails(p) PROVE failures' \in 0..MaxFailures
  BY <1>1, LearningAssumption DEF ScriptFails
<1>2. ASSUME NEW p \in Authors, NEW o, NEW passed, Finish(p, o, passed) PROVE failures' = failures
  BY <1>2 DEF Finish
<1>3. ASSUME NEW p \in Authors, NEW o, Decide(p, o) PROVE failures' = failures
  BY <1>3 DEF Decide
<1>4. ASSUME NEW p \in Authors, AuthorStep(p) PROVE failures' = failures
  <2>1. CASE \/ PutImmutable(p) \/ PublishSuite(p) \/ PublishBundle(p) \/ CheckEnvironment(p)
             \/ PublishReceipt(p) \/ SuitePublished(p) \/ \E c \in Campaigns : BeginRerollout(p, c)
    BY <2>1 DEF PutImmutable, PublishSuite, PublishBundle, CheckEnvironment, PublishReceipt,
                SuitePublished, BeginRerollout
  <2>2. CASE MeasureTrial(p) \/ FinishTrial(p) \/ BuildGapReport(p) \/ GapReported(p)
    BY <1>2, <2>2 DEF MeasureTrial, FinishTrial, BuildGapReport, GapReported
  <2>3. CASE \/ \E t \in Tasks, g \in Arms :
                  PublishExperience(p, t, g) \/ WriteLabel(p, t, g) \/ BridgeFeedback(p, t, g)
             \/ ExperiencePublished(p) \/ \E r \in printed : JudgeGap(p, r)
    BY <1>2, <2>3 DEF PublishExperience, WriteLabel, BridgeFeedback, ExperiencePublished, JudgeGap
  <2>4. CASE JudgeNext(p) \/ CreateAnnotation(p) \/ ApproveAnnotation(p)
    BY <2>4 DEF JudgeNext, CreateAnnotation, ApproveAnnotation
  <2>5. CASE \/ \E r \in printed, labels \in SUBSET DOMAIN reviews : BeginCompile(p, r, labels)
             \/ ReadAnnotation(p) \/ Authorize(p) \/ Compile(p) \/ CreateSnapshot(p)
             \/ CompilationPublished(p)
    BY <1>2, <2>5 DEF BeginCompile, ReadAnnotation, Authorize, Compile, CreateSnapshot,
                      CompilationPublished
  <2>6. CASE \/ \E source, report \in printed :
                  DecideModelMigration(p, source, report) \/ DecideGapAB(p, source, report)
             \/ \E o \in printed : DecideDpoGate(p, o) \/ DecideRlGate(p, o)
             \/ DecisionPublished(p)
    BY <1>2, <1>3, <2>6 DEF DecideModelMigration, DecideGapAB, DecideMigration, DecideDpoGate,
                            DecideRlGate, DecisionPublished
  <2> QED
    BY <1>4, <2>1, <2>2, <2>3, <2>4, <2>5, <2>6 DEF AuthorStep
<1>5. ASSUME NEW l, NEW status, ReviewAnnotation(l, status) PROVE failures' = failures
  BY <1>5 DEF ReviewAnnotation
<1> QED
  BY <1>1, <1>4, <1>5 DEF LearningStep

LEMMA LearningTyped == LearningInv /\ failures \in 0..MaxFailures => LearningTypeOK
  BY DEF LearningInv, LearningRows, Foundations, IsLabel, LearningTypeOK, Free, Fields

---------------------------------------------------------------------------
(* What every part keeps, step by step.                                    *)
ServicesInv ==
  /\ focus \in Foci
  /\ AttemptInv
  /\ RunnerInv /\ PodsCount
  /\ BatchInv /\ CallsOnce
  /\ GitInv /\ SyncsOnce
  /\ LearningInv /\ failures \in 0..MaxFailures

LEMMA OthersLeftAlone ==
  /\ PodsCount /\ UNCHANGED runnerVars => PodsCount'
  /\ CallsOnce /\ UNCHANGED batchVars => CallsOnce'
  /\ SyncsOnce /\ UNCHANGED gitVars => SyncsOnce'
  /\ UNCHANGED learningVars => failures' = failures
<1>1. PodsCount /\ UNCHANGED runnerVars => PodsCount'
  BY DEF PodsCount, runnerVars
<1>2. CallsOnce /\ UNCHANGED batchVars => CallsOnce'
  BY DEF CallsOnce, Asked, batchVars
<1>3. SyncsOnce /\ UNCHANGED gitVars => SyncsOnce'
  BY DEF SyncsOnce, ListsOnce, gitVars
<1>4. UNCHANGED learningVars => failures' = failures
  BY DEF learningVars
<1> QED
  BY <1>1, <1>2, <1>3, <1>4

(* ServicesTypeOK, for any values of the constants. Beyond the types of    *)
(* the rows: one attempt of a run is active at most, whichever scripts     *)
(* create, resume, mark and give up; a call is in the deque once; a sync   *)
(* lists and keeps a commit once; and no pod writes past its last file.    *)
THEOREM ServicesTyped == Spec => []ServicesTypeOK
<1>1. Init => ServicesInv
  <2> SUFFICES ASSUME Init PROVE ServicesInv
    OBVIOUS
  <2>1. /\ focus \in Foci /\ AttemptInit /\ RunnerInit /\ BatchInit /\ GitInit /\ LearningInit
    BY DEF Init
  <2>2. failures \in 0..MaxFailures
    BY <2>1, LearningAssumption DEF LearningInit
  <2> QED
    BY <2>1, <2>2, InitAttempt, InitRunner, InitPodsCount, InitBatch, InitCallsOnce, InitGit,
       InitSyncsOnce, InitLearning DEF ServicesInv
<1>2. ServicesInv /\ [Next]_serviceVars => ServicesInv'
  <2> SUFFICES ASSUME ServicesInv, [Next]_serviceVars PROVE ServicesInv'
    OBVIOUS
  <2>1. /\ focus' = focus
        /\ AttemptStep \/ UNCHANGED attemptVars
        /\ RunnerStep \/ UNCHANGED runnerVars
        /\ BatchStep \/ UNCHANGED batchVars
        /\ GitStep \/ UNCHANGED gitVars
        /\ LearningStep \/ UNCHANGED learningVars
    BY DEF Next, serviceVars, DuringAttempt, DuringTrain, DuringServe, DuringGit, DuringLearn
  <2>2. AttemptInv'
    BY <2>1, StepAttempt, AttemptLeftAlone DEF ServicesInv
  <2>3. RunnerInv' /\ PodsCount'
    BY <2>1, StepRunner, StepPodsCount, OtherSteps, OthersLeftAlone DEF ServicesInv
  <2>4. BatchInv' /\ CallsOnce'
    BY <2>1, StepBatch, StepCallsOnce, BatchLeftAlone, OthersLeftAlone DEF ServicesInv
  <2>5. GitInv' /\ SyncsOnce'
    BY <2>1, StepGit, StepSyncsOnce, GitLeftAlone, OthersLeftAlone DEF ServicesInv
  <2>6. LearningInv'
    BY StepLearning DEF ServicesInv
  <2>7. failures' \in 0..MaxFailures
    BY <2>1, FewDeaths, OthersLeftAlone DEF ServicesInv
  <2> QED
    BY <2>1, <2>2, <2>3, <2>4, <2>5, <2>6, <2>7 DEF ServicesInv
<1>3. ServicesInv => ServicesTypeOK
  <2> SUFFICES ASSUME ServicesInv PROVE ServicesTypeOK
    OBVIOUS
  <2>1. AttemptTypeOK
    <3>1. IndexHolds(attempt)
      BY DEF ServicesInv, AttemptInv, AttemptRows, AtMostOne, Actives, IndexHolds
    <3>2. \A s \in Scripts : script[s].attempt \in Attempts \cup {"none"}
      BY DEF ServicesInv, AttemptInv, ScriptRow
    <3> QED
      BY <3>1, <3>2 DEF ServicesInv, AttemptInv, AttemptRows, AttemptRow, AttemptTypeOK
  <2> QED
    BY <2>1, RunnerTyped, BatchTyped, GitTyped, LearningTyped DEF ServicesInv, ServicesTypeOK
<1> QED
  BY <1>1, <1>2, <1>3, PTL DEF Spec
=============================================================================
