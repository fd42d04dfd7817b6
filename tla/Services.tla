------------------------------ MODULE Services ------------------------------
(***************************************************************************)
(* The services around a run: the attempts of the cycle script, the pods   *)
(* of a training and of an evaluation job, the batched inference, the Git  *)
(* connector, and the scripts that learn from evaluations. They meet only  *)
(* through what other components guard (a job, an adapter, a document), so *)
(* a behaviour is about one of them, which `focus' names, and the others   *)
(* stay as they are.                                                       *)
(***************************************************************************)
EXTENDS AttemptController, JobRunner, BatchInference, GitConnector, LearningPipeline

VARIABLE focus

serviceVars == <<focus, attemptVars, runnerVars, batchVars, gitVars, learningVars>>

Foci == {"attempt", "train", "serve", "git", "learn"}

Init ==
  /\ focus \in Foci
  /\ AttemptInit /\ RunnerInit /\ BatchInit /\ GitInit /\ LearningInit
  /\ focus # "attempt" => attempt[Oldest] = Absent
  /\ focus # "learn" => suite = CHOOSE x \in Suites : TRUE

DuringAttempt ==
  /\ AttemptStep
  /\ UNCHANGED <<runnerVars, batchVars, gitVars, learningVars>>

DuringTrain ==
  /\ RunnerStep
  /\ UNCHANGED <<attemptVars, batchVars, gitVars, learningVars>>

DuringServe ==
  /\ BatchStep
  /\ UNCHANGED <<attemptVars, runnerVars, gitVars, learningVars>>

DuringGit ==
  /\ GitStep
  /\ UNCHANGED <<attemptVars, runnerVars, batchVars, learningVars>>

DuringLearn ==
  /\ LearningStep
  /\ UNCHANGED <<attemptVars, runnerVars, batchVars, gitVars>>

Next ==
  /\ UNCHANGED focus
  /\ \/ focus = "attempt" /\ DuringAttempt
     \/ focus = "train" /\ DuringTrain
     \/ focus = "serve" /\ DuringServe
     \/ focus = "git" /\ DuringGit
     \/ focus = "learn" /\ DuringLearn

Spec == Init /\ [][Next]_serviceVars

NotAttempt == <<focus, runnerVars, batchVars, gitVars, learningVars>>

\* A script goes on and its base evaluation ends within its time limit, the lease of a process that has
\* gone lapses, and an operator resumes an attempt whenever a process is free again and again and the
\* resume would do more than print.
LiveSpec ==
  /\ Spec
  /\ \A s \in Scripts :
       /\ WF_serviceVars(focus = "attempt" /\ ScriptStep(s) /\ UNCHANGED NotAttempt)
       /\ WF_serviceVars(focus = "attempt" /\ EndBase(s) /\ UNCHANGED NotAttempt)
  /\ \A t \in Attempts :
       /\ WF_serviceVars(/\ focus = "attempt" /\ attempt[t].owner = Gone
                         /\ LeaseLapses(t) /\ UNCHANGED NotAttempt)
       /\ SF_serviceVars(/\ focus = "attempt"
                         /\ \E s \in Scripts : Resume(s, t)
                         /\ UNCHANGED NotAttempt)

---------------------------------------------------------------------------
\* The types of all five parts.
ServicesTypeOK ==
  /\ focus \in Foci
  /\ AttemptTypeOK /\ RunnerTypeOK /\ BatchTypeOK /\ GitTypeOK /\ LearningTypeOK
=============================================================================
