-------------------------- MODULE AttemptController --------------------------
(***************************************************************************)
(* The attempts of one run and the script that drives them:                *)
(* src/harness/attempts.py and scripts/run_h5_pdf_cycle.py. A script is a  *)
(* process of its own, started by an operator, in `create' mode or with    *)
(* --resume; its lease owner is a fresh UUID, so a lease that a process    *)
(* leaves behind belongs to nobody (`Gone'). Gate events and receipts only *)
(* record what happened and are left out. The script can no longer train:  *)
(* run_job refuses lora_train, so the way on to the candidate evaluation   *)
(* and the release is dead code and is not modelled.                       *)
(***************************************************************************)
EXTENDS Integers, FiniteSets

CONSTANTS
  Scripts,      \* processes of the script
  Attempts,     \* attempt ids
  Configs,      \* digests of an attempt's configuration
  MaxDeaths     \* bound on deaths of a process

ASSUME AttemptAssumption == MaxDeaths \in Nat /\ Configs # {}

VARIABLES
  attempt,      \* the rows of h5_attempts
  snapshot,     \* the state of the training snapshot that an earlier version recorded
  release,      \* the state of the release that it recorded
  annotated,    \* whether the annotations of the run are all still approved
  script,       \* the processes
  deaths

attemptVars == <<attempt, snapshot, release, annotated, script, deaths>>

Gone == "gone"
Nobody == "nobody"

\* What no script of today computes from any input: an earlier version recorded other fields, or none of
\* the retention that --resume asks for.
Outdated == "outdated"

Absent == [state |-> "absent", owner |-> Nobody, lapsed |-> FALSE, config |-> "none",
           snap |-> FALSE, release |-> FALSE]

States == {"candidate", "running", "waiting_approval", "waiting_input", "passed", "failed"}

Terminal == {"absent", "passed", "failed"}

\* The column `active' follows the state.
IsActive(t) == attempt[t].state \notin Terminal

Oldest == CHOOSE t \in Attempts : TRUE

Waiting == [pc |-> "idle", resume |-> FALSE, attempt |-> "none", config |-> "none"]

\* The rows that an earlier version of the script can have left, when its training still went on to a
\* release: any state, and of an active one the lease of a process that has long returned.
Inherited ==
  {row \in [state : States, owner : {Gone, Nobody}, lapsed : BOOLEAN,
            config : Configs \cup {Outdated}, snap : BOOLEAN, release : BOOLEAN] :
     /\ row.state \in {"waiting_approval", "waiting_input", "passed"} \/ row.release => row.snap
     /\ row.state = "passed" => row.release
     /\ row.state = "candidate" => ~row.snap
     /\ row.state \in Terminal => row.owner = Nobody
     /\ row.state \in States \ (Terminal \cup {"candidate"}) => row.owner = Gone
     /\ row.lapsed = (row.owner = Gone)}

AttemptInit ==
  /\ \E old \in Inherited \cup {Absent} :
       /\ attempt = [t \in Attempts |-> IF t = Oldest THEN old ELSE Absent]
       /\ snapshot \in IF old.release THEN {"approved"}
                       ELSE IF old.snap THEN {"candidate", "approved"} ELSE {"none"}
       /\ release \in IF old.state = "passed" THEN {"promoted"}
                      ELSE IF old.release THEN {"awaited", "promoted"} ELSE {"none"}
  /\ annotated = TRUE
  /\ script = [s \in Scripts |-> Waiting]
  /\ deaths = 0

Doing(s, pc) == script[s].pc = pc

\* The process ends; the lease it may hold is nobody's from now on.
Ended(s, rows) == [t \in Attempts |-> [rows[t] EXCEPT !.owner = IF @ = s THEN Gone ELSE @]]

End(s, rows) ==
  /\ attempt' = Ended(s, rows)
  /\ script' = [script EXCEPT ![s] = Waiting]

GoOn(s, pc) == script' = [script EXCEPT ![s].pc = pc]

\* H5AttemptStore.state, whoever calls it and whatever the row says: no owner, no version.
Mark(t, state) ==
  LET marked == [attempt[t] EXCEPT !.state = state]
  IN  [attempt EXCEPT ![t] = IF state \in Terminal
                             THEN [marked EXCEPT !.owner = Nobody, !.lapsed = FALSE]
                             ELSE marked]

\* The unique index: at most one active attempt of a run. A violation is no RuntimeError, so it ends
\* the process without the handler that marks the attempt as failed.
IndexHolds(rows) == Cardinality({t \in Attempts : rows[t].state \notin Terminal}) <= 1

\* Defect: there is no such index.
WriteUnchecked(s, rows, pc) == attempt' = rows /\ GoOn(s, pc)

Write(s, rows, pc) ==
  IF IndexHolds(rows) THEN attempt' = rows /\ GoOn(s, pc) ELSE End(s, attempt)

\* Bound: the configuration is another than that of an old attempt, or not, and then stays.
Today == CHOOSE c \in Configs : TRUE

\* Without --resume, for the attempt named or for whichever is active.
Start(s) ==
  /\ Doing(s, "idle")
  /\ \E named \in Attempts \cup {"none"} :
       script' = [script EXCEPT ![s] = [pc |-> "load", resume |-> FALSE, attempt |-> named,
                                        config |-> Today]]
  /\ UNCHANGED <<attempt, snapshot, release, annotated, deaths>>

\* A resume of an attempt whose release is promoted, or that has passed, prints its receipt again and
\* returns: it leaves the state of the attempt as it is.
OnlyPrinted(t) ==
  attempt[t].state = "passed" \/ (attempt[t].release /\ release = "promoted")

\* --resume: the attempt named or the active one. Its configuration is put together again, from what the
\* row has of it; one without a retention already ends the process here.
Resume(s, t) ==
  /\ Doing(s, "idle")
  /\ attempt[t].state # "absent" /\ ~OnlyPrinted(t)
  /\ script' = [script EXCEPT ![s] =
       [pc |-> "load", resume |-> TRUE, attempt |-> t,
        config |-> IF attempt[t].config = Outdated THEN Today ELSE attempt[t].config]]
  /\ UNCHANGED <<attempt, snapshot, release, annotated, deaths>>

\* load_annotations refuses annotations that are no longer approved: no attempt is known to the handler
\* yet.
AnnotationRefused(s) ==
  /\ Doing(s, "load") /\ ~annotated
  /\ End(s, attempt)
  /\ UNCHANGED <<snapshot, release, annotated, deaths>>

\* create_or_load. The digest is computed anew from the annotations, the suite and the policy, and
\* another one ends the process before the handler knows of the attempt.
CreateOrLoad(s) ==
  /\ Doing(s, "load") /\ annotated
  /\ LET named == script[s].attempt
         found == IF named # "none" THEN {named} ELSE {t \in Attempts : IsActive(t)}
     IN  \/ \E t \in found :
              /\ IF attempt[t].config = script[s].config
                 THEN script' = [script EXCEPT ![s] = [@ EXCEPT !.pc = "acquire", !.attempt = t]]
                 ELSE script' = [script EXCEPT ![s] = Waiting]
              /\ UNCHANGED attempt
         \/ /\ found = {}
            /\ \E t \in Attempts :
                 /\ attempt[t].state = "absent"
                 /\ attempt' = [attempt EXCEPT ![t] =
                      [Absent EXCEPT !.state = "candidate", !.config = script[s].config]]
                 /\ script' = [script EXCEPT ![s] = [@ EXCEPT !.pc = "acquire", !.attempt = t]]
  /\ UNCHANGED <<snapshot, release, annotated, deaths>>

\* Defect: the lease of a process that is gone never lapses.
FreeOfOwner(s, t) == IsActive(t) /\ attempt[t].owner \in {Nobody, s}

\* The WHERE clause of acquire.
MayAcquire(s, t) ==
  IsActive(t) /\ (attempt[t].owner \in {Nobody, s} \/ attempt[t].lapsed)

\* acquire; a script that is refused prints already_running and returns.
AcquireAttempt(s) ==
  LET t == script[s].attempt IN
  /\ Doing(s, "acquire")
  /\ IF MayAcquire(s, t)
     THEN /\ attempt' = [attempt EXCEPT ![t].owner = s, ![t].lapsed = FALSE]
          /\ GoOn(s, "running")
     ELSE End(s, attempt)
  /\ UNCHANGED <<snapshot, release, annotated, deaths>>

MarkRunning(s) ==
  /\ Doing(s, "running")
  /\ Write(s, Mark(script[s].attempt, "running"), "snapshot")
  /\ UNCHANGED <<snapshot, release, annotated, deaths>>

\* Only a resumed attempt that has a snapshot goes on: the direct way to one is disabled. The digests of
\* the model or the object of the dataset may be missing.
FindSnapshot(s) ==
  /\ Doing(s, "snapshot")
  /\ \/ GoOn(s, "raise")
     \/ script[s].resume /\ attempt[script[s].attempt].snap /\ GoOn(s, "approval")
  /\ UNCHANGED <<attempt, snapshot, release, annotated, deaths>>

\* snapshot_state; the engineering environment may skip the approval.
CheckApproval(s) ==
  /\ Doing(s, "approval")
  /\ \/ GoOn(s, "prepare")
     \/ snapshot # "approved" /\ GoOn(s, "wait")
  /\ UNCHANGED <<attempt, snapshot, release, annotated, deaths>>

\* The task bundles, the receipts of their environments, a new campaign and its trials: their errors
\* are the handler's.
PrepareBase(s) ==
  /\ Doing(s, "prepare")
  /\ \E pc \in {"base", "raise"} : GoOn(s, pc)
  /\ UNCHANGED <<attempt, snapshot, release, annotated, deaths>>

\* The attempt waits and the process returns; its lease stays until it lapses.
AwaitApproval(s) ==
  /\ Doing(s, "wait")
  /\ LET rows == Mark(script[s].attempt, "waiting_approval")
     IN  End(s, IF IndexHolds(rows) THEN rows ELSE attempt)
  /\ UNCHANGED <<snapshot, release, annotated, deaths>>

\* run_job for the base evaluation: every turn of the loop renews the lease, which refuses with
\* AttemptBusy once the lease is another's.
Renew(s) ==
  LET t == script[s].attempt IN
  /\ Doing(s, "base")
  /\ IF IsActive(t) /\ attempt[t].owner = s
     THEN attempt' = [attempt EXCEPT ![t].lapsed = FALSE] /\ UNCHANGED script
     ELSE GoOn(s, "raise") /\ UNCHANGED attempt
  /\ UNCHANGED <<snapshot, release, annotated, deaths>>

\* The job ends, well or not, or is late: what follows is the training job, which is refused.
EndBase(s) ==
  /\ Doing(s, "base")
  /\ GoOn(s, "raise")
  /\ UNCHANGED <<attempt, snapshot, release, annotated, deaths>>

\* The handler of the script: the attempt has failed, also when it is another process's by now.
MarkFailed(s) ==
  /\ Doing(s, "raise")
  /\ End(s, Mark(script[s].attempt, "failed"))
  /\ UNCHANGED <<snapshot, release, annotated, deaths>>

LeaseLapses(t) ==
  /\ attempt[t].owner # Nobody /\ ~attempt[t].lapsed
  /\ attempt' = [attempt EXCEPT ![t].lapsed = TRUE]
  /\ UNCHANGED <<snapshot, release, annotated, script, deaths>>

ScriptDies(s) ==
  /\ ~Doing(s, "idle") /\ deaths < MaxDeaths
  /\ End(s, attempt)
  /\ deaths' = deaths + 1
  /\ UNCHANGED <<snapshot, release, annotated>>

\* approve_snapshot, revoke_snapshot and revoke_source of the lineage, by other people; a release that
\* stands on a revoked snapshot is rolled back in the same transaction.
DecideSnapshot ==
  /\ \/ snapshot = "candidate" /\ snapshot' = "approved" /\ UNCHANGED <<release, annotated>>
     \/ /\ snapshot' = IF snapshot = "none" THEN "none" ELSE "revoked"
        /\ release' = IF release = "none" THEN "none" ELSE "rolled_back"
        /\ annotated' \in {annotated, FALSE}
  /\ UNCHANGED <<attempt, script, deaths>>

\* ReleaseGovernance.advance, by other people; a rejection counts as a rollback.
DecideRelease ==
  /\ \/ release = "awaited" /\ release' \in {"promoted", "rolled_back"}
     \/ release = "promoted" /\ release' = "rolled_back"
  /\ UNCHANGED <<attempt, snapshot, annotated, script, deaths>>

ScriptStep(s) ==
  \/ AnnotationRefused(s) \/ CreateOrLoad(s) \/ AcquireAttempt(s) \/ MarkRunning(s)
  \/ FindSnapshot(s) \/ CheckApproval(s) \/ PrepareBase(s) \/ AwaitApproval(s) \/ Renew(s)
  \/ EndBase(s) \/ MarkFailed(s)

AttemptStep ==
  \/ \E s \in Scripts : Start(s) \/ ScriptStep(s) \/ ScriptDies(s)
  \/ \E s \in Scripts, t \in Attempts : Resume(s, t)
  \/ \E t \in Attempts : LeaseLapses(t)
  \/ DecideSnapshot \/ DecideRelease

---------------------------------------------------------------------------
AttemptTypeOK ==
  /\ attempt \in [Attempts -> [state : States \cup {"absent"}, owner : Scripts \cup {Gone, Nobody},
                               lapsed : BOOLEAN, config : Configs \cup {"none", Outdated},
                               snap : BOOLEAN, release : BOOLEAN]]
  /\ \A s \in Scripts : script[s].attempt \in Attempts \cup {"none"}
  /\ IndexHolds(attempt)

\* What stops every script before it can end the attempt: annotations that are revoked, a snapshot that is
\* not approved, a release that is promoted by now, a configuration that cannot be put together again.
HeldUp(t) ==
  \/ ~annotated
  \/ attempt[t].snap /\ snapshot # "approved"
  \/ attempt[t].release /\ release = "promoted"
  \/ attempt[t].config = Outdated

\* A run is not held up by an attempt for ever: whatever an earlier version left, whatever process died,
\* and whoever had the lease, each active attempt can be taken up and ends, unless it is held up.
AttemptSettles == \A t \in Attempts : IsActive(t) ~> (~IsActive(t) \/ HeldUp(t))
=============================================================================
