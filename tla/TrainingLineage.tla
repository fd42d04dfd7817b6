-------------------------- MODULE TrainingLineage --------------------------
(***************************************************************************)
(* src/harness/evaluation.py: what one tenant's adapters are trained on    *)
(* and judged by, and how a source is taken back.  Reviewed annotations    *)
(* make up a training snapshot, an approved snapshot an adapter, a passed  *)
(* campaign of trials verifies the adapter, and releases name it.          *)
(*                                                                         *)
(* PostgreSQL runs the transactions at READ COMMITTED.  One that reads its *)
(* row under FOR UPDATE and writes it at once is a single step.  The       *)
(* others take a step per statement: tx keeps the rows they have locked    *)
(* and what they will write when they commit.                              *)
(***************************************************************************)
EXTENDS Naturals, FiniteSets

CONSTANTS
  Annotations, Snapshots, Adapters, Evaluations, Trials, Releases,  \* row identifiers
  Users,           \* reviewers and administrators of the tenant
  Sessions,        \* bound: transactions of several statements open at once
  Revocable,       \* bound: the annotations and snapshots a revocation is asked for
  RequiredTrials,  \* required_trials of a campaign
  Decision,        \* verified by a GO decision and not by a campaign
  None             \* SQL NULL

ASSUME LineageAssumption ==
  /\ RequiredTrials \in Nat \ {0}
  /\ Decision \notin Evaluations
  /\ IsFiniteSet(Trials)

(* Every table has its own identifiers, so a set of rows tells whose they are. *)
ASSUME RowsAssumption ==
  /\ Annotations \cap (Snapshots \cup Adapters \cup Releases) = {}
  /\ Snapshots \cap (Adapters \cup Releases) = {}
  /\ Adapters \cap Releases = {}
  /\ None \notin Annotations \cup Snapshots \cup Adapters \cup Evaluations \cup Releases \cup Users

VARIABLES
  annotation,  \* status of the rows of trajectory_annotations
  snapshot,    \* training_snapshots with their training_snapshot_items
  adapter,     \* adapter_manifests
  campaign,    \* evaluation_campaigns
  trial,       \* trajectory_trials
  release,     \* release_records
  tx           \* the open transactions

rowVars == <<annotation, snapshot, adapter, campaign, trial, release>>

lineageVars == <<annotation, snapshot, adapter, campaign, trial, release, tx>>
-----------------------------------------------------------------------------
(* "approved" has training_allowed set, "revoked" is written by            *)
(* revoke_source, and "unusable" stands for all the rest: not reviewed     *)
(* yet, or reviewed without a permission to train.  A review that says     *)
(* "revoked" belongs to these too: it reaches no snapshot.                 *)
AnnotationStates == {"unusable", "approved", "revoked"}

LiveSnapshot == {"candidate", "approved"}

LiveAdapter == {"candidate", "verified"}

LiveRelease == {"candidate", "shadow", "canary", "promoted"}

Snapshot ==
  [state : LiveSnapshot \cup {"absent", "revoked"}, items : SUBSET Annotations,
   by : Users \cup {None}]

Adapter ==
  [state : LiveAdapter \cup {"absent", "revoked"}, snapshot : Snapshots \cup {None},
   evaluation : Evaluations \cup {Decision, None}]

Campaign ==
  [state : {"absent", "draft", "passed", "failed", "blocked"}, subject : Adapters \cup {None}]

Trial ==
  [state : {"absent", "queued", "valid", "invalid"}, evaluation : Evaluations \cup {None}]

(* The transactions that wait between two statements, by what comes next. *)
Revoking == {"revoke_snapshots", "revoke_adapters", "revoke_releases", "commit_revocation"}

NoTx == [op |-> "idle", new |-> None, from |-> {}, by |-> None, shared |-> {}, held |-> {}]

Init ==
  /\ annotation = [a \in Annotations |-> "unusable"]
  /\ snapshot = [x \in Snapshots |-> [state |-> "absent", items |-> {}, by |-> None]]
  /\ adapter = [d \in Adapters |-> [state |-> "absent", snapshot |-> None, evaluation |-> None]]
  /\ campaign = [e \in Evaluations |-> [state |-> "absent", subject |-> None]]
  /\ trial = [t \in Trials |-> [state |-> "absent", evaluation |-> None]]
  /\ release = [r \in Releases |->
       [status |-> "absent", adapter |-> None, snapshot |-> None, qualification |-> None,
        by |-> None, promoter |-> None]]
  /\ tx = [s \in Sessions |-> NoTx]
-----------------------------------------------------------------------------
(* Row locks.  An update waits for readers FOR SHARE and for writers, a    *)
(* reader FOR SHARE for writers only, a plain SELECT for nobody.           *)
Writable(rows, s) == \A o \in Sessions \ {s} : rows \cap (tx[o].shared \cup tx[o].held) = {}

Readable(rows, s) == \A o \in Sessions \ {s} : rows \cap tx[o].held = {}

Unlocked(rows) == \A s \in Sessions : rows \cap (tx[s].shared \cup tx[s].held) = {}

(* Identifiers are fresh UUIDs. *)
Fresh(row) == \A s \in Sessions : tx[s].new # row

Begin(s, t) ==
  /\ tx[s].op = "idle"
  /\ tx' = [tx EXCEPT ![s] = t]
  /\ UNCHANGED rowVars

Continue(s, t) == tx' = [tx EXCEPT ![s] = t] /\ UNCHANGED rowVars

End(s) == tx' = [tx EXCEPT ![s] = NoTx]
-----------------------------------------------------------------------------
(* A later review overrides any earlier one, and a revocation too. *)
ReviewAnnotation(a) ==
  /\ Unlocked({a})
  /\ \E status \in {"approved", "unusable"} : annotation' = [annotation EXCEPT ![a] = status]
  /\ UNCHANGED <<snapshot, adapter, campaign, trial, release, tx>>

(* Defect: a plain SELECT reads the annotations. *)
ReadSourcesUnlocked(s, x, items, u) ==
  /\ snapshot[x].state = "absent" /\ Fresh(x)
  /\ Cardinality(items) >= 2
  /\ \A a \in items : annotation[a] = "approved"
  /\ Begin(s, [NoTx EXCEPT !.op = "insert_snapshot", !.new = x, !.from = items, !.by = u])

(* Every item is checked against its annotation FOR SHARE, which holds     *)
(* back reviews and revocations until the snapshot is in.                  *)
ReadSources(s, x, items, u) ==
  /\ snapshot[x].state = "absent" /\ Fresh(x)
  /\ Cardinality(items) >= 2  \* validate_training_items: a train and a validation item
  /\ Readable(items, s)
  /\ \A a \in items : annotation[a] = "approved"
  /\ Begin(s, [NoTx EXCEPT !.op = "insert_snapshot", !.new = x, !.from = items, !.by = u,
                           !.shared = items])

InsertSnapshot(s) ==
  /\ tx[s].op = "insert_snapshot"
  /\ snapshot' = [snapshot EXCEPT ![tx[s].new] =
       [state |-> "candidate", items |-> tx[s].from, by |-> tx[s].by]]
  /\ End(s)
  /\ UNCHANGED <<annotation, adapter, campaign, trial, release>>

ApproveSnapshot(x, u) ==
  /\ Unlocked({x})
  /\ snapshot[x].state = "candidate"
  /\ snapshot[x].by # u
  /\ Cardinality(snapshot[x].items) >= 2
  /\ snapshot' = [snapshot EXCEPT ![x].state = "approved"]
  /\ UNCHANGED <<annotation, adapter, campaign, trial, release, tx>>

ReadSnapshot(s, d, x) ==
  /\ adapter[d].state = "absent" /\ Fresh(d)
  /\ Readable({x}, s)
  /\ snapshot[x].state = "approved"
  /\ Begin(s, [NoTx EXCEPT !.op = "insert_adapter", !.new = d, !.from = {x}, !.shared = {x}])

InsertAdapter(s) ==
  /\ tx[s].op = "insert_adapter"
  /\ \E x \in tx[s].from :
       adapter' = [adapter EXCEPT ![tx[s].new] =
         [state |-> "candidate", snapshot |-> x, evaluation |-> None]]
  /\ End(s)
  /\ UNCHANGED <<annotation, snapshot, campaign, trial, release>>
-----------------------------------------------------------------------------
CreateCampaign(e, subject) ==
  /\ campaign[e].state = "absent"
  /\ campaign' = [campaign EXCEPT ![e] = [state |-> "draft", subject |-> subject]]
  /\ UNCHANGED <<annotation, snapshot, adapter, trial, release, tx>>

RegisterTrial(t, e) ==
  /\ trial[t].state = "absent"
  /\ campaign[e].state # "absent"
  /\ trial' = [trial EXCEPT ![t] = [state |-> "queued", evaluation |-> e]]
  /\ UNCHANGED <<annotation, snapshot, adapter, campaign, release, tx>>

(* Defect: the result of a trial can be replaced. *)
UnfinishedOrFinished(t) == trial[t].state # "absent"

Unfinished(t) == trial[t].state = "queued"

(* succeeded and failed trials are valid, all others are invalidated. *)
FinishTrial(t) ==
  /\ Unfinished(t)
  /\ \E outcome \in {"valid", "invalid"} : trial' = [trial EXCEPT ![t].state = outcome]
  /\ UNCHANGED <<annotation, snapshot, adapter, campaign, release, tx>>

ValidTrials(e) == {t \in Trials : trial[t].state = "valid" /\ trial[t].evaluation = e}

Measured(e) == Cardinality(ValidTrials(e)) >= RequiredTrials

(* Defect: the gates are looked at before the trials. *)
CompleteByGates(e, gatesPassed) ==
  /\ campaign[e].state # "absent"
  /\ campaign' = [campaign EXCEPT ![e].state =
       IF gatesPassed THEN "passed" ELSE IF Measured(e) THEN "failed" ELSE "blocked"]
  /\ UNCHANGED <<annotation, snapshot, adapter, trial, release, tx>>

(* A campaign can be completed again, and then has the later result.  A    *)
(* baseline campaign that does not fit is refused.                         *)
CompleteCampaign(e, gatesPassed) ==
  /\ campaign[e].state # "absent"
  /\ campaign' = [campaign EXCEPT ![e].state =
       CASE ~Measured(e) -> "blocked"
         [] Measured(e) /\ gatesPassed -> "passed"
         [] Measured(e) /\ ~gatesPassed -> "failed"]
  /\ UNCHANGED <<annotation, snapshot, adapter, trial, release, tx>>

(* FOR UPDATE on the join locks the adapter and its snapshot. *)
Verifiable(d) ==
  /\ adapter[d].state = "candidate"
  /\ snapshot[adapter[d].snapshot].state = "approved"
  /\ Unlocked({d, adapter[d].snapshot})

VerifyAdapter(d, e) ==
  /\ Verifiable(d)
  /\ campaign[e].state = "passed"
  /\ campaign[e].subject = d
  /\ adapter' = [adapter EXCEPT ![d].state = "verified", ![d].evaluation = e]
  /\ UNCHANGED <<annotation, snapshot, campaign, trial, release, tx>>

(* src/harness/release_policy.py, after the decision itself was verified. *)
VerifyAdapterForRelease(d) ==
  /\ Verifiable(d)
  /\ adapter' = [adapter EXCEPT ![d].state = "verified", ![d].evaluation = Decision]
  /\ UNCHANGED <<annotation, snapshot, campaign, trial, release, tx>>
-----------------------------------------------------------------------------
(* Revocation: lock the annotations, look up their snapshots, then update  *)
(* snapshots, adapters and releases, each in a statement of its own.       *)
RevokeSource(s, sources) ==
  /\ sources # {}
  /\ Writable(sources, s)
  /\ Begin(s, [NoTx EXCEPT !.op = "revoke_snapshots", !.held = sources,
       !.from = {x \in Snapshots : snapshot[x].items \cap sources # {}}])

RevokeSnapshot(s, x) ==
  /\ snapshot[x].state \in LiveSnapshot
  /\ Writable({x}, s)
  /\ Begin(s, [NoTx EXCEPT !.op = "revoke_adapters", !.from = {x}, !.held = {x}])

SnapshotsToRevoke(s) == {x \in tx[s].from : snapshot[x].state \in LiveSnapshot}

(* Defect: only adapters in use are looked for. *)
VerifiedAdaptersToRevoke(s) ==
  {d \in Adapters : adapter[d].snapshot \in tx[s].from /\ adapter[d].state = "verified"}

AdaptersToRevoke(s) ==
  {d \in Adapters : adapter[d].snapshot \in tx[s].from /\ adapter[d].state \in LiveAdapter}

ReleasesToRollBack(s) ==
  {r \in Releases : release[r].snapshot \in tx[s].from /\ release[r].status \in LiveRelease}

Lock(s, rows, next) ==
  /\ Writable(rows, s)
  /\ Continue(s, [tx[s] EXCEPT !.op = next, !.held = @ \cup rows])

RevokeSnapshots(s) ==
  tx[s].op = "revoke_snapshots" /\ Lock(s, SnapshotsToRevoke(s), "revoke_adapters")

RevokeAdapters(s) ==
  tx[s].op = "revoke_adapters" /\ Lock(s, AdaptersToRevoke(s), "revoke_releases")

RollBackReleases(s) ==
  tx[s].op = "revoke_releases" /\ Lock(s, ReleasesToRollBack(s), "commit_revocation")

CommitRevocation(s) ==
  LET rows == tx[s].held IN
  /\ tx[s].op = "commit_revocation"
  /\ annotation' = [a \in Annotations |-> IF a \in rows THEN "revoked" ELSE annotation[a]]
  /\ snapshot' = [x \in Snapshots |->
       IF x \in rows THEN [snapshot[x] EXCEPT !.state = "revoked"] ELSE snapshot[x]]
  /\ adapter' = [d \in Adapters |->
       IF d \in rows THEN [adapter[d] EXCEPT !.state = "revoked"] ELSE adapter[d]]
  /\ release' = [r \in Releases |->
       IF r \in rows THEN [release[r] EXCEPT !.status = "rolled_back"] ELSE release[r]]
  /\ End(s)
  /\ UNCHANGED <<campaign, trial>>

(* The connection is lost, the process dies, a check or a statement fails, *)
(* or PostgreSQL breaks a deadlock: nothing the transaction did remains.   *)
Abort(s) ==
  /\ tx[s].op # "idle"
  /\ End(s)
  /\ UNCHANGED rowVars
-----------------------------------------------------------------------------
Reviews ==
  \/ \E a \in Annotations : ReviewAnnotation(a)
  \/ \E s \in Sessions, x \in Snapshots, items \in SUBSET Annotations, u \in Users :
       ReadSources(s, x, items, u)
  \/ \E s \in Sessions : InsertSnapshot(s)
  \/ \E x \in Snapshots, u \in Users : ApproveSnapshot(x, u)

Training ==
  \/ \E s \in Sessions, d \in Adapters, x \in Snapshots : ReadSnapshot(s, d, x)
  \/ \E s \in Sessions : InsertAdapter(s)
  \/ \E d \in Adapters, e \in Evaluations : VerifyAdapter(d, e)
  \/ \E d \in Adapters : VerifyAdapterForRelease(d)

Judging ==
  \/ \E e \in Evaluations, subject \in Adapters \cup {None} : CreateCampaign(e, subject)
  \/ \E t \in Trials, e \in Evaluations : RegisterTrial(t, e)
  \/ \E t \in Trials : FinishTrial(t)
  \/ \E e \in Evaluations, gatesPassed \in BOOLEAN : CompleteCampaign(e, gatesPassed)

Revocation ==
  \/ \E s \in Sessions, sources \in SUBSET (Annotations \cap Revocable) : RevokeSource(s, sources)
  \/ \E s \in Sessions, x \in Snapshots \cap Revocable : RevokeSnapshot(s, x)
  \/ \E s \in Sessions :
       \/ RevokeSnapshots(s)
       \/ RevokeAdapters(s)
       \/ RollBackReleases(s)
       \/ CommitRevocation(s)
       \/ Abort(s)

LineageNext == Reviews \/ Training \/ Judging \/ Revocation
=============================================================================
