------------------------- MODULE ReleaseGovernance -------------------------
(***************************************************************************)
(* src/release/governance.py and src/harness/qualification.py over the     *)
(* rows of TrainingLineage: a release candidate names a verified adapter,  *)
(* passes shadow and canary and is promoted; a qualification of the data   *)
(* names the campaigns and releases it vouches for, and revoking it        *)
(* reaches into the lineage.  Resolved is what src/inference/              *)
(* adapter_runtime.py makes of the releases: the adapter it may serve.     *)
(***************************************************************************)
EXTENDS TrainingLineage, Sequences

CONSTANTS Qualifications  \* identifiers of qualification_records

VARIABLES
  qualification,  \* the rows of qualification_records
  promotions      \* releases in the order of their promotion (updated_at)

vars == <<annotation, snapshot, adapter, campaign, trial, release, tx, qualification, promotions>>

Release ==
  [status : LiveRelease \cup {"absent", "rejected", "rolled_back"},
   adapter : Adapters \cup {None}, snapshot : Snapshots \cup {None},
   qualification : Qualifications \cup {None},
   by : Users \cup {None}, promoter : Users \cup {None}]

Qualification ==
  [state : {"absent", "draft", "data_approved", "calibrated", "revoked"},
   candidate : Evaluations \cup {None}, by : Users \cup {None}]

(* An open transaction; new is the identifier of the row it will insert. *)
Tx ==
  [op : Revoking \cup {"idle", "insert_snapshot", "insert_adapter", "insert_release",
                       "promoted", "rolled_back"},
   new : Snapshots \cup Adapters \cup Releases \cup {None},
   from : SUBSET (Annotations \cup Snapshots \cup Releases \cup Release),
   by : Users \cup {None},
   shared : SUBSET (Annotations \cup Snapshots),
   held : SUBSET (Annotations \cup Snapshots \cup Adapters \cup Releases)]

RowsOK ==
  /\ annotation \in [Annotations -> AnnotationStates]
  /\ snapshot \in [Snapshots -> Snapshot]
  /\ adapter \in [Adapters -> Adapter]
  /\ campaign \in [Evaluations -> Campaign]
  /\ trial \in [Trials -> Trial]
  /\ release \in [Releases -> Release]
  /\ qualification \in [Qualifications -> Qualification]
  /\ promotions \in Seq(Releases)

TypeOK == RowsOK /\ tx \in [Sessions -> Tx]

InitG ==
  /\ Init
  /\ qualification = [q \in Qualifications |-> [state |-> "absent", candidate |-> None, by |-> None]]
  /\ promotions = <<>>
-----------------------------------------------------------------------------
(* The dependencies of a candidate, read by a plain SELECT.  Any passed    *)
(* campaign will do; a GO decision has to be the adapter's own.  The       *)
(* rollback target, another promoted release or the base model, is checked *)
(* as well and then read by nothing, so it is left out.                    *)
DependenciesVerified(d) ==
  /\ adapter[d].state = "verified"
  /\ snapshot[adapter[d].snapshot].state = "approved"
  /\ \/ adapter[d].evaluation = Decision
     \/ \E e \in Evaluations : campaign[e].state = "passed"

ReadDependencies(s, r, d, u, q) ==
  /\ release[r].status = "absent" /\ Fresh(r)
  /\ DependenciesVerified(d)
  /\ q # None => qualification[q].state # "absent"  \* a foreign key
  /\ \E promoter \in Users \ {u} :
       Begin(s, [NoTx EXCEPT !.op = "insert_release", !.new = r, !.by = u,
         !.from = {[status |-> "candidate", adapter |-> d, snapshot |-> adapter[d].snapshot,
                    qualification |-> q, by |-> u, promoter |-> promoter]}])
  /\ UNCHANGED <<qualification, promotions>>

InsertRelease(s) ==
  /\ tx[s].op = "insert_release"
  /\ \E row \in tx[s].from : release' = [release EXCEPT ![tx[s].new] = row]
  /\ End(s)
  /\ UNCHANGED <<annotation, snapshot, adapter, campaign, trial, qualification, promotions>>

(* A manifest of an earlier harness_version names no adapter and is not    *)
(* checked.                                                                *)
CreateUngoverned(r) ==
  /\ release[r].status = "absent" /\ Fresh(r)
  /\ release' = [release EXCEPT ![r].status = "candidate"]
  /\ UNCHANGED <<annotation, snapshot, adapter, campaign, trial, tx, qualification, promotions>>

(* ReleaseGovernance.transitions *)
Transitions(status) ==
  CASE status = "candidate" -> {"shadow", "rejected"}
    [] status = "shadow" -> {"canary", "rejected"}
    [] status = "canary" -> {"promoted", "rolled_back"}
    [] status = "promoted" -> {"rolled_back"}
    [] OTHER -> {}

(* Defect: the status that observe has read is trusted. *)
MayAdvanceObserved(r, target, u) ==
  /\ target \in Transitions(release[r].status) \cup Transitions("canary")
  /\ target = "promoted" /\ release[r].adapter # None =>
       release[r].promoter = u /\ release[r].by # u

MayAdvance(r, target, u) ==
  /\ target \in Transitions(release[r].status)
  /\ target = "promoted" /\ release[r].adapter # None =>
       release[r].promoter = u /\ release[r].by # u

(* advance, under the lock of the row.  A stale expected_version is        *)
(* refused and changes nothing.                                            *)
Advance(r, target, u) ==
  /\ Unlocked({r})
  /\ MayAdvance(r, target, u)
  /\ release' = [release EXCEPT ![r].status = target]
  /\ promotions' = IF target = "promoted" THEN Append(promotions, r) ELSE promotions
  /\ UNCHANGED <<annotation, snapshot, adapter, campaign, trial, qualification>>

AdvanceRelease(r, target, u) == Advance(r, target, u) /\ UNCHANGED tx

(* observe reads the canary and judges its metrics in one transaction and  *)
(* advances the release in another.  Too few samples, or a healthy canary  *)
(* that is not to be promoted yet, leave everything as it is.              *)
Observe(s, r, u) ==
  /\ release[r].status = "canary"
  /\ \E target \in {"promoted", "rolled_back"} :
       Begin(s, [NoTx EXCEPT !.op = target, !.from = {r}, !.by = u])
  /\ UNCHANGED <<qualification, promotions>>

ActOnObservation(s) ==
  /\ tx[s].op \in {"promoted", "rolled_back"}
  /\ \E r \in tx[s].from : Advance(r, tx[s].op, tx[s].by)
  /\ End(s)
-----------------------------------------------------------------------------
CreateQualification(q, u) ==
  /\ qualification[q].state = "absent"
  /\ qualification' =
       [qualification EXCEPT ![q] = [state |-> "draft", candidate |-> None, by |-> u]]
  /\ UNCHANGED <<annotation, snapshot, adapter, campaign, trial, release, tx, promotions>>

ApproveData(q) ==
  /\ qualification[q].state = "draft"
  /\ qualification' = [qualification EXCEPT ![q].state = "data_approved"]
  /\ UNCHANGED <<annotation, snapshot, adapter, campaign, trial, release, tx, promotions>>

MarkCalibrated(q, base, candidate, u) ==
  /\ qualification[q].state = "data_approved"
  /\ qualification[q].by # u
  /\ campaign[base].state = "passed" /\ campaign[candidate].state = "passed"
  /\ qualification' =
       [qualification EXCEPT ![q].state = "calibrated", ![q].candidate = candidate]
  /\ UNCHANGED <<annotation, snapshot, adapter, campaign, trial, release, tx, promotions>>

(* mark_pilot_ready has no action.  It wants the manifest of the candidate *)
(* to name the release_id of the candidate itself, which create_candidate  *)
(* makes up after it was given the manifest, and no statement changes a    *)
(* manifest: it is refused in every reachable state.                       *)

(* No statement of the program sets qualification_id of a snapshot, so the *)
(* updates by that column find none.  The candidate campaign leads to the  *)
(* adapter it verified and its snapshot, and qualification_id to the       *)
(* releases whose manifest names it; the row-level policy of               *)
(* release_records hides those from a reviewer.  The statements are one    *)
(* step.                                                                   *)
RevokeQualification(q, role) ==
  LET judged == {d \in Adapters :
        adapter[d].evaluation \in Evaluations /\ adapter[d].evaluation = qualification[q].candidate}
      adapters == {d \in judged : adapter[d].state \in LiveAdapter}
      snapshots == {x \in Snapshots :
        snapshot[x].state \in LiveSnapshot /\ \E d \in judged : adapter[d].snapshot = x}
      releases == {r \in Releases :
        role = "admin" /\ release[r].qualification = q /\ release[r].status \in LiveRelease}
  IN
  /\ qualification[q].state \notin {"absent", "revoked"}
  /\ Unlocked(adapters \cup snapshots \cup releases)
  /\ qualification' = [qualification EXCEPT ![q].state = "revoked"]
  /\ adapter' = [d \in Adapters |->
       IF d \in adapters THEN [adapter[d] EXCEPT !.state = "revoked"] ELSE adapter[d]]
  /\ snapshot' = [x \in Snapshots |->
       IF x \in snapshots THEN [snapshot[x] EXCEPT !.state = "revoked"] ELSE snapshot[x]]
  /\ release' = [r \in Releases |->
       IF r \in releases THEN [release[r] EXCEPT !.status = "rolled_back"] ELSE release[r]]
  /\ UNCHANGED <<annotation, campaign, trial, tx, promotions>>
-----------------------------------------------------------------------------
Releasing ==
  \/ \E s \in Sessions, r \in Releases, d \in Adapters, u \in Users,
        q \in Qualifications \cup {None} : ReadDependencies(s, r, d, u, q)
  \/ \E s \in Sessions : InsertRelease(s)
  \/ \E r \in Releases : CreateUngoverned(r)
  \/ \E r \in Releases, u \in Users :
       \E target \in {"shadow", "canary", "promoted", "rejected", "rolled_back"} :
         AdvanceRelease(r, target, u)
  \/ \E s \in Sessions, r \in Releases, u \in Users : Observe(s, r, u)
  \/ \E s \in Sessions : ActOnObservation(s)

Qualifying ==
  \E q \in Qualifications :
    \/ \E u \in Users : CreateQualification(q, u)
    \/ ApproveData(q)
    \/ \E base, candidate \in Evaluations, u \in Users : MarkCalibrated(q, base, candidate, u)
    \/ \E role \in {"admin", "reviewer"} : RevokeQualification(q, role)

Next ==
  \/ LineageNext /\ UNCHANGED <<qualification, promotions>>
  \/ Releasing
  \/ Qualifying

Spec == InitG /\ [][Next]_vars
-----------------------------------------------------------------------------
(* _promoted_adapter for an administrator, the only role the policy of     *)
(* release_records lets see a release: the one promoted last decides, and  *)
(* gives no adapter at all when its adapter is not verified.               *)
Promoted ==
  SelectSeq(promotions, LAMBDA r : release[r].status = "promoted" /\ release[r].adapter # None)

(* Defect: the state of the adapter is not looked at. *)
ResolvedUnchecked ==
  IF Promoted = <<>> THEN None ELSE release[Promoted[Len(Promoted)]].adapter

Resolved ==
  LET d == IF Promoted = <<>> THEN None ELSE release[Promoted[Len(Promoted)]].adapter
  IN IF d \in Adapters /\ adapter[d].state = "verified" THEN d ELSE None
-----------------------------------------------------------------------------
NothingDisqualified == \A q \in Qualifications : qualification[q].state # "revoked"

(* No usable snapshot holds an annotation whose source was revoked, even   *)
(* if the snapshot was being put together while the revocation ran.        *)
SnapshotsAreClean ==
  \A x \in Snapshots :
    snapshot[x].state \in LiveSnapshot =>
      \A a \in snapshot[x].items : annotation[a] # "revoked"

(* An adapter that can still be verified or released was trained on an     *)
(* approved snapshot: a revocation of the snapshot reaches every adapter,  *)
(* one that was being recorded too.  Revoking a qualification does not.    *)
AdaptersFollowSnapshots ==
  NothingDisqualified =>
    \A d \in Adapters :
      adapter[d].state \in LiveAdapter => snapshot[adapter[d].snapshot].state = "approved"

(* An adapter verified by a campaign stands on enough valid trials of a    *)
(* campaign of its own, whatever was completed or registered later.        *)
VerifiedIsMeasured ==
  \A d \in Adapters : \A e \in Evaluations :
    adapter[d].state = "verified" /\ adapter[d].evaluation = e =>
      Measured(e) /\ campaign[e].subject = d

(* The same holds of the campaign a qualification was calibrated with.     *)
QualifiedIsMeasured ==
  \A q \in Qualifications :
    qualification[q].state = "calibrated" => Measured(qualification[q].candidate)

(* What may be served was trained on no revoked source, although a release *)
(* can be inserted behind the back of a revocation and be promoted.        *)
ResolvedIsClean ==
  NothingDisqualified /\ Resolved # None =>
    \A a \in snapshot[adapter[Resolved].snapshot].items : annotation[a] # "revoked"

(* A release that was rejected or rolled back stays so, whatever was read  *)
(* of it before.                                                           *)
RolledBackStays ==
  [][\A r \in Releases :
       release[r].status \in {"rejected", "rolled_back"} => release'[r] = release[r]]_vars
=============================================================================
