---------------------- MODULE ReleaseGovernanceProofs ----------------------
(***************************************************************************)
(* Proofs about ReleaseGovernance, for any rows, users and number of open  *)
(* transactions.  What the transactions leave to each other is in the      *)
(* locks: LockInv keeps a row that one of them has updated away from all   *)
(* the others, and what a transaction has read FOR SHARE or is going to    *)
(* update stays as it was read until it commits.                           *)
(***************************************************************************)
EXTENDS ReleaseGovernance, FiniteSetTheorems, TLAPS

(* What a transaction that waits between two statements has in hand.       *)
TxInv ==
  \A s \in Sessions :
    /\ tx[s].op = "insert_snapshot" =>
         /\ tx[s].new \in Snapshots /\ tx[s].from \subseteq Annotations
         /\ tx[s].shared = tx[s].from
    /\ tx[s].op = "insert_adapter" =>
         /\ tx[s].new \in Adapters /\ tx[s].from \subseteq Snapshots
         /\ tx[s].shared = tx[s].from
    /\ tx[s].op = "insert_release" =>
         /\ tx[s].new \in Releases /\ tx[s].from \subseteq Release
         /\ \A row \in tx[s].from : row.status = "candidate"
    /\ tx[s].op \in {"promoted", "rolled_back"} => tx[s].from \subseteq Releases
    /\ tx[s].op \in Revoking => tx[s].from \subseteq Snapshots

Typed == TypeOK /\ TxInv

(* A row of release_records with another status is one.                    *)
LEMMA ReleaseMoved ==
  ASSUME NEW row \in Release,
         NEW status \in LiveRelease \cup {"absent", "rejected", "rolled_back"}
  PROVE  [row EXCEPT !.status = status] \in Release
  BY DEF Release

(* So is a snapshot in another state.                                      *)
LEMMA SnapshotMoved ==
  ASSUME NEW row \in Snapshot, NEW state \in LiveSnapshot \cup {"absent", "revoked"}
  PROVE  [row EXCEPT !.state = state] \in Snapshot
  BY DEF Snapshot

(* At the start nothing is in the tables and no transaction is open.       *)
LEMMA InitTyped == InitG => Typed
  BY LineageAssumption, RowsAssumption
  DEF InitG, Init, Typed, TypeOK, RowsOK, TxInv, AnnotationStates,
      LiveSnapshot, LiveAdapter, LiveRelease,
      Snapshot, Adapter, Campaign, Trial, Release, Qualification, Tx, Revoking, NoTx

(* Each action writes rows of their form; what waits in a transaction has  *)
(* it too.                                                                 *)
LEMMA StepTyped == Typed /\ [Next]_vars => Typed'
<1> SUFFICES ASSUME Typed, [Next]_vars PROVE Typed'
  OBVIOUS
<1> USE DEF Typed, TypeOK, Revoking
<1>1. CASE UNCHANGED vars
  BY <1>1 DEF vars, RowsOK, TxInv
<1>2. ASSUME NEW a \in Annotations, ReviewAnnotation(a), UNCHANGED <<qualification, promotions>>
      PROVE   Typed'
  <2>1. tx' = tx /\ TxInv'
    BY <1>2 DEF ReviewAnnotation, TxInv
  <2>2. RowsOK'
    BY <1>2 DEF ReviewAnnotation, RowsOK, AnnotationStates
  <2> QED
    BY <2>1, <2>2
<1>3. ASSUME NEW s \in Sessions, NEW x \in Snapshots, NEW items \in SUBSET Annotations,
             NEW u \in Users, ReadSources(s, x, items, u),
             UNCHANGED <<qualification, promotions>>
      PROVE   Typed'
  <2>1. tx' \in [Sessions -> Tx]
    BY <1>3 DEF ReadSources, Begin, End, rowVars, NoTx, Tx, TxInv
  <2>2. TxInv'
    BY <1>3 DEF ReadSources, Begin, End, rowVars, NoTx, TxInv, Tx
  <2>3. RowsOK'
    BY <1>3 DEF RowsOK, ReadSources, Begin, End, rowVars, NoTx
  <2> QED
    BY <2>1, <2>2, <2>3
<1>4. ASSUME NEW s \in Sessions, InsertSnapshot(s), UNCHANGED <<qualification, promotions>>
      PROVE   Typed'
  <2>1. tx' \in [Sessions -> Tx]
    BY <1>4 DEF InsertSnapshot, Begin, End, rowVars, NoTx, Tx, TxInv
  <2>2. TxInv'
    BY <1>4 DEF InsertSnapshot, Begin, End, rowVars, NoTx, TxInv, Tx
  <2>3. RowsOK'
    BY <1>4 DEF RowsOK, InsertSnapshot, Begin, End, rowVars, NoTx, Snapshot, LiveSnapshot, TxInv, Tx
  <2> QED
    BY <2>1, <2>2, <2>3
<1>5. ASSUME NEW x \in Snapshots, NEW u \in Users, ApproveSnapshot(x, u),
             UNCHANGED <<qualification, promotions>>
      PROVE   Typed'
  <2>1. tx' = tx /\ TxInv'
    BY <1>5 DEF ApproveSnapshot, TxInv
  <2>2. RowsOK'
    BY <1>5 DEF ApproveSnapshot, RowsOK, Snapshot, LiveSnapshot
  <2> QED
    BY <2>1, <2>2
<1>6. ASSUME NEW s \in Sessions, NEW d \in Adapters, NEW x \in Snapshots, ReadSnapshot(s, d, x),
             UNCHANGED <<qualification, promotions>>
      PROVE   Typed'
  <2>1. tx' \in [Sessions -> Tx]
    BY <1>6 DEF ReadSnapshot, Begin, End, rowVars, NoTx, Tx, TxInv
  <2>2. TxInv'
    BY <1>6 DEF ReadSnapshot, Begin, End, rowVars, NoTx, TxInv, Tx
  <2>3. RowsOK'
    BY <1>6 DEF RowsOK, ReadSnapshot, Begin, End, rowVars, NoTx
  <2> QED
    BY <2>1, <2>2, <2>3
<1>7. ASSUME NEW s \in Sessions, InsertAdapter(s), UNCHANGED <<qualification, promotions>>
      PROVE   Typed'
  <2>1. tx' \in [Sessions -> Tx]
    BY <1>7 DEF InsertAdapter, Begin, End, rowVars, NoTx, Tx, TxInv
  <2>2. TxInv'
    BY <1>7 DEF InsertAdapter, Begin, End, rowVars, NoTx, TxInv, Tx
  <2>3. RowsOK'
    BY <1>7 DEF RowsOK, InsertAdapter, Begin, End, rowVars, NoTx, Adapter, LiveAdapter, TxInv, Tx
  <2> QED
    BY <2>1, <2>2, <2>3
<1>8. ASSUME NEW d \in Adapters, NEW e \in Evaluations, VerifyAdapter(d, e),
             UNCHANGED <<qualification, promotions>>
      PROVE   Typed'
  <2>1. tx' = tx /\ TxInv'
    BY <1>8 DEF VerifyAdapter, TxInv
  <2>2. RowsOK'
    BY <1>8 DEF VerifyAdapter, RowsOK, Adapter, LiveAdapter
  <2> QED
    BY <2>1, <2>2
<1>9. ASSUME NEW d \in Adapters, VerifyAdapterForRelease(d),
             UNCHANGED <<qualification, promotions>>
      PROVE   Typed'
  <2>1. tx' = tx /\ TxInv'
    BY <1>9 DEF VerifyAdapterForRelease, TxInv
  <2>2. RowsOK'
    BY <1>9 DEF VerifyAdapterForRelease, RowsOK, Adapter, LiveAdapter
  <2> QED
    BY <2>1, <2>2
<1>10. ASSUME NEW e \in Evaluations, NEW subject \in Adapters \cup {None},
              CreateCampaign(e, subject), UNCHANGED <<qualification, promotions>>
       PROVE   Typed'
  <2>1. tx' = tx /\ TxInv'
    BY <1>10 DEF CreateCampaign, TxInv
  <2>2. RowsOK'
    BY <1>10 DEF CreateCampaign, RowsOK, Campaign
  <2> QED
    BY <2>1, <2>2
<1>11. ASSUME NEW t \in Trials, NEW e \in Evaluations, RegisterTrial(t, e),
              UNCHANGED <<qualification, promotions>>
       PROVE   Typed'
  <2>1. tx' = tx /\ TxInv'
    BY <1>11 DEF RegisterTrial, TxInv
  <2>2. RowsOK'
    BY <1>11 DEF RegisterTrial, RowsOK, Trial
  <2> QED
    BY <2>1, <2>2
<1>12. ASSUME NEW t \in Trials, FinishTrial(t), UNCHANGED <<qualification, promotions>>
       PROVE   Typed'
  <2>1. tx' = tx /\ TxInv'
    BY <1>12 DEF FinishTrial, Unfinished, TxInv
  <2>2. RowsOK'
    BY <1>12 DEF FinishTrial, Unfinished, RowsOK, Trial
  <2> QED
    BY <2>1, <2>2
<1>13. ASSUME NEW e \in Evaluations, NEW gatesPassed \in BOOLEAN,
              CompleteCampaign(e, gatesPassed), UNCHANGED <<qualification, promotions>>
       PROVE   Typed'
  <2>1. tx' = tx /\ TxInv'
    BY <1>13 DEF CompleteCampaign, TxInv
  <2>2. RowsOK'
    BY <1>13 DEF CompleteCampaign, RowsOK, Campaign
  <2> QED
    BY <2>1, <2>2
<1>14. ASSUME NEW s \in Sessions, NEW sources \in SUBSET (Annotations \cap Revocable),
              RevokeSource(s, sources), UNCHANGED <<qualification, promotions>>
       PROVE   Typed'
  <2>1. tx' \in [Sessions -> Tx]
    BY <1>14 DEF RevokeSource, Begin, End, rowVars, NoTx, Tx, TxInv
  <2>2. TxInv'
    BY <1>14 DEF RevokeSource, Begin, End, rowVars, NoTx, TxInv, Tx
  <2>3. RowsOK'
    BY <1>14 DEF RowsOK, RevokeSource, Begin, End, rowVars, NoTx
  <2> QED
    BY <2>1, <2>2, <2>3
<1>15. ASSUME NEW s \in Sessions, NEW x \in Snapshots \cap Revocable, RevokeSnapshot(s, x),
              UNCHANGED <<qualification, promotions>>
       PROVE   Typed'
  <2>1. tx' \in [Sessions -> Tx]
    BY <1>15 DEF RevokeSnapshot, Begin, End, rowVars, NoTx, Tx, TxInv
  <2>2. TxInv'
    BY <1>15 DEF RevokeSnapshot, Begin, End, rowVars, NoTx, TxInv, Tx
  <2>3. RowsOK'
    BY <1>15 DEF RowsOK, RevokeSnapshot, Begin, End, rowVars, NoTx
  <2> QED
    BY <2>1, <2>2, <2>3
<1>16. ASSUME NEW s \in Sessions, RevokeSnapshots(s), UNCHANGED <<qualification, promotions>>
       PROVE   Typed'
  <2>1. SnapshotsToRevoke(s) \subseteq Snapshots
    BY <1>16 DEF SnapshotsToRevoke, RevokeSnapshots, TxInv
  <2>2. /\ tx[s].op \in Revoking
        /\ tx' = [tx EXCEPT ![s] =
             [tx[s] EXCEPT !.op = "revoke_adapters", !.held = @ \cup SnapshotsToRevoke(s)]]
        /\ UNCHANGED rowVars
    BY <1>16 DEF RevokeSnapshots, Lock, Continue
  <2>3. tx[s] \in Tx
    OBVIOUS
  <2>4. [tx[s] EXCEPT !.op = "revoke_adapters", !.held = @ \cup SnapshotsToRevoke(s)] \in Tx
    BY <2>1, <2>3 DEF Tx
  <2>5. tx' \in [Sessions -> Tx]
    BY <2>2, <2>4
  <2>6. TxInv'
    BY <2>2, <2>3 DEF TxInv, Tx
  <2> QED
    BY <1>16, <2>2, <2>5, <2>6 DEF RowsOK, rowVars
<1>17. ASSUME NEW s \in Sessions, RevokeAdapters(s), UNCHANGED <<qualification, promotions>>
       PROVE   Typed'
  <2>1. AdaptersToRevoke(s) \subseteq Adapters
    BY <1>17 DEF AdaptersToRevoke, RevokeAdapters, TxInv
  <2>2. /\ tx[s].op \in Revoking
        /\ tx' = [tx EXCEPT ![s] =
             [tx[s] EXCEPT !.op = "revoke_releases", !.held = @ \cup AdaptersToRevoke(s)]]
        /\ UNCHANGED rowVars
    BY <1>17 DEF RevokeAdapters, Lock, Continue
  <2>3. tx[s] \in Tx
    OBVIOUS
  <2>4. [tx[s] EXCEPT !.op = "revoke_releases", !.held = @ \cup AdaptersToRevoke(s)] \in Tx
    BY <2>1, <2>3 DEF Tx
  <2>5. tx' \in [Sessions -> Tx]
    BY <2>2, <2>4
  <2>6. TxInv'
    BY <2>2, <2>3 DEF TxInv, Tx
  <2> QED
    BY <1>17, <2>2, <2>5, <2>6 DEF RowsOK, rowVars
<1>18. ASSUME NEW s \in Sessions, RollBackReleases(s), UNCHANGED <<qualification, promotions>>
       PROVE   Typed'
  <2>1. ReleasesToRollBack(s) \subseteq Releases
    BY <1>18 DEF ReleasesToRollBack, RollBackReleases, TxInv
  <2>2. /\ tx[s].op \in Revoking
        /\ tx' = [tx EXCEPT ![s] =
             [tx[s] EXCEPT !.op = "commit_revocation", !.held = @ \cup ReleasesToRollBack(s)]]
        /\ UNCHANGED rowVars
    BY <1>18 DEF RollBackReleases, Lock, Continue
  <2>3. tx[s] \in Tx
    OBVIOUS
  <2>4. [tx[s] EXCEPT !.op = "commit_revocation", !.held = @ \cup ReleasesToRollBack(s)] \in Tx
    BY <2>1, <2>3 DEF Tx
  <2>5. tx' \in [Sessions -> Tx]
    BY <2>2, <2>4
  <2>6. TxInv'
    BY <2>2, <2>3 DEF TxInv, Tx
  <2> QED
    BY <1>18, <2>2, <2>5, <2>6 DEF RowsOK, rowVars
<1>19. ASSUME NEW s \in Sessions, CommitRevocation(s), UNCHANGED <<qualification, promotions>>
       PROVE   Typed'
  <2>1. tx' \in [Sessions -> Tx]
    BY <1>19 DEF CommitRevocation, End, NoTx, Tx
  <2>2. TxInv'
    BY <1>19 DEF CommitRevocation, End, NoTx, TxInv
  <2>3. annotation' \in [Annotations -> AnnotationStates]
    BY <1>19 DEF CommitRevocation, RowsOK, AnnotationStates
  <2>4. snapshot' \in [Snapshots -> Snapshot]
    BY <1>19, SnapshotMoved DEF CommitRevocation, RowsOK
  <2>5. adapter' \in [Adapters -> Adapter]
    BY <1>19 DEF CommitRevocation, RowsOK, Adapter
  <2>6. release' \in [Releases -> Release]
    BY <1>19, ReleaseMoved DEF CommitRevocation, RowsOK
  <2>7. UNCHANGED <<campaign, trial, qualification, promotions>>
    BY <1>19 DEF CommitRevocation
  <2> QED
    BY <2>1, <2>2, <2>3, <2>4, <2>5, <2>6, <2>7 DEF RowsOK
<1>20. ASSUME NEW s \in Sessions, Abort(s), UNCHANGED <<qualification, promotions>> PROVE Typed'
  <2>1. tx' \in [Sessions -> Tx]
    BY <1>20 DEF Abort, End, rowVars, NoTx, Tx, TxInv
  <2>2. TxInv'
    BY <1>20 DEF Abort, End, rowVars, NoTx, TxInv, Tx
  <2>3. RowsOK'
    BY <1>20 DEF RowsOK, Abort, End, rowVars, NoTx
  <2> QED
    BY <2>1, <2>2, <2>3
<1>21. ASSUME NEW s \in Sessions, NEW r \in Releases, NEW d \in Adapters, NEW u \in Users,
              NEW q \in Qualifications \cup {None}, ReadDependencies(s, r, d, u, q)
       PROVE   Typed'
  <2>1. PICK promoter \in Users \ {u} :
          Begin(s, [NoTx EXCEPT !.op = "insert_release", !.new = r, !.by = u,
            !.from = {[status |-> "candidate", adapter |-> d, snapshot |-> adapter[d].snapshot,
                       qualification |-> q, by |-> u, promoter |-> promoter]}])
    BY <1>21 DEF ReadDependencies
  <2> DEFINE row == [status |-> "candidate", adapter |-> d, snapshot |-> adapter[d].snapshot,
                     qualification |-> q, by |-> u, promoter |-> promoter]
  <2>2. row \in Release /\ row.status = "candidate"
    BY DEF RowsOK, Adapter, Release, LiveRelease
  <2> DEFINE t == [NoTx EXCEPT !.op = "insert_release", !.new = r, !.by = u, !.from = {row}]
  <2>3. tx' = [tx EXCEPT ![s] = t] /\ UNCHANGED rowVars
    BY <2>1 DEF Begin
  <2> HIDE DEF row
  <2>4. t \in Tx /\ t.op = "insert_release" /\ t.new = r /\ t.from = {row}
    BY <2>2 DEF NoTx, Tx
  <2> HIDE DEF t
  <2>5. tx' \in [Sessions -> Tx]
    BY <2>3, <2>4
  <2>6. TxInv'
    BY <2>2, <2>3, <2>4 DEF TxInv
  <2> QED
    BY <1>21, <2>3, <2>5, <2>6 DEF RowsOK, rowVars, ReadDependencies
<1>22. ASSUME NEW s \in Sessions, InsertRelease(s) PROVE Typed'
  <2>1. tx' \in [Sessions -> Tx]
    BY <1>22 DEF InsertRelease, End, NoTx, Tx, TxInv
  <2>2. TxInv'
    BY <1>22 DEF InsertRelease, End, NoTx, TxInv, Tx
  <2>3. RowsOK'
    BY <1>22 DEF RowsOK, InsertRelease, End, NoTx, Release, LiveRelease, TxInv, Tx
  <2> QED
    BY <2>1, <2>2, <2>3
<1>23. ASSUME NEW r \in Releases, CreateUngoverned(r) PROVE Typed'
  <2>1. tx' = tx /\ TxInv'
    BY <1>23 DEF CreateUngoverned, TxInv
  <2>2. RowsOK'
    BY <1>23 DEF CreateUngoverned, RowsOK, Release, LiveRelease
  <2> QED
    BY <2>1, <2>2
<1>24. ASSUME NEW r \in Releases, NEW u \in Users,
              NEW target \in {"shadow", "canary", "promoted", "rejected", "rolled_back"},
              AdvanceRelease(r, target, u)
       PROVE   Typed'
  <2>1. tx' = tx /\ TxInv'
    BY <1>24 DEF AdvanceRelease, TxInv
  <2>2. release' \in [Releases -> Release]
    BY <1>24, ReleaseMoved DEF AdvanceRelease, Advance, RowsOK, LiveRelease
  <2>3. promotions' \in Seq(Releases)
    BY <1>24 DEF AdvanceRelease, Advance, RowsOK
  <2> QED
    BY <1>24, <2>1, <2>2, <2>3 DEF AdvanceRelease, Advance, RowsOK
<1>25. ASSUME NEW s \in Sessions, NEW r \in Releases, NEW u \in Users, Observe(s, r, u)
       PROVE   Typed'
  <2>1. PICK target \in {"promoted", "rolled_back"} :
          Begin(s, [NoTx EXCEPT !.op = target, !.from = {r}, !.by = u])
    BY <1>25 DEF Observe
  <2>2. tx' \in [Sessions -> Tx] /\ UNCHANGED rowVars
    BY <2>1 DEF Begin, NoTx, Tx
  <2>3. TxInv'
    BY <2>1 DEF Begin, NoTx, TxInv
  <2> QED
    BY <1>25, <2>2, <2>3 DEF RowsOK, rowVars, Observe
<1>26. ASSUME NEW s \in Sessions, ActOnObservation(s) PROVE Typed'
  <2>1. PICK r \in tx[s].from : Advance(r, tx[s].op, tx[s].by)
    BY <1>26 DEF ActOnObservation
  <2>2. r \in Releases /\ tx[s].op \in {"promoted", "rolled_back"}
    BY <1>26, <2>1 DEF ActOnObservation, TxInv
  <2>3. tx' = [tx EXCEPT ![s] = NoTx]
    BY <1>26 DEF ActOnObservation, End
  <2>4. tx' \in [Sessions -> Tx]
    BY <2>3 DEF NoTx, Tx
  <2>5. TxInv'
    BY <2>3 DEF NoTx, TxInv
  <2>6. release' \in [Releases -> Release]
    BY <2>1, <2>2, ReleaseMoved DEF Advance, RowsOK, LiveRelease
  <2>7. promotions' \in Seq(Releases)
    BY <2>1, <2>2 DEF Advance, RowsOK
  <2> QED
    BY <2>1, <2>4, <2>5, <2>6, <2>7 DEF Advance, RowsOK
<1>27. ASSUME NEW q \in Qualifications, NEW u \in Users, CreateQualification(q, u) PROVE Typed'
  <2>1. tx' = tx /\ TxInv'
    BY <1>27 DEF CreateQualification, TxInv
  <2>2. RowsOK'
    BY <1>27 DEF CreateQualification, RowsOK, Qualification
  <2> QED
    BY <2>1, <2>2
<1>28. ASSUME NEW q \in Qualifications, ApproveData(q) PROVE Typed'
  <2>1. tx' = tx /\ TxInv'
    BY <1>28 DEF ApproveData, TxInv
  <2>2. RowsOK'
    BY <1>28 DEF ApproveData, RowsOK, Qualification
  <2> QED
    BY <2>1, <2>2
<1>29. ASSUME NEW q \in Qualifications, NEW base \in Evaluations, NEW candidate \in Evaluations,
              NEW u \in Users, MarkCalibrated(q, base, candidate, u)
       PROVE   Typed'
  <2>1. tx' = tx /\ TxInv'
    BY <1>29 DEF MarkCalibrated, TxInv
  <2>2. RowsOK'
    BY <1>29 DEF MarkCalibrated, RowsOK, Qualification
  <2> QED
    BY <2>1, <2>2
<1>30. ASSUME NEW q \in Qualifications, NEW role \in {"admin", "reviewer"},
              RevokeQualification(q, role)
       PROVE   Typed'
  <2>1. tx' = tx /\ TxInv'
    BY <1>30 DEF RevokeQualification, TxInv
  <2>2. snapshot' \in [Snapshots -> Snapshot]
    BY <1>30, SnapshotMoved DEF RevokeQualification, RowsOK
  <2>3. adapter' \in [Adapters -> Adapter]
    BY <1>30 DEF RevokeQualification, RowsOK, Adapter
  <2>4. release' \in [Releases -> Release]
    BY <1>30, ReleaseMoved DEF RevokeQualification, RowsOK
  <2>5. /\ qualification' \in [Qualifications -> Qualification]
        /\ UNCHANGED <<annotation, campaign, trial, promotions>>
    BY <1>30 DEF RevokeQualification, RowsOK, Qualification
  <2> QED
    BY <2>1, <2>2, <2>3, <2>4, <2>5 DEF RowsOK
<1>31. QED
  BY <1>1, <1>2, <1>3, <1>4, <1>5, <1>6, <1>7, <1>8, <1>9, <1>10, <1>11, <1>12, <1>13, <1>14,
     <1>15, <1>16, <1>17, <1>18, <1>19, <1>20, <1>21, <1>22, <1>23, <1>24, <1>25, <1>26, <1>27,
     <1>28, <1>29, <1>30
  DEF Next, LineageNext, Reviews, Training, Judging, Revocation, Releasing, Qualifying

(* Both are there in every state.                                          *)
LEMMA SpecTyped == Spec => []Typed
  BY InitTyped, StepTyped, PTL DEF Spec

(* The rows of the lineage, the releases and the transactions keep their   *)
(* form.                                                                   *)
THEOREM TypeCorrect == Spec => []TypeOK
<1>1. Typed => TypeOK
  BY DEF Typed
<1> QED
  BY <1>1, SpecTyped, PTL
-----------------------------------------------------------------------------
(* A campaign keeps what it was measured with: a trial that was finished   *)
(* once is finished for good, and stays with its campaign.                 *)
LEMMA MeasuredStays ==
  ASSUME Typed, [Next]_vars, NEW e \in Evaluations, Measured(e)
  PROVE  Measured(e)'
<1>1. \A t \in Trials : trial[t].state = "valid" => trial'[t] = trial[t]
  BY DEF Next, LineageNext, Reviews, Training, Judging, Revocation, Releasing, Qualifying, vars,
         ReviewAnnotation, ReadSources, InsertSnapshot, ApproveSnapshot, ReadSnapshot,
         InsertAdapter, VerifyAdapter, VerifyAdapterForRelease, CreateCampaign, RegisterTrial,
         FinishTrial, Unfinished, CompleteCampaign, RevokeSource, RevokeSnapshot,
         RevokeSnapshots, RevokeAdapters, RollBackReleases, Lock, Continue, CommitRevocation,
         Abort, ReadDependencies, InsertRelease, CreateUngoverned, AdvanceRelease, Advance,
         Observe, ActOnObservation, CreateQualification, ApproveData, MarkCalibrated,
         RevokeQualification, Begin, rowVars, Typed, TypeOK, RowsOK, Trial
<1>2. ValidTrials(e) \subseteq ValidTrials(e)'
  BY <1>1 DEF ValidTrials
<1>3. IsFiniteSet(ValidTrials(e)')
  BY FS_Subset, LineageAssumption DEF ValidTrials
<1>4. Cardinality(ValidTrials(e)) <= Cardinality(ValidTrials(e)')
  BY <1>2, <1>3, FS_Subset
<1>5. Cardinality(ValidTrials(e)) \in Nat /\ Cardinality(ValidTrials(e)') \in Nat
  BY <1>2, <1>3, FS_Subset, FS_CardinalityType
<1> QED
  BY <1>4, <1>5, LineageAssumption DEF Measured

(* A campaign that passed was measured, and what was accepted because of   *)
(* it names that campaign.                                                 *)
MeasuredInv ==
  /\ \A e \in Evaluations : campaign[e].state = "passed" => Measured(e)
  /\ \A d \in Adapters : \A e \in Evaluations :
       adapter[d].evaluation = e => campaign[e].state # "absent"
  /\ \A q \in Qualifications :
       qualification[q].state = "calibrated" => qualification[q].candidate \in Evaluations
  /\ VerifiedIsMeasured
  /\ QualifiedIsMeasured

(* No campaign has been completed yet.                                     *)
LEMMA InitMeasured == InitG => MeasuredInv
  BY RowsAssumption
  DEF InitG, Init, MeasuredInv, VerifiedIsMeasured, QualifiedIsMeasured

(* Completing counts the valid trials; verifying and calibrating ask the   *)
(* campaign.                                                               *)
LEMMA StepMeasured == Typed /\ MeasuredInv /\ [Next]_vars => MeasuredInv'
<1> SUFFICES ASSUME Typed, MeasuredInv, [Next]_vars PROVE MeasuredInv'
  OBVIOUS
<1>0. \A e \in Evaluations : Measured(e) => Measured(e)'
  BY MeasuredStays
<1> USE LineageAssumption
        DEF Typed, TypeOK, RowsOK, MeasuredInv, VerifiedIsMeasured, QualifiedIsMeasured
<1>1. CASE UNCHANGED vars
  BY <1>1, <1>0 DEF vars
<1>2. ASSUME NEW a \in Annotations, ReviewAnnotation(a), UNCHANGED <<qualification, promotions>>
      PROVE   MeasuredInv'
  BY <1>2, <1>0 DEF ReviewAnnotation
<1>3. ASSUME NEW s \in Sessions, NEW x \in Snapshots, NEW items \in SUBSET Annotations,
             NEW u \in Users, ReadSources(s, x, items, u),
             UNCHANGED <<qualification, promotions>>
      PROVE   MeasuredInv'
  BY <1>3, <1>0 DEF ReadSources, Begin, End, rowVars, NoTx
<1>4. ASSUME NEW s \in Sessions, InsertSnapshot(s), UNCHANGED <<qualification, promotions>>
      PROVE   MeasuredInv'
  BY <1>4, <1>0 DEF InsertSnapshot, Begin, End, rowVars, NoTx
<1>5. ASSUME NEW x \in Snapshots, NEW u \in Users, ApproveSnapshot(x, u),
             UNCHANGED <<qualification, promotions>>
      PROVE   MeasuredInv'
  BY <1>5, <1>0 DEF ApproveSnapshot
<1>6. ASSUME NEW s \in Sessions, NEW d \in Adapters, NEW x \in Snapshots, ReadSnapshot(s, d, x),
             UNCHANGED <<qualification, promotions>>
      PROVE   MeasuredInv'
  BY <1>6, <1>0 DEF ReadSnapshot, Begin, End, rowVars, NoTx
<1>7. ASSUME NEW s \in Sessions, InsertAdapter(s), UNCHANGED <<qualification, promotions>>
      PROVE   MeasuredInv'
  BY <1>7, <1>0, RowsAssumption DEF InsertAdapter, Begin, End, rowVars, NoTx, Adapter, TxInv
<1>8. ASSUME NEW d \in Adapters, NEW e \in Evaluations, VerifyAdapter(d, e),
             UNCHANGED <<qualification, promotions>>
      PROVE   MeasuredInv'
  BY <1>8, <1>0 DEF VerifyAdapter, Verifiable, Adapter
<1>9. ASSUME NEW d \in Adapters, VerifyAdapterForRelease(d),
             UNCHANGED <<qualification, promotions>>
      PROVE   MeasuredInv'
  BY <1>9, <1>0 DEF VerifyAdapterForRelease, Verifiable, Adapter
<1>10. ASSUME NEW e \in Evaluations, NEW subject \in Adapters \cup {None},
              CreateCampaign(e, subject), UNCHANGED <<qualification, promotions>>
       PROVE   MeasuredInv'
  BY <1>10, <1>0 DEF CreateCampaign, Campaign
<1>11. ASSUME NEW t \in Trials, NEW e \in Evaluations, RegisterTrial(t, e),
              UNCHANGED <<qualification, promotions>>
       PROVE   MeasuredInv'
  BY <1>11, <1>0 DEF RegisterTrial
<1>12. ASSUME NEW t \in Trials, FinishTrial(t), UNCHANGED <<qualification, promotions>>
       PROVE   MeasuredInv'
  BY <1>12, <1>0 DEF FinishTrial, Unfinished
<1>13. ASSUME NEW e \in Evaluations, NEW gatesPassed \in BOOLEAN,
              CompleteCampaign(e, gatesPassed), UNCHANGED <<qualification, promotions>>
       PROVE   MeasuredInv'
  BY <1>13, <1>0 DEF CompleteCampaign, Campaign
<1>14. ASSUME NEW s \in Sessions, NEW sources \in SUBSET (Annotations \cap Revocable),
              RevokeSource(s, sources), UNCHANGED <<qualification, promotions>>
       PROVE   MeasuredInv'
  BY <1>14, <1>0 DEF RevokeSource, Begin, End, rowVars, NoTx
<1>15. ASSUME NEW s \in Sessions, NEW x \in Snapshots \cap Revocable, RevokeSnapshot(s, x),
              UNCHANGED <<qualification, promotions>>
       PROVE   MeasuredInv'
  BY <1>15, <1>0 DEF RevokeSnapshot, Begin, End, rowVars, NoTx
<1>16. ASSUME NEW s \in Sessions, RevokeSnapshots(s), UNCHANGED <<qualification, promotions>>
       PROVE   MeasuredInv'
  BY <1>16, <1>0 DEF RevokeSnapshots, Lock, Continue, rowVars, SnapshotsToRevoke,
      AdaptersToRevoke, ReleasesToRollBack, Writable
<1>17. ASSUME NEW s \in Sessions, RevokeAdapters(s), UNCHANGED <<qualification, promotions>>
       PROVE   MeasuredInv'
  BY <1>17, <1>0 DEF RevokeAdapters, Lock, Continue, rowVars, SnapshotsToRevoke,
      AdaptersToRevoke, ReleasesToRollBack, Writable
<1>18. ASSUME NEW s \in Sessions, RollBackReleases(s), UNCHANGED <<qualification, promotions>>
       PROVE   MeasuredInv'
  BY <1>18, <1>0 DEF RollBackReleases, Lock, Continue, rowVars, SnapshotsToRevoke,
      AdaptersToRevoke, ReleasesToRollBack, Writable
<1>19. ASSUME NEW s \in Sessions, CommitRevocation(s), UNCHANGED <<qualification, promotions>>
       PROVE   MeasuredInv'
  BY <1>19, <1>0 DEF CommitRevocation, End, NoTx, Adapter
<1>20. ASSUME NEW s \in Sessions, Abort(s), UNCHANGED <<qualification, promotions>>
       PROVE   MeasuredInv'
  BY <1>20, <1>0 DEF Abort, End, rowVars, NoTx
<1>21. ASSUME NEW s \in Sessions, NEW r \in Releases, NEW d \in Adapters, NEW u \in Users,
              NEW q \in Qualifications \cup {None}, ReadDependencies(s, r, d, u, q)
       PROVE   MeasuredInv'
  BY <1>21, <1>0 DEF ReadDependencies, Begin, End, rowVars, NoTx
<1>22. ASSUME NEW s \in Sessions, InsertRelease(s) PROVE MeasuredInv'
  BY <1>22, <1>0 DEF InsertRelease, End, NoTx
<1>23. ASSUME NEW r \in Releases, CreateUngoverned(r) PROVE MeasuredInv'
  BY <1>23, <1>0 DEF CreateUngoverned
<1>24. ASSUME NEW r \in Releases, NEW u \in Users,
              NEW target \in {"shadow", "canary", "promoted", "rejected", "rolled_back"},
              AdvanceRelease(r, target, u)
       PROVE   MeasuredInv'
  BY <1>24, <1>0 DEF AdvanceRelease, Advance, MayAdvance
<1>25. ASSUME NEW s \in Sessions, NEW r \in Releases, NEW u \in Users, Observe(s, r, u)
       PROVE   MeasuredInv'
  BY <1>25, <1>0 DEF Observe, Begin, End, rowVars, NoTx
<1>26. ASSUME NEW s \in Sessions, ActOnObservation(s) PROVE MeasuredInv'
  BY <1>26, <1>0 DEF ActOnObservation, Advance, MayAdvance, End, NoTx
<1>27. ASSUME NEW q \in Qualifications, NEW u \in Users, CreateQualification(q, u)
       PROVE   MeasuredInv'
  BY <1>27, <1>0 DEF CreateQualification, Qualification
<1>28. ASSUME NEW q \in Qualifications, ApproveData(q) PROVE MeasuredInv'
  BY <1>28, <1>0 DEF ApproveData, Qualification
<1>29. ASSUME NEW q \in Qualifications, NEW base \in Evaluations, NEW candidate \in Evaluations,
              NEW u \in Users, MarkCalibrated(q, base, candidate, u)
       PROVE   MeasuredInv'
  BY <1>29, <1>0 DEF MarkCalibrated, Qualification
<1>30. ASSUME NEW q \in Qualifications, NEW role \in {"admin", "reviewer"},
              RevokeQualification(q, role)
       PROVE   MeasuredInv'
  BY <1>30, <1>0 DEF RevokeQualification, Adapter, Qualification
<1>31. QED
  BY <1>1, <1>2, <1>3, <1>4, <1>5, <1>6, <1>7, <1>8, <1>9, <1>10, <1>11, <1>12, <1>13, <1>14,
     <1>15, <1>16, <1>17, <1>18, <1>19, <1>20, <1>21, <1>22, <1>23, <1>24, <1>25, <1>26, <1>27,
     <1>28, <1>29, <1>30
  DEF Next, LineageNext, Reviews, Training, Judging, Revocation, Releasing, Qualifying

(* What was accepted stays measured.                                       *)
LEMMA SpecMeasured == Spec => []MeasuredInv
<1>1. Typed /\ MeasuredInv /\ [Next]_vars => MeasuredInv'
  BY StepMeasured
<1> QED
  BY <1>1, InitMeasured, SpecTyped, PTL DEF Spec

(* An adapter verified by a campaign stands on enough valid trials of a    *)
(* campaign of its own, whatever was completed or registered later.        *)
THEOREM VerifiedMeasured == Spec => []VerifiedIsMeasured
<1>1. MeasuredInv => VerifiedIsMeasured
  BY DEF MeasuredInv
<1> QED
  BY <1>1, SpecMeasured, PTL

(* So does a calibrated qualification, on those of its candidate.          *)
THEOREM QualifiedMeasured == Spec => []QualifiedIsMeasured
<1>1. MeasuredInv => QualifiedIsMeasured
  BY DEF MeasuredInv
<1> QED
  BY <1>1, SpecMeasured, PTL
-----------------------------------------------------------------------------
(* Nobody else has read or updated a row that a transaction has updated.   *)
LockInv ==
  \A s, o \in Sessions :
    s # o => tx[s].held \cap (tx[o].shared \cup tx[o].held) = {}

(* No transaction holds a row.                                             *)
LEMMA InitLocks == InitG => LockInv
  BY DEF InitG, Init, LockInv, NoTx

(* A row is only taken where nobody else holds it.                         *)
LEMMA StepLocks == Typed /\ LockInv /\ [Next]_vars => LockInv'
<1> SUFFICES ASSUME Typed, LockInv, [Next]_vars PROVE LockInv'
  OBVIOUS
<1> USE DEF Typed, TypeOK, LockInv
<1>1. CASE UNCHANGED vars
  BY <1>1 DEF vars
<1>2. ASSUME NEW a \in Annotations, ReviewAnnotation(a), UNCHANGED <<qualification, promotions>>
      PROVE   LockInv'
  BY <1>2 DEF ReviewAnnotation
<1>3. ASSUME NEW s \in Sessions, NEW x \in Snapshots, NEW items \in SUBSET Annotations,
             NEW u \in Users, ReadSources(s, x, items, u),
             UNCHANGED <<qualification, promotions>>
      PROVE   LockInv'
  BY <1>3 DEF ReadSources, Begin, End, rowVars, NoTx, Readable
<1>4. ASSUME NEW s \in Sessions, InsertSnapshot(s), UNCHANGED <<qualification, promotions>>
      PROVE   LockInv'
  BY <1>4 DEF InsertSnapshot, Begin, End, rowVars, NoTx
<1>5. ASSUME NEW x \in Snapshots, NEW u \in Users, ApproveSnapshot(x, u),
             UNCHANGED <<qualification, promotions>>
      PROVE   LockInv'
  BY <1>5 DEF ApproveSnapshot
<1>6. ASSUME NEW s \in Sessions, NEW d \in Adapters, NEW x \in Snapshots, ReadSnapshot(s, d, x),
             UNCHANGED <<qualification, promotions>>
      PROVE   LockInv'
  BY <1>6 DEF ReadSnapshot, Begin, End, rowVars, NoTx, Readable
<1>7. ASSUME NEW s \in Sessions, InsertAdapter(s), UNCHANGED <<qualification, promotions>>
      PROVE   LockInv'
  BY <1>7 DEF InsertAdapter, Begin, End, rowVars, NoTx
<1>8. ASSUME NEW d \in Adapters, NEW e \in Evaluations, VerifyAdapter(d, e),
             UNCHANGED <<qualification, promotions>>
      PROVE   LockInv'
  BY <1>8 DEF VerifyAdapter, Verifiable
<1>9. ASSUME NEW d \in Adapters, VerifyAdapterForRelease(d),
             UNCHANGED <<qualification, promotions>>
      PROVE   LockInv'
  BY <1>9 DEF VerifyAdapterForRelease, Verifiable
<1>10. ASSUME NEW e \in Evaluations, NEW subject \in Adapters \cup {None},
              CreateCampaign(e, subject), UNCHANGED <<qualification, promotions>>
       PROVE   LockInv'
  BY <1>10 DEF CreateCampaign
<1>11. ASSUME NEW t \in Trials, NEW e \in Evaluations, RegisterTrial(t, e),
              UNCHANGED <<qualification, promotions>>
       PROVE   LockInv'
  BY <1>11 DEF RegisterTrial
<1>12. ASSUME NEW t \in Trials, FinishTrial(t), UNCHANGED <<qualification, promotions>>
       PROVE   LockInv'
  BY <1>12 DEF FinishTrial, Unfinished
<1>13. ASSUME NEW e \in Evaluations, NEW gatesPassed \in BOOLEAN,
              CompleteCampaign(e, gatesPassed), UNCHANGED <<qualification, promotions>>
       PROVE   LockInv'
  BY <1>13 DEF CompleteCampaign
<1>14. ASSUME NEW s \in Sessions, NEW sources \in SUBSET (Annotations \cap Revocable),
              RevokeSource(s, sources), UNCHANGED <<qualification, promotions>>
       PROVE   LockInv'
  BY <1>14 DEF RevokeSource, Begin, End, rowVars, NoTx, Writable
<1>15. ASSUME NEW s \in Sessions, NEW x \in Snapshots \cap Revocable, RevokeSnapshot(s, x),
              UNCHANGED <<qualification, promotions>>
       PROVE   LockInv'
  BY <1>15 DEF RevokeSnapshot, Begin, End, rowVars, NoTx, Writable
<1>16. ASSUME NEW s \in Sessions, RevokeSnapshots(s), UNCHANGED <<qualification, promotions>>
       PROVE   LockInv'
  <2>1. /\ Writable(SnapshotsToRevoke(s), s)
        /\ tx'[s].shared = tx[s].shared
        /\ tx'[s].held = tx[s].held \cup SnapshotsToRevoke(s)
        /\ \A o \in Sessions \ {s} : tx'[o] = tx[o]
    BY <1>16 DEF RevokeSnapshots, Lock, Continue, Tx
  <2> QED
    BY <2>1 DEF Writable
<1>17. ASSUME NEW s \in Sessions, RevokeAdapters(s), UNCHANGED <<qualification, promotions>>
       PROVE   LockInv'
  <2>1. /\ Writable(AdaptersToRevoke(s), s)
        /\ tx'[s].shared = tx[s].shared
        /\ tx'[s].held = tx[s].held \cup AdaptersToRevoke(s)
        /\ \A o \in Sessions \ {s} : tx'[o] = tx[o]
    BY <1>17 DEF RevokeAdapters, Lock, Continue, Tx
  <2> QED
    BY <2>1 DEF Writable
<1>18. ASSUME NEW s \in Sessions, RollBackReleases(s), UNCHANGED <<qualification, promotions>>
       PROVE   LockInv'
  <2>1. /\ Writable(ReleasesToRollBack(s), s)
        /\ tx'[s].shared = tx[s].shared
        /\ tx'[s].held = tx[s].held \cup ReleasesToRollBack(s)
        /\ \A o \in Sessions \ {s} : tx'[o] = tx[o]
    BY <1>18 DEF RollBackReleases, Lock, Continue, Tx
  <2> QED
    BY <2>1 DEF Writable
<1>19. ASSUME NEW s \in Sessions, CommitRevocation(s), UNCHANGED <<qualification, promotions>>
       PROVE   LockInv'
  BY <1>19 DEF CommitRevocation, End, NoTx
<1>20. ASSUME NEW s \in Sessions, Abort(s), UNCHANGED <<qualification, promotions>>
       PROVE   LockInv'
  BY <1>20 DEF Abort, End, rowVars, NoTx
<1>21. ASSUME NEW s \in Sessions, NEW r \in Releases, NEW d \in Adapters, NEW u \in Users,
              NEW q \in Qualifications \cup {None}, ReadDependencies(s, r, d, u, q)
       PROVE   LockInv'
  <2>1. tx'[s].held = {} /\ tx'[s].shared = {}
    BY <1>21 DEF ReadDependencies, Begin, NoTx
  <2>2. \A o \in Sessions \ {s} : tx'[o] = tx[o]
    BY <1>21 DEF ReadDependencies, Begin
  <2> QED
    BY <2>1, <2>2
<1>22. ASSUME NEW s \in Sessions, InsertRelease(s) PROVE LockInv'
  BY <1>22 DEF InsertRelease, End, NoTx
<1>23. ASSUME NEW r \in Releases, CreateUngoverned(r) PROVE LockInv'
  BY <1>23 DEF CreateUngoverned
<1>24. ASSUME NEW r \in Releases, NEW u \in Users,
              NEW target \in {"shadow", "canary", "promoted", "rejected", "rolled_back"},
              AdvanceRelease(r, target, u)
       PROVE   LockInv'
  BY <1>24 DEF AdvanceRelease, Advance, MayAdvance
<1>25. ASSUME NEW s \in Sessions, NEW r \in Releases, NEW u \in Users, Observe(s, r, u)
       PROVE   LockInv'
  BY <1>25 DEF Observe, Begin, End, rowVars, NoTx
<1>26. ASSUME NEW s \in Sessions, ActOnObservation(s) PROVE LockInv'
  BY <1>26 DEF ActOnObservation, Advance, MayAdvance, End, NoTx
<1>27. ASSUME NEW q \in Qualifications, NEW u \in Users, CreateQualification(q, u) PROVE LockInv'
  BY <1>27 DEF CreateQualification
<1>28. ASSUME NEW q \in Qualifications, ApproveData(q) PROVE LockInv'
  BY <1>28 DEF ApproveData
<1>29. ASSUME NEW q \in Qualifications, NEW base \in Evaluations, NEW candidate \in Evaluations,
              NEW u \in Users, MarkCalibrated(q, base, candidate, u)
       PROVE   LockInv'
  BY <1>29 DEF MarkCalibrated
<1>30. ASSUME NEW q \in Qualifications, NEW role \in {"admin", "reviewer"},
              RevokeQualification(q, role)
       PROVE   LockInv'
  BY <1>30 DEF RevokeQualification
<1>31. QED
  BY <1>1, <1>2, <1>3, <1>4, <1>5, <1>6, <1>7, <1>8, <1>9, <1>10, <1>11, <1>12, <1>13, <1>14,
     <1>15, <1>16, <1>17, <1>18, <1>19, <1>20, <1>21, <1>22, <1>23, <1>24, <1>25, <1>26, <1>27,
     <1>28, <1>29, <1>30
  DEF Next, LineageNext, Reviews, Training, Judging, Revocation, Releasing, Qualifying

(* The row locks exclude each other.                                       *)
LEMMA SpecLocks == Spec => []LockInv
<1>1. Typed /\ LockInv /\ [Next]_vars => LockInv'
  BY StepLocks
<1> QED
  BY <1>1, InitLocks, SpecTyped, PTL DEF Spec
-----------------------------------------------------------------------------
(* The sources of a snapshot that is being built are still approved.       *)
SourcesApproved ==
  \A s \in Sessions :
    tx[s].op = "insert_snapshot" => \A a \in tx[s].from : annotation[a] = "approved"

(* A revocation has found every snapshot of the sources it holds, those    *)
(* that were built while it waited too, since there can be none.           *)
SnapshotsFound ==
  \A s \in Sessions :
    tx[s].op \in Revoking =>
      \A a \in tx[s].held \cap Annotations : \A x \in Snapshots :
        snapshot[x].state \in LiveSnapshot /\ a \in snapshot[x].items =>
          IF tx[s].op = "revoke_snapshots" THEN x \in tx[s].from ELSE x \in tx[s].held

CleanInv == SourcesApproved /\ SnapshotsFound /\ SnapshotsAreClean

(* There is no snapshot.                                                   *)
LEMMA InitClean == InitG => CleanInv
  BY DEF InitG, Init, CleanInv, SourcesApproved, SnapshotsFound, SnapshotsAreClean, NoTx,
         LiveSnapshot, Revoking

(* The shared lock on a source keeps its revocation out until the snapshot *)
(* is there.                                                               *)
LEMMA StepClean == Typed /\ LockInv /\ CleanInv /\ [Next]_vars => CleanInv'
<1> SUFFICES ASSUME Typed, LockInv, CleanInv, [Next]_vars PROVE CleanInv'
  OBVIOUS
<1> USE DEF Typed, TypeOK, CleanInv, SourcesApproved, SnapshotsFound, SnapshotsAreClean,
           LiveSnapshot, Revoking
<1>1. CASE UNCHANGED vars
  BY <1>1 DEF vars
<1>2. ASSUME NEW a \in Annotations, ReviewAnnotation(a), UNCHANGED <<qualification, promotions>>
      PROVE   CleanInv'
  BY <1>2 DEF ReviewAnnotation, Unlocked, TxInv, RowsOK
<1>3. ASSUME NEW s \in Sessions, NEW x \in Snapshots, NEW items \in SUBSET Annotations,
             NEW u \in Users, ReadSources(s, x, items, u),
             UNCHANGED <<qualification, promotions>>
      PROVE   CleanInv'
  BY <1>3 DEF ReadSources, Begin, End, rowVars, NoTx, TxInv
<1>4. ASSUME NEW s \in Sessions, InsertSnapshot(s), UNCHANGED <<qualification, promotions>>
      PROVE   CleanInv'
  BY <1>4 DEF InsertSnapshot, Begin, End, rowVars, NoTx, LockInv, TxInv, RowsOK, Snapshot
<1>5. ASSUME NEW x \in Snapshots, NEW u \in Users, ApproveSnapshot(x, u),
             UNCHANGED <<qualification, promotions>>
      PROVE   CleanInv'
  BY <1>5 DEF ApproveSnapshot, RowsOK, Snapshot
<1>6. ASSUME NEW s \in Sessions, NEW d \in Adapters, NEW x \in Snapshots, ReadSnapshot(s, d, x),
             UNCHANGED <<qualification, promotions>>
      PROVE   CleanInv'
  BY <1>6 DEF ReadSnapshot, Begin, End, rowVars, NoTx
<1>7. ASSUME NEW s \in Sessions, InsertAdapter(s), UNCHANGED <<qualification, promotions>>
      PROVE   CleanInv'
  BY <1>7 DEF InsertAdapter, Begin, End, rowVars, NoTx
<1>8. ASSUME NEW d \in Adapters, NEW e \in Evaluations, VerifyAdapter(d, e),
             UNCHANGED <<qualification, promotions>>
      PROVE   CleanInv'
  BY <1>8 DEF VerifyAdapter, Verifiable
<1>9. ASSUME NEW d \in Adapters, VerifyAdapterForRelease(d),
             UNCHANGED <<qualification, promotions>>
      PROVE   CleanInv'
  BY <1>9 DEF VerifyAdapterForRelease, Verifiable
<1>10. ASSUME NEW e \in Evaluations, NEW subject \in Adapters \cup {None},
              CreateCampaign(e, subject), UNCHANGED <<qualification, promotions>>
       PROVE   CleanInv'
  BY <1>10 DEF CreateCampaign
<1>11. ASSUME NEW t \in Trials, NEW e \in Evaluations, RegisterTrial(t, e),
              UNCHANGED <<qualification, promotions>>
       PROVE   CleanInv'
  BY <1>11 DEF RegisterTrial
<1>12. ASSUME NEW t \in Trials, FinishTrial(t), UNCHANGED <<qualification, promotions>>
       PROVE   CleanInv'
  BY <1>12 DEF FinishTrial, Unfinished
<1>13. ASSUME NEW e \in Evaluations, NEW gatesPassed \in BOOLEAN,
              CompleteCampaign(e, gatesPassed), UNCHANGED <<qualification, promotions>>
       PROVE   CleanInv'
  BY <1>13 DEF CompleteCampaign
<1>14. ASSUME NEW s \in Sessions, NEW sources \in SUBSET (Annotations \cap Revocable),
              RevokeSource(s, sources), UNCHANGED <<qualification, promotions>>
       PROVE   CleanInv'
  BY <1>14 DEF RevokeSource, Begin, End, rowVars, NoTx, RowsOK, Snapshot
<1>15. ASSUME NEW s \in Sessions, NEW x \in Snapshots \cap Revocable, RevokeSnapshot(s, x),
              UNCHANGED <<qualification, promotions>>
       PROVE   CleanInv'
  BY <1>15, RowsAssumption DEF RevokeSnapshot, Begin, End, rowVars, NoTx
<1>16. ASSUME NEW s \in Sessions, RevokeSnapshots(s), UNCHANGED <<qualification, promotions>>
       PROVE   CleanInv'
  <2>1. /\ tx[s].op \in Revoking
        /\ tx'[s].op = "revoke_adapters"
        /\ tx'[s].held = tx[s].held \cup SnapshotsToRevoke(s)
        /\ \A o \in Sessions \ {s} : tx'[o] = tx[o]
        /\ UNCHANGED rowVars
    BY <1>16 DEF RevokeSnapshots, Lock, Continue, Tx
  <2>2. SnapshotsToRevoke(s) \cap Annotations = {}
    BY <2>1, RowsAssumption DEF SnapshotsToRevoke, TxInv
  <2> QED
    BY <1>16, <2>1, <2>2 DEF RevokeSnapshots, SnapshotsToRevoke, rowVars
<1>17. ASSUME NEW s \in Sessions, RevokeAdapters(s), UNCHANGED <<qualification, promotions>>
       PROVE   CleanInv'
  <2>1. /\ tx[s].op \in Revoking
        /\ tx'[s].op = "revoke_releases"
        /\ tx'[s].held = tx[s].held \cup AdaptersToRevoke(s)
        /\ \A o \in Sessions \ {s} : tx'[o] = tx[o]
        /\ UNCHANGED rowVars
    BY <1>17 DEF RevokeAdapters, Lock, Continue, Tx
  <2>2. AdaptersToRevoke(s) \cap Annotations = {}
    BY <2>1, RowsAssumption DEF AdaptersToRevoke, TxInv
  <2> QED
    BY <1>17, <2>1, <2>2 DEF RevokeAdapters, AdaptersToRevoke, rowVars
<1>18. ASSUME NEW s \in Sessions, RollBackReleases(s), UNCHANGED <<qualification, promotions>>
       PROVE   CleanInv'
  <2>1. /\ tx[s].op \in Revoking
        /\ tx'[s].op = "commit_revocation"
        /\ tx'[s].held = tx[s].held \cup ReleasesToRollBack(s)
        /\ \A o \in Sessions \ {s} : tx'[o] = tx[o]
        /\ UNCHANGED rowVars
    BY <1>18 DEF RollBackReleases, Lock, Continue, Tx
  <2>2. ReleasesToRollBack(s) \cap Annotations = {}
    BY <2>1, RowsAssumption DEF ReleasesToRollBack, TxInv
  <2> QED
    BY <1>18, <2>1, <2>2 DEF RollBackReleases, ReleasesToRollBack, rowVars
<1>19. ASSUME NEW s \in Sessions, CommitRevocation(s), UNCHANGED <<qualification, promotions>>
       PROVE   CleanInv'
  BY <1>19 DEF CommitRevocation, End, NoTx, LockInv, TxInv, RowsOK, Snapshot
<1>20. ASSUME NEW s \in Sessions, Abort(s), UNCHANGED <<qualification, promotions>>
       PROVE   CleanInv'
  BY <1>20 DEF Abort, End, rowVars, NoTx
<1>21. ASSUME NEW s \in Sessions, NEW r \in Releases, NEW d \in Adapters, NEW u \in Users,
              NEW q \in Qualifications \cup {None}, ReadDependencies(s, r, d, u, q)
       PROVE   CleanInv'
  <2>1. tx'[s].op = "insert_release" /\ UNCHANGED rowVars
    BY <1>21 DEF ReadDependencies, Begin, NoTx, Tx
  <2>2. \A o \in Sessions \ {s} : tx'[o] = tx[o]
    BY <1>21 DEF ReadDependencies, Begin
  <2> QED
    BY <2>1, <2>2 DEF rowVars
<1>22. ASSUME NEW s \in Sessions, InsertRelease(s) PROVE CleanInv'
  BY <1>22 DEF InsertRelease, End, NoTx
<1>23. ASSUME NEW r \in Releases, CreateUngoverned(r) PROVE CleanInv'
  BY <1>23 DEF CreateUngoverned
<1>24. ASSUME NEW r \in Releases, NEW u \in Users,
              NEW target \in {"shadow", "canary", "promoted", "rejected", "rolled_back"},
              AdvanceRelease(r, target, u)
       PROVE   CleanInv'
  BY <1>24 DEF AdvanceRelease, Advance, MayAdvance
<1>25. ASSUME NEW s \in Sessions, NEW r \in Releases, NEW u \in Users, Observe(s, r, u)
       PROVE   CleanInv'
  BY <1>25 DEF Observe, Begin, End, rowVars, NoTx
<1>26. ASSUME NEW s \in Sessions, ActOnObservation(s) PROVE CleanInv'
  BY <1>26 DEF ActOnObservation, Advance, MayAdvance, End, NoTx
<1>27. ASSUME NEW q \in Qualifications, NEW u \in Users, CreateQualification(q, u)
       PROVE   CleanInv'
  BY <1>27 DEF CreateQualification
<1>28. ASSUME NEW q \in Qualifications, ApproveData(q) PROVE CleanInv'
  BY <1>28 DEF ApproveData
<1>29. ASSUME NEW q \in Qualifications, NEW base \in Evaluations, NEW candidate \in Evaluations,
              NEW u \in Users, MarkCalibrated(q, base, candidate, u)
       PROVE   CleanInv'
  BY <1>29 DEF MarkCalibrated
<1>30. ASSUME NEW q \in Qualifications, NEW role \in {"admin", "reviewer"},
              RevokeQualification(q, role)
       PROVE   CleanInv'
  BY <1>30 DEF RevokeQualification, RowsOK, Snapshot
<1>31. QED
  BY <1>1, <1>2, <1>3, <1>4, <1>5, <1>6, <1>7, <1>8, <1>9, <1>10, <1>11, <1>12, <1>13, <1>14,
     <1>15, <1>16, <1>17, <1>18, <1>19, <1>20, <1>21, <1>22, <1>23, <1>24, <1>25, <1>26, <1>27,
     <1>28, <1>29, <1>30
  DEF Next, LineageNext, Reviews, Training, Judging, Revocation, Releasing, Qualifying

(* No snapshot escapes the revocation of a source.                         *)
LEMMA SpecClean == Spec => []CleanInv
<1>1. Typed /\ LockInv /\ CleanInv /\ [Next]_vars => CleanInv'
  BY StepClean
<1> QED
  BY <1>1, InitClean, SpecTyped, SpecLocks, PTL DEF Spec

(* No usable snapshot holds an annotation whose source was revoked.        *)
THEOREM SnapshotsClean == Spec => []SnapshotsAreClean
<1>1. CleanInv => SnapshotsAreClean
  BY DEF CleanInv
<1> QED
  BY <1>1, SpecClean, PTL
-----------------------------------------------------------------------------
(* A row that a transaction is going to insert is not there, and no other  *)
(* transaction is going to insert it.                                      *)
NewIsAbsent ==
  \A s \in Sessions :
    /\ tx[s].op = "insert_snapshot" => snapshot[tx[s].new].state = "absent"
    /\ tx[s].op = "insert_release" => release[tx[s].new].status = "absent"
    /\ \A o \in Sessions \ {s} : tx[s].new # None => tx[s].new # tx[o].new

(* A revocation holds rows that are still in use.                          *)
HeldIsLive ==
  \A s \in Sessions :
    tx[s].op \in Revoking =>
      /\ \A x \in tx[s].held \cap Snapshots : snapshot[x].state \in LiveSnapshot
      /\ \A r \in tx[s].held \cap Releases : release[r].status \in LiveRelease

PendingInv == NewIsAbsent /\ HeldIsLive

(* Nothing is pending.                                                     *)
LEMMA InitPending == InitG => PendingInv
  BY DEF InitG, Init, PendingInv, NewIsAbsent, HeldIsLive, NoTx, Revoking

(* A row another transaction waits to insert or to revoke is left alone.   *)
LEMMA StepPending == Typed /\ LockInv /\ PendingInv /\ [Next]_vars => PendingInv'
<1> SUFFICES ASSUME Typed, LockInv, PendingInv, [Next]_vars PROVE PendingInv'
  OBVIOUS
<1> USE RowsAssumption DEF Typed, TypeOK, PendingInv, NewIsAbsent, HeldIsLive, LiveSnapshot,
           LiveRelease, Revoking
<1>1. CASE UNCHANGED vars
  BY <1>1 DEF vars
<1>2. ASSUME NEW a \in Annotations, ReviewAnnotation(a), UNCHANGED <<qualification, promotions>>
      PROVE   PendingInv'
  BY <1>2 DEF ReviewAnnotation
<1>3. ASSUME NEW s \in Sessions, NEW x \in Snapshots, NEW items \in SUBSET Annotations,
             NEW u \in Users, ReadSources(s, x, items, u),
             UNCHANGED <<qualification, promotions>>
      PROVE   PendingInv'
  BY <1>3 DEF ReadSources, Begin, End, rowVars, NoTx, Fresh, RowsOK, Snapshot
<1>4. ASSUME NEW s \in Sessions, InsertSnapshot(s), UNCHANGED <<qualification, promotions>>
      PROVE   PendingInv'
  BY <1>4 DEF InsertSnapshot, Begin, End, rowVars, NoTx, TxInv, Tx, RowsOK, Snapshot
<1>5. ASSUME NEW x \in Snapshots, NEW u \in Users, ApproveSnapshot(x, u),
             UNCHANGED <<qualification, promotions>>
      PROVE   PendingInv'
  BY <1>5 DEF ApproveSnapshot, RowsOK, Snapshot
<1>6. ASSUME NEW s \in Sessions, NEW d \in Adapters, NEW x \in Snapshots, ReadSnapshot(s, d, x),
             UNCHANGED <<qualification, promotions>>
      PROVE   PendingInv'
  BY <1>6 DEF ReadSnapshot, Begin, End, rowVars, NoTx, Fresh, RowsOK, Snapshot
<1>7. ASSUME NEW s \in Sessions, InsertAdapter(s), UNCHANGED <<qualification, promotions>>
      PROVE   PendingInv'
  BY <1>7 DEF InsertAdapter, Begin, End, rowVars, NoTx, TxInv, Tx
<1>8. ASSUME NEW d \in Adapters, NEW e \in Evaluations, VerifyAdapter(d, e),
             UNCHANGED <<qualification, promotions>>
      PROVE   PendingInv'
  BY <1>8 DEF VerifyAdapter, Verifiable
<1>9. ASSUME NEW d \in Adapters, VerifyAdapterForRelease(d),
             UNCHANGED <<qualification, promotions>>
      PROVE   PendingInv'
  BY <1>9 DEF VerifyAdapterForRelease, Verifiable
<1>10. ASSUME NEW e \in Evaluations, NEW subject \in Adapters \cup {None},
              CreateCampaign(e, subject), UNCHANGED <<qualification, promotions>>
       PROVE   PendingInv'
  BY <1>10 DEF CreateCampaign
<1>11. ASSUME NEW t \in Trials, NEW e \in Evaluations, RegisterTrial(t, e),
              UNCHANGED <<qualification, promotions>>
       PROVE   PendingInv'
  BY <1>11 DEF RegisterTrial
<1>12. ASSUME NEW t \in Trials, FinishTrial(t), UNCHANGED <<qualification, promotions>>
       PROVE   PendingInv'
  BY <1>12 DEF FinishTrial, Unfinished
<1>13. ASSUME NEW e \in Evaluations, NEW gatesPassed \in BOOLEAN,
              CompleteCampaign(e, gatesPassed), UNCHANGED <<qualification, promotions>>
       PROVE   PendingInv'
  BY <1>13 DEF CompleteCampaign
<1>14. ASSUME NEW s \in Sessions, NEW sources \in SUBSET (Annotations \cap Revocable),
              RevokeSource(s, sources), UNCHANGED <<qualification, promotions>>
       PROVE   PendingInv'
  BY <1>14 DEF RevokeSource, Begin, End, rowVars, NoTx
<1>15. ASSUME NEW s \in Sessions, NEW x \in Snapshots \cap Revocable, RevokeSnapshot(s, x),
              UNCHANGED <<qualification, promotions>>
       PROVE   PendingInv'
  BY <1>15 DEF RevokeSnapshot, Begin, End, rowVars, NoTx
<1>16. ASSUME NEW s \in Sessions, RevokeSnapshots(s), UNCHANGED <<qualification, promotions>>
       PROVE   PendingInv'
  <2>1. /\ tx[s].op \in Revoking
        /\ tx'[s].op = "revoke_adapters" /\ tx'[s].new = tx[s].new
        /\ tx'[s].held = tx[s].held \cup SnapshotsToRevoke(s)
        /\ \A o \in Sessions \ {s} : tx'[o] = tx[o]
        /\ UNCHANGED rowVars
    BY <1>16 DEF RevokeSnapshots, Lock, Continue, Tx
  <2> QED
    BY <2>1 DEF SnapshotsToRevoke, rowVars, TxInv
<1>17. ASSUME NEW s \in Sessions, RevokeAdapters(s), UNCHANGED <<qualification, promotions>>
       PROVE   PendingInv'
  <2>1. /\ tx[s].op \in Revoking
        /\ tx'[s].op = "revoke_releases" /\ tx'[s].new = tx[s].new
        /\ tx'[s].held = tx[s].held \cup AdaptersToRevoke(s)
        /\ \A o \in Sessions \ {s} : tx'[o] = tx[o]
        /\ UNCHANGED rowVars
    BY <1>17 DEF RevokeAdapters, Lock, Continue, Tx
  <2> QED
    BY <2>1 DEF AdaptersToRevoke, rowVars, TxInv
<1>18. ASSUME NEW s \in Sessions, RollBackReleases(s), UNCHANGED <<qualification, promotions>>
       PROVE   PendingInv'
  <2>1. /\ tx[s].op \in Revoking
        /\ tx'[s].op = "commit_revocation" /\ tx'[s].new = tx[s].new
        /\ tx'[s].held = tx[s].held \cup ReleasesToRollBack(s)
        /\ \A o \in Sessions \ {s} : tx'[o] = tx[o]
        /\ UNCHANGED rowVars
    BY <1>18 DEF RollBackReleases, Lock, Continue, Tx
  <2> QED
    BY <2>1 DEF ReleasesToRollBack, rowVars, TxInv
<1>19. ASSUME NEW s \in Sessions, CommitRevocation(s), UNCHANGED <<qualification, promotions>>
       PROVE   PendingInv'
  <2> DEFINE rows == tx[s].held
  <2>1. /\ tx[s].op = "commit_revocation"
        /\ tx' = [tx EXCEPT ![s] = NoTx]
    BY <1>19 DEF CommitRevocation, End
  <2>2. /\ \A x \in Snapshots : x \notin rows => snapshot'[x] = snapshot[x]
        /\ \A r \in Releases : r \notin rows => release'[r] = release[r]
    BY <1>19 DEF CommitRevocation
  <2>3. \A o \in Sessions \ {s} : rows \cap tx[o].held = {}
    BY <2>1 DEF LockInv
  <2>4. HeldIsLive'
    BY <2>1, <2>2, <2>3 DEF NoTx
  <2>5. NewIsAbsent'
    BY <2>1, <2>2 DEF NoTx, TxInv
  <2> QED
    BY <2>4, <2>5
<1>20. ASSUME NEW s \in Sessions, Abort(s), UNCHANGED <<qualification, promotions>>
       PROVE   PendingInv'
  BY <1>20 DEF Abort, End, rowVars, NoTx
<1>21. ASSUME NEW s \in Sessions, NEW r \in Releases, NEW d \in Adapters, NEW u \in Users,
              NEW q \in Qualifications \cup {None}, ReadDependencies(s, r, d, u, q)
       PROVE   PendingInv'
  <2>1. /\ tx'[s].op = "insert_release" /\ tx'[s].new = r
        /\ \A o \in Sessions \ {s} : tx'[o] = tx[o]
        /\ UNCHANGED rowVars
    BY <1>21 DEF ReadDependencies, Begin, NoTx, Tx
  <2>2. release[r].status = "absent" /\ Fresh(r)
    BY <1>21 DEF ReadDependencies
  <2> QED
    BY <2>1, <2>2 DEF rowVars, Fresh
<1>22. ASSUME NEW s \in Sessions, InsertRelease(s) PROVE PendingInv'
  BY <1>22 DEF InsertRelease, End, NoTx, TxInv, Tx, RowsOK, Release
<1>23. ASSUME NEW r \in Releases, CreateUngoverned(r) PROVE PendingInv'
  BY <1>23 DEF CreateUngoverned, Fresh, RowsOK, Release, TxInv
<1>24. ASSUME NEW r \in Releases, NEW u \in Users,
              NEW target \in {"shadow", "canary", "promoted", "rejected", "rolled_back"},
              AdvanceRelease(r, target, u)
       PROVE   PendingInv'
  <2>1. Unlocked({r}) /\ release[r].status # "absent"
    BY <1>24 DEF AdvanceRelease, Advance, MayAdvance, Transitions
  <2>2. \A o \in Releases \ {r} : release'[o] = release[o]
    BY <1>24 DEF AdvanceRelease, Advance, RowsOK
  <2>3. \A s \in Sessions : r \notin tx[s].held
    BY <2>1 DEF Unlocked
  <2> QED
    BY <1>24, <2>1, <2>2, <2>3 DEF AdvanceRelease, Advance, TxInv
<1>25. ASSUME NEW s \in Sessions, NEW r \in Releases, NEW u \in Users, Observe(s, r, u)
       PROVE   PendingInv'
  BY <1>25 DEF Observe, Begin, End, rowVars, NoTx
<1>26. ASSUME NEW s \in Sessions, ActOnObservation(s) PROVE PendingInv'
  <2>1. PICK r \in tx[s].from : Advance(r, tx[s].op, tx[s].by)
    BY <1>26 DEF ActOnObservation
  <2>2. r \in Releases
    BY <1>26 DEF ActOnObservation, TxInv
  <2>3. Unlocked({r}) /\ release[r].status # "absent"
    BY <2>1 DEF Advance, MayAdvance, Transitions
  <2>4. \A o \in Releases \ {r} : release'[o] = release[o]
    BY <2>1 DEF Advance, RowsOK
  <2>5. \A o \in Sessions : r \notin tx[o].held
    BY <2>3 DEF Unlocked
  <2>6. tx' = [tx EXCEPT ![s] = NoTx] /\ snapshot' = snapshot
    BY <1>26, <2>1 DEF ActOnObservation, Advance, End
  <2> QED
    BY <2>2, <2>3, <2>4, <2>5, <2>6 DEF NoTx, TxInv
<1>27. ASSUME NEW q \in Qualifications, NEW u \in Users, CreateQualification(q, u)
       PROVE   PendingInv'
  BY <1>27 DEF CreateQualification
<1>28. ASSUME NEW q \in Qualifications, ApproveData(q) PROVE PendingInv'
  BY <1>28 DEF ApproveData
<1>29. ASSUME NEW q \in Qualifications, NEW base \in Evaluations, NEW candidate \in Evaluations,
              NEW u \in Users, MarkCalibrated(q, base, candidate, u)
       PROVE   PendingInv'
  BY <1>29 DEF MarkCalibrated
<1>30. ASSUME NEW q \in Qualifications, NEW role \in {"admin", "reviewer"},
              RevokeQualification(q, role)
       PROVE   PendingInv'
  <2>1. tx' = tx
    BY <1>30 DEF RevokeQualification
  <2>2. /\ \A x \in Snapshots :
             snapshot'[x] # snapshot[x] => /\ snapshot[x].state \in LiveSnapshot
                                           /\ \A s \in Sessions : x \notin tx[s].held
        /\ \A r \in Releases :
             release'[r] # release[r] => /\ release[r].status \in LiveRelease
                                         /\ \A s \in Sessions : r \notin tx[s].held
    BY <1>30 DEF RevokeQualification, Unlocked
  <2> QED
    BY <2>1, <2>2 DEF TxInv
<1> HIDE DEF PendingInv
<1>31. QED
  BY <1>1, <1>2, <1>3, <1>4, <1>5, <1>6, <1>7, <1>8, <1>9, <1>10, <1>11, <1>12, <1>13, <1>14,
     <1>15, <1>16, <1>17, <1>18, <1>19, <1>20, <1>21, <1>22, <1>23, <1>24, <1>25, <1>26, <1>27,
     <1>28, <1>29, <1>30
  DEF Next, LineageNext, Reviews, Training, Judging, Revocation, Releasing, Qualifying

(* What a transaction decided still holds when it commits.                 *)
LEMMA SpecPending == Spec => []PendingInv
<1>1. Typed /\ LockInv /\ PendingInv /\ [Next]_vars => PendingInv'
  BY StepPending
<1> QED
  BY <1>1, InitPending, SpecTyped, SpecLocks, PTL DEF Spec
-----------------------------------------------------------------------------
(* The snapshot of an adapter that is being recorded is still approved.    *)
SnapshotApproved ==
  \A s \in Sessions :
    tx[s].op = "insert_adapter" => \A x \in tx[s].from : snapshot[x].state = "approved"

(* A revocation looks for the adapters of the very snapshots it holds, and *)
(* has them all once it has looked.                                        *)
AdaptersFound ==
  \A s \in Sessions :
    /\ tx[s].op = "revoke_snapshots" => tx[s].held \cap Snapshots = {}
    /\ tx[s].op \in Revoking => tx[s].held \cap Snapshots \subseteq tx[s].from
    /\ tx[s].op \in {"revoke_releases", "commit_revocation"} =>
         \A d \in Adapters :
           adapter[d].state \in LiveAdapter /\ adapter[d].snapshot \in tx[s].held =>
             d \in tx[s].held

FollowInv ==
  /\ SnapshotApproved
  /\ AdaptersFound
  /\ \A d \in Adapters : adapter[d].state \in LiveAdapter => adapter[d].snapshot \in Snapshots
  /\ AdaptersFollowSnapshots

(* There is no adapter.                                                    *)
LEMMA InitFollow == InitG => FollowInv
  BY DEF InitG, Init, FollowInv, SnapshotApproved, AdaptersFound, AdaptersFollowSnapshots, NoTx,
         LiveAdapter, Revoking

(* A snapshot stays approved while its adapter is inserted, and a          *)
(* revocation finds them all.                                              *)
LEMMA StepFollow == Typed /\ LockInv /\ PendingInv /\ FollowInv /\ [Next]_vars => FollowInv'
<1> SUFFICES ASSUME Typed, LockInv, PendingInv, FollowInv, [Next]_vars PROVE FollowInv'
  OBVIOUS
<1> USE DEF Typed, TypeOK, FollowInv, SnapshotApproved, AdaptersFound, AdaptersFollowSnapshots,
           NothingDisqualified, LiveAdapter, Revoking
<1>1. CASE UNCHANGED vars
  BY <1>1 DEF vars
<1>2. ASSUME NEW a \in Annotations, ReviewAnnotation(a), UNCHANGED <<qualification, promotions>>
      PROVE   FollowInv'
  BY <1>2 DEF ReviewAnnotation
<1>3. ASSUME NEW s \in Sessions, NEW x \in Snapshots, NEW items \in SUBSET Annotations,
             NEW u \in Users, ReadSources(s, x, items, u),
             UNCHANGED <<qualification, promotions>>
      PROVE   FollowInv'
  BY <1>3 DEF ReadSources, Begin, End, rowVars, NoTx
<1>4. ASSUME NEW s \in Sessions, InsertSnapshot(s), UNCHANGED <<qualification, promotions>>
      PROVE   FollowInv'
  <2>1. /\ \A x \in Snapshots : snapshot[x].state # "absent" => snapshot'[x] = snapshot[x]
        /\ tx' = [tx EXCEPT ![s] = NoTx]
        /\ UNCHANGED <<adapter, qualification>>
    BY <1>4 DEF InsertSnapshot, End, PendingInv, NewIsAbsent, TxInv, RowsOK
  <2> QED
    BY <2>1 DEF NoTx, TxInv
<1>5. ASSUME NEW x \in Snapshots, NEW u \in Users, ApproveSnapshot(x, u),
             UNCHANGED <<qualification, promotions>>
      PROVE   FollowInv'
  BY <1>5 DEF ApproveSnapshot, RowsOK, Snapshot
<1>6. ASSUME NEW s \in Sessions, NEW d \in Adapters, NEW x \in Snapshots, ReadSnapshot(s, d, x),
             UNCHANGED <<qualification, promotions>>
      PROVE   FollowInv'
  BY <1>6 DEF ReadSnapshot, Begin, End, rowVars, NoTx
<1>7. ASSUME NEW s \in Sessions, InsertAdapter(s), UNCHANGED <<qualification, promotions>>
      PROVE   FollowInv'
  BY <1>7 DEF InsertAdapter, Begin, End, rowVars, NoTx, LockInv, TxInv, RowsOK, Adapter
<1>8. ASSUME NEW d \in Adapters, NEW e \in Evaluations, VerifyAdapter(d, e),
             UNCHANGED <<qualification, promotions>>
      PROVE   FollowInv'
  BY <1>8 DEF VerifyAdapter, Verifiable, RowsOK, Adapter
<1>9. ASSUME NEW d \in Adapters, VerifyAdapterForRelease(d),
             UNCHANGED <<qualification, promotions>>
      PROVE   FollowInv'
  BY <1>9 DEF VerifyAdapterForRelease, Verifiable, RowsOK, Adapter
<1>10. ASSUME NEW e \in Evaluations, NEW subject \in Adapters \cup {None},
              CreateCampaign(e, subject), UNCHANGED <<qualification, promotions>>
       PROVE   FollowInv'
  BY <1>10 DEF CreateCampaign
<1>11. ASSUME NEW t \in Trials, NEW e \in Evaluations, RegisterTrial(t, e),
              UNCHANGED <<qualification, promotions>>
       PROVE   FollowInv'
  BY <1>11 DEF RegisterTrial
<1>12. ASSUME NEW t \in Trials, FinishTrial(t), UNCHANGED <<qualification, promotions>>
       PROVE   FollowInv'
  BY <1>12 DEF FinishTrial, Unfinished
<1>13. ASSUME NEW e \in Evaluations, NEW gatesPassed \in BOOLEAN,
              CompleteCampaign(e, gatesPassed), UNCHANGED <<qualification, promotions>>
       PROVE   FollowInv'
  BY <1>13 DEF CompleteCampaign
<1>14. ASSUME NEW s \in Sessions, NEW sources \in SUBSET (Annotations \cap Revocable),
              RevokeSource(s, sources), UNCHANGED <<qualification, promotions>>
       PROVE   FollowInv'
  BY <1>14, RowsAssumption DEF RevokeSource, Begin, End, rowVars, NoTx
<1>15. ASSUME NEW s \in Sessions, NEW x \in Snapshots \cap Revocable, RevokeSnapshot(s, x),
              UNCHANGED <<qualification, promotions>>
       PROVE   FollowInv'
  BY <1>15, RowsAssumption DEF RevokeSnapshot, Begin, End, rowVars, NoTx
<1>16. ASSUME NEW s \in Sessions, RevokeSnapshots(s), UNCHANGED <<qualification, promotions>>
       PROVE   FollowInv'
  <2>1. /\ tx[s].op \in Revoking
        /\ tx'[s].op = "revoke_adapters" /\ tx'[s].from = tx[s].from
        /\ tx'[s].held = tx[s].held \cup SnapshotsToRevoke(s)
        /\ \A o \in Sessions \ {s} : tx'[o] = tx[o]
        /\ UNCHANGED rowVars
    BY <1>16 DEF RevokeSnapshots, Lock, Continue, Tx
  <2>2. SnapshotsToRevoke(s) \subseteq tx[s].from
    BY <2>1, RowsAssumption DEF SnapshotsToRevoke
  <2> QED
    BY <1>16, <2>1, <2>2, RowsAssumption DEF RevokeSnapshots, SnapshotsToRevoke, rowVars, TxInv
<1>17. ASSUME NEW s \in Sessions, RevokeAdapters(s), UNCHANGED <<qualification, promotions>>
       PROVE   FollowInv'
  <2>1. /\ tx[s].op \in Revoking
        /\ tx'[s].op = "revoke_releases" /\ tx'[s].from = tx[s].from
        /\ tx'[s].held = tx[s].held \cup AdaptersToRevoke(s)
        /\ \A o \in Sessions \ {s} : tx'[o] = tx[o]
        /\ UNCHANGED rowVars
    BY <1>17 DEF RevokeAdapters, Lock, Continue, Tx
  <2>2. AdaptersToRevoke(s) \cap Snapshots = {}
    BY <2>1, RowsAssumption DEF AdaptersToRevoke
  <2> QED
    BY <1>17, <2>1, <2>2, RowsAssumption DEF RevokeAdapters, AdaptersToRevoke, rowVars, TxInv
<1>18. ASSUME NEW s \in Sessions, RollBackReleases(s), UNCHANGED <<qualification, promotions>>
       PROVE   FollowInv'
  <2>1. /\ tx[s].op \in Revoking
        /\ tx'[s].op = "commit_revocation" /\ tx'[s].from = tx[s].from
        /\ tx'[s].held = tx[s].held \cup ReleasesToRollBack(s)
        /\ \A o \in Sessions \ {s} : tx'[o] = tx[o]
        /\ UNCHANGED rowVars
    BY <1>18 DEF RollBackReleases, Lock, Continue, Tx
  <2>2. ReleasesToRollBack(s) \cap Snapshots = {}
    BY <2>1, RowsAssumption DEF ReleasesToRollBack
  <2> QED
    BY <1>18, <2>1, <2>2, RowsAssumption DEF RollBackReleases, ReleasesToRollBack, rowVars, TxInv
<1>19. ASSUME NEW s \in Sessions, CommitRevocation(s), UNCHANGED <<qualification, promotions>>
       PROVE   FollowInv'
  <2> DEFINE rows == tx[s].held
  <2>1. /\ tx[s].op = "commit_revocation"
        /\ tx' = [tx EXCEPT ![s] = NoTx]
        /\ UNCHANGED qualification
    BY <1>19 DEF CommitRevocation, End
  <2>2. \A x \in Snapshots : x \notin rows => snapshot'[x] = snapshot[x]
    BY <1>19 DEF CommitRevocation
  <2>3. \A d \in Adapters :
          adapter'[d].state \in LiveAdapter => d \notin rows /\ adapter'[d] = adapter[d]
    BY <1>19 DEF CommitRevocation, RowsOK, Adapter
  <2>4. \A o \in Sessions \ {s} : rows \cap tx[o].shared = {}
    BY <2>1 DEF LockInv
  <2>5. SnapshotApproved'
    BY <2>1, <2>2, <2>4 DEF NoTx, TxInv
  <2>6. AdaptersFound'
    BY <2>1, <2>3 DEF NoTx
  <2>7. \A d \in Adapters :
          adapter'[d].state \in LiveAdapter => adapter'[d].snapshot \in Snapshots \ rows
    BY <2>1, <2>3
  <2>8. AdaptersFollowSnapshots'
    BY <2>1, <2>2, <2>3, <2>7
  <2> QED
    BY <2>5, <2>6, <2>7, <2>8
<1>20. ASSUME NEW s \in Sessions, Abort(s), UNCHANGED <<qualification, promotions>>
       PROVE   FollowInv'
  BY <1>20 DEF Abort, End, rowVars, NoTx
<1>21. ASSUME NEW s \in Sessions, NEW r \in Releases, NEW d \in Adapters, NEW u \in Users,
              NEW q \in Qualifications \cup {None}, ReadDependencies(s, r, d, u, q)
       PROVE   FollowInv'
  <2>1. tx'[s].op = "insert_release" /\ UNCHANGED rowVars
    BY <1>21 DEF ReadDependencies, Begin, NoTx, Tx
  <2>2. \A o \in Sessions \ {s} : tx'[o] = tx[o]
    BY <1>21 DEF ReadDependencies, Begin
  <2> QED
    BY <1>21, <2>1, <2>2 DEF rowVars, ReadDependencies
<1>22. ASSUME NEW s \in Sessions, InsertRelease(s) PROVE FollowInv'
  BY <1>22 DEF InsertRelease, End, NoTx
<1>23. ASSUME NEW r \in Releases, CreateUngoverned(r) PROVE FollowInv'
  BY <1>23 DEF CreateUngoverned
<1>24. ASSUME NEW r \in Releases, NEW u \in Users,
              NEW target \in {"shadow", "canary", "promoted", "rejected", "rolled_back"},
              AdvanceRelease(r, target, u)
       PROVE   FollowInv'
  BY <1>24 DEF AdvanceRelease, Advance, MayAdvance
<1>25. ASSUME NEW s \in Sessions, NEW r \in Releases, NEW u \in Users, Observe(s, r, u)
       PROVE   FollowInv'
  BY <1>25 DEF Observe, Begin, End, rowVars, NoTx
<1>26. ASSUME NEW s \in Sessions, ActOnObservation(s) PROVE FollowInv'
  BY <1>26 DEF ActOnObservation, Advance, MayAdvance, End, NoTx
<1>27. ASSUME NEW q \in Qualifications, NEW u \in Users, CreateQualification(q, u)
       PROVE   FollowInv'
  BY <1>27 DEF CreateQualification
<1>28. ASSUME NEW q \in Qualifications, ApproveData(q) PROVE FollowInv'
  BY <1>28 DEF ApproveData
<1>29. ASSUME NEW q \in Qualifications, NEW base \in Evaluations, NEW candidate \in Evaluations,
              NEW u \in Users, MarkCalibrated(q, base, candidate, u)
       PROVE   FollowInv'
  BY <1>29 DEF MarkCalibrated, RowsOK, Qualification
<1>30. ASSUME NEW q \in Qualifications, NEW role \in {"admin", "reviewer"},
              RevokeQualification(q, role)
       PROVE   FollowInv'
  <2>1. tx' = tx /\ ~NothingDisqualified'
    BY <1>30 DEF RevokeQualification, RowsOK, Qualification
  <2>2. \A d \in Adapters :
          adapter'[d].state \in LiveAdapter => adapter'[d] = adapter[d]
    BY <1>30 DEF RevokeQualification, RowsOK, Adapter
  <2>3. SnapshotApproved'
    BY <1>30, <2>1 DEF RevokeQualification, Unlocked, TxInv, RowsOK, Snapshot
  <2> QED
    BY <2>1, <2>2, <2>3
<1> HIDE DEF FollowInv
<1>31. QED
  BY <1>1, <1>2, <1>3, <1>4, <1>5, <1>6, <1>7, <1>8, <1>9, <1>10, <1>11, <1>12, <1>13, <1>14,
     <1>15, <1>16, <1>17, <1>18, <1>19, <1>20, <1>21, <1>22, <1>23, <1>24, <1>25, <1>26, <1>27,
     <1>28, <1>29, <1>30
  DEF Next, LineageNext, Reviews, Training, Judging, Revocation, Releasing, Qualifying

(* Adapters follow their snapshots.                                        *)
LEMMA SpecFollow == Spec => []FollowInv
<1>1. Typed /\ LockInv /\ PendingInv /\ FollowInv /\ [Next]_vars => FollowInv'
  BY StepFollow
<1> QED
  BY <1>1, InitFollow, SpecTyped, SpecLocks, SpecPending, PTL DEF Spec

(* While no qualification was revoked, an adapter in use was trained on an *)
(* approved snapshot.                                                      *)
THEOREM AdaptersFollow == Spec => []AdaptersFollowSnapshots
<1>1. FollowInv => AdaptersFollowSnapshots
  BY DEF FollowInv
<1> QED
  BY <1>1, SpecFollow, PTL

(* And what may be served was trained on no revoked source.                *)
THEOREM ResolvedClean == Spec => []ResolvedIsClean
<1>1. Typed /\ CleanInv /\ FollowInv => ResolvedIsClean
  <2> SUFFICES ASSUME Typed, CleanInv, FollowInv, NothingDisqualified, Resolved # None
               PROVE  \A a \in snapshot[adapter[Resolved].snapshot].items :
                        annotation[a] # "revoked"
    BY DEF ResolvedIsClean
  <2>1. Resolved \in Adapters /\ adapter[Resolved].state = "verified"
    BY DEF Resolved
  <2>2. /\ adapter[Resolved].snapshot \in Snapshots
        /\ snapshot[adapter[Resolved].snapshot].state = "approved"
    BY <2>1 DEF FollowInv, AdaptersFollowSnapshots, LiveAdapter
  <2> QED
    BY <2>2 DEF CleanInv, SnapshotsAreClean, LiveSnapshot
<1> QED
  BY <1>1, SpecTyped, SpecClean, SpecFollow, PTL
-----------------------------------------------------------------------------
(* A step leaves a release that was rejected or rolled back as it is.      *)
RolledBackStep ==
  \A r \in Releases :
    release[r].status \in {"rejected", "rolled_back"} => release'[r] = release[r]

(* Only a live release moves.                                              *)
LEMMA StepRolledBack == Typed /\ PendingInv /\ [Next]_vars => RolledBackStep
<1> SUFFICES ASSUME Typed, PendingInv, [Next]_vars PROVE RolledBackStep
  OBVIOUS
<1> USE DEF Typed, TypeOK, RolledBackStep
<1>1. CASE UNCHANGED vars
  BY <1>1 DEF vars
<1>2. ASSUME NEW a \in Annotations, ReviewAnnotation(a), UNCHANGED <<qualification, promotions>>
      PROVE   RolledBackStep
  BY <1>2 DEF ReviewAnnotation
<1>3. ASSUME NEW s \in Sessions, NEW x \in Snapshots, NEW items \in SUBSET Annotations,
             NEW u \in Users, ReadSources(s, x, items, u),
             UNCHANGED <<qualification, promotions>>
      PROVE   RolledBackStep
  BY <1>3 DEF ReadSources, Begin, End, rowVars, NoTx
<1>4. ASSUME NEW s \in Sessions, InsertSnapshot(s), UNCHANGED <<qualification, promotions>>
      PROVE   RolledBackStep
  BY <1>4 DEF InsertSnapshot, Begin, End, rowVars, NoTx
<1>5. ASSUME NEW x \in Snapshots, NEW u \in Users, ApproveSnapshot(x, u),
             UNCHANGED <<qualification, promotions>>
      PROVE   RolledBackStep
  BY <1>5 DEF ApproveSnapshot
<1>6. ASSUME NEW s \in Sessions, NEW d \in Adapters, NEW x \in Snapshots, ReadSnapshot(s, d, x),
             UNCHANGED <<qualification, promotions>>
      PROVE   RolledBackStep
  BY <1>6 DEF ReadSnapshot, Begin, End, rowVars, NoTx
<1>7. ASSUME NEW s \in Sessions, InsertAdapter(s), UNCHANGED <<qualification, promotions>>
      PROVE   RolledBackStep
  BY <1>7 DEF InsertAdapter, Begin, End, rowVars, NoTx
<1>8. ASSUME NEW d \in Adapters, NEW e \in Evaluations, VerifyAdapter(d, e),
             UNCHANGED <<qualification, promotions>>
      PROVE   RolledBackStep
  BY <1>8 DEF VerifyAdapter, Verifiable
<1>9. ASSUME NEW d \in Adapters, VerifyAdapterForRelease(d),
             UNCHANGED <<qualification, promotions>>
      PROVE   RolledBackStep
  BY <1>9 DEF VerifyAdapterForRelease, Verifiable
<1>10. ASSUME NEW e \in Evaluations, NEW subject \in Adapters \cup {None},
              CreateCampaign(e, subject), UNCHANGED <<qualification, promotions>>
       PROVE   RolledBackStep
  BY <1>10 DEF CreateCampaign
<1>11. ASSUME NEW t \in Trials, NEW e \in Evaluations, RegisterTrial(t, e),
              UNCHANGED <<qualification, promotions>>
       PROVE   RolledBackStep
  BY <1>11 DEF RegisterTrial
<1>12. ASSUME NEW t \in Trials, FinishTrial(t), UNCHANGED <<qualification, promotions>>
       PROVE   RolledBackStep
  BY <1>12 DEF FinishTrial, Unfinished
<1>13. ASSUME NEW e \in Evaluations, NEW gatesPassed \in BOOLEAN,
              CompleteCampaign(e, gatesPassed), UNCHANGED <<qualification, promotions>>
       PROVE   RolledBackStep
  BY <1>13 DEF CompleteCampaign
<1>14. ASSUME NEW s \in Sessions, NEW sources \in SUBSET (Annotations \cap Revocable),
              RevokeSource(s, sources), UNCHANGED <<qualification, promotions>>
       PROVE   RolledBackStep
  BY <1>14 DEF RevokeSource, Begin, End, rowVars, NoTx
<1>15. ASSUME NEW s \in Sessions, NEW x \in Snapshots \cap Revocable, RevokeSnapshot(s, x),
              UNCHANGED <<qualification, promotions>>
       PROVE   RolledBackStep
  BY <1>15 DEF RevokeSnapshot, Begin, End, rowVars, NoTx
<1>16. ASSUME NEW s \in Sessions, RevokeSnapshots(s), UNCHANGED <<qualification, promotions>>
       PROVE   RolledBackStep
  BY <1>16 DEF RevokeSnapshots, Lock, Continue, rowVars, SnapshotsToRevoke, AdaptersToRevoke,
      ReleasesToRollBack, Writable
<1>17. ASSUME NEW s \in Sessions, RevokeAdapters(s), UNCHANGED <<qualification, promotions>>
       PROVE   RolledBackStep
  BY <1>17 DEF RevokeAdapters, Lock, Continue, rowVars, SnapshotsToRevoke, AdaptersToRevoke,
      ReleasesToRollBack, Writable
<1>18. ASSUME NEW s \in Sessions, RollBackReleases(s), UNCHANGED <<qualification, promotions>>
       PROVE   RolledBackStep
  BY <1>18 DEF RollBackReleases, Lock, Continue, rowVars, SnapshotsToRevoke, AdaptersToRevoke,
      ReleasesToRollBack, Writable
<1>19. ASSUME NEW s \in Sessions, CommitRevocation(s), UNCHANGED <<qualification, promotions>>
       PROVE   RolledBackStep
  BY <1>19 DEF CommitRevocation, End, NoTx, PendingInv, HeldIsLive, LiveRelease, Revoking
<1>20. ASSUME NEW s \in Sessions, Abort(s), UNCHANGED <<qualification, promotions>>
       PROVE   RolledBackStep
  BY <1>20 DEF Abort, End, rowVars, NoTx
<1>21. ASSUME NEW s \in Sessions, NEW r \in Releases, NEW d \in Adapters, NEW u \in Users,
              NEW q \in Qualifications \cup {None}, ReadDependencies(s, r, d, u, q)
       PROVE   RolledBackStep
  BY <1>21 DEF ReadDependencies, Begin, rowVars
<1>22. ASSUME NEW s \in Sessions, InsertRelease(s) PROVE RolledBackStep
  BY <1>22 DEF InsertRelease, End, NoTx, TxInv, PendingInv, NewIsAbsent, RowsOK
<1>23. ASSUME NEW r \in Releases, CreateUngoverned(r) PROVE RolledBackStep
  BY <1>23 DEF CreateUngoverned, RowsOK
<1>24. ASSUME NEW r \in Releases, NEW u \in Users,
              NEW target \in {"shadow", "canary", "promoted", "rejected", "rolled_back"},
              AdvanceRelease(r, target, u)
       PROVE   RolledBackStep
  BY <1>24 DEF AdvanceRelease, Advance, MayAdvance, Transitions, RowsOK
<1>25. ASSUME NEW s \in Sessions, NEW r \in Releases, NEW u \in Users, Observe(s, r, u)
       PROVE   RolledBackStep
  BY <1>25 DEF Observe, Begin, End, rowVars, NoTx
<1>26. ASSUME NEW s \in Sessions, ActOnObservation(s) PROVE RolledBackStep
  <2>1. PICK r \in tx[s].from : Advance(r, tx[s].op, tx[s].by)
    BY <1>26 DEF ActOnObservation
  <2> QED
    BY <2>1 DEF Advance, MayAdvance, Transitions, RowsOK
<1>27. ASSUME NEW q \in Qualifications, NEW u \in Users, CreateQualification(q, u)
       PROVE   RolledBackStep
  BY <1>27 DEF CreateQualification
<1>28. ASSUME NEW q \in Qualifications, ApproveData(q) PROVE RolledBackStep
  BY <1>28 DEF ApproveData
<1>29. ASSUME NEW q \in Qualifications, NEW base \in Evaluations, NEW candidate \in Evaluations,
              NEW u \in Users, MarkCalibrated(q, base, candidate, u)
       PROVE   RolledBackStep
  BY <1>29 DEF MarkCalibrated
<1>30. ASSUME NEW q \in Qualifications, NEW role \in {"admin", "reviewer"},
              RevokeQualification(q, role)
       PROVE   RolledBackStep
  BY <1>30 DEF RevokeQualification, LiveRelease
<1> HIDE DEF RolledBackStep
<1>31. QED
  BY <1>1, <1>2, <1>3, <1>4, <1>5, <1>6, <1>7, <1>8, <1>9, <1>10, <1>11, <1>12, <1>13, <1>14,
     <1>15, <1>16, <1>17, <1>18, <1>19, <1>20, <1>21, <1>22, <1>23, <1>24, <1>25, <1>26, <1>27,
     <1>28, <1>29, <1>30
  DEF Next, LineageNext, Reviews, Training, Judging, Revocation, Releasing, Qualifying

(* A release that was rejected or rolled back stays so: an observation or  *)
(* a revocation that has read it before leaves it alone.                   *)
THEOREM RolledBack == Spec => RolledBackStays
<1>1. Typed /\ PendingInv /\ [Next]_vars =>
        [\A r \in Releases :
           release[r].status \in {"rejected", "rolled_back"} => release'[r] = release[r]]_vars
  BY StepRolledBack DEF RolledBackStep
<1> QED
  BY <1>1, SpecTyped, SpecPending, PTL DEF Spec, RolledBackStays
=============================================================================
