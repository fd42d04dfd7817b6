----------------------- MODULE EvidenceServiceProofs -----------------------
(***************************************************************************)
(* Proofs about EvidenceService, for any number of concurrent calls, any   *)
(* number of snapshots and any bound on the faults.                        *)
(*                                                                         *)
(* The claim of the outbox row is what everything rests on: a call that    *)
(* publishes has made the row `processing`, only publishing completes it,  *)
(* and a completed row is never claimed again.  So there is one publisher, *)
(* there is none once the row has a key, and nothing can be written under  *)
(* a key that is published or deleted.                                     *)
(***************************************************************************)
EXTENDS EvidenceService, TLAPS

(* Who publishes owns the outbox row, and it is the only one. *)
Claimed == \A c \in Callers : call[c].at \in Publishing => outbox = "processing"

(* The key is set exactly when the outbox row is completed. *)
KeyCompletes ==
  /\ manifest.key # None => outbox = "completed" /\ manifest.state # "absent"
  /\ manifest.state \in {"published", "deleting", "deleted"} => manifest.key # None

(* A call that returned well has found or left a key; one that is over has nothing. *)
Returns ==
  \A c \in Callers :
    /\ call[c].at = "ok" => manifest.key # None
    /\ call[c].at = "idle" => call[c] = NoCall

(* Deletion works on the indexed object, of a row that is being deleted. *)
DeletesIndexed ==
  \A c \in Callers :
    /\ call[c].at \in {"delete_object", "tombstone"} =>
         /\ manifest.key # None
         /\ call[c].digest = manifest.key
         /\ manifest.state \in {"deleting", "deleted"}
    /\ call[c].at = "tombstone" =>
         \A body \in objects : ~(body.kind = "final" /\ body.digest = manifest.key)

IInv ==
  /\ ManifestTypeOK /\ Claimed /\ OnePublisher /\ KeyCompletes /\ Returns
  /\ DeletesIndexed /\ PublishedIsIntact /\ DeletedIsGone

LEMMA InitIInv == Init => IInv
  BY EvidenceAssumption
  DEF Init, IInv, ManifestTypeOK, Manifest, ManifestStates, OutboxStates, Phases, NoCall, Claimed,
      OnePublisher, KeyCompletes, Returns, DeletesIndexed, PublishedIsIntact, DeletedIsGone, Publishing

LEMMA StepIInv == IInv /\ [Next]_evidenceVars => IInv'
<1> SUFFICES ASSUME IInv, [Next]_evidenceVars PROVE IInv'
  OBVIOUS
<1> USE EvidenceAssumption
<1> USE DEF IInv, ManifestTypeOK, Manifest, ManifestStates, OutboxStates, Phases, Publishing,
            Claimed, OnePublisher, KeyCompletes, Returns, DeletesIndexed, PublishedIsIntact,
            DeletedIsGone, NoCall, At, Goto, Intact
<1>1. CASE UNCHANGED evidenceVars
  BY <1>1 DEF evidenceVars
<1>2. ASSUME NEW c \in Callers, NEW outcome \in Outcomes, Request(c, outcome) PROVE IInv'
  BY <1>2 DEF Request
<1>3. ASSUME NEW c \in Callers, Reconcile(c) PROVE IInv'
  BY <1>3 DEF Reconcile
<1>4. ASSUME NEW c \in Callers, BeginDelete(c) PROVE IInv'
  BY <1>4 DEF BeginDelete, Deleting, Rejected
<1>5. ASSUME NEW c \in Callers, Claim(c) PROVE IInv'
  BY <1>5 DEF Claim, Claimable
<1>6. ASSUME NEW c \in Callers, Lookup(c) PROVE IInv'
  BY <1>6 DEF Lookup, AlreadyPublished
<1>7. ASSUME NEW c \in Callers, Snapshot(c) PROVE IInv'
  BY <1>7 DEF Snapshot
<1>8. ASSUME NEW c \in Callers, SnapshotRefused(c) PROVE IInv'
  BY <1>8 DEF SnapshotRefused
<1>9. ASSUME NEW c \in Callers, Stage(c) PROVE IInv'
  BY <1>9 DEF Stage, Put, Body
<1>10. ASSUME NEW c \in Callers, MarkStaged(c) PROVE IInv'
  BY <1>10 DEF MarkStaged, Write, Rejected
<1>11. ASSUME NEW c \in Callers, Verify(c) PROVE IInv'
  BY <1>11 DEF Verify, Write, Rejected
<1>12. ASSUME NEW c \in Callers, Copy(c) PROVE IInv'
  BY <1>12 DEF Copy, Put, Body
<1>13. ASSUME NEW c \in Callers, Publish(c) PROVE IInv'
  <2>1. CASE FinalMatches(c)
    <3>1. /\ manifest.key = None
          /\ \A d \in Callers \ {c} : call[d].at \notin Publishing
          /\ call[c].digest \in Nat
      BY <1>13 DEF Publish
    <3>2. manifest.state \notin {"published", "deleted"}
      BY <3>1
    <3>3. /\ manifest' = [manifest EXCEPT !.state = "published", !.key = call[c].digest]
          /\ outbox' = "completed"
          /\ call' = [call EXCEPT ![c].at = "ok"]
          /\ UNCHANGED <<deletion, objects, taken>>
      BY <1>13, <2>1, <3>2 DEF Publish, Write, Rejected
    <3>4. ManifestTypeOK'
      <4>1. manifest' \in Manifest
        BY <3>1, <3>3
      <4>2. call' \in [Callers -> [at : Phases, digest : Nat]]
        BY <3>3
      <4> QED
        BY <3>3, <4>1, <4>2
    <3>5. (Claimed /\ OnePublisher /\ KeyCompletes /\ Returns /\ DeletesIndexed)'
      BY <3>1, <3>3
    <3>6. (PublishedIsIntact /\ DeletedIsGone)'
      BY <2>1, <3>1, <3>3 DEF FinalMatches
    <3> QED
      BY <3>4, <3>5, <3>6
  <2>2. CASE ~FinalMatches(c)
    BY <1>13, <2>2 DEF Publish
  <2> QED
    BY <2>1, <2>2
<1>14. ASSUME NEW c \in Callers, Block(c) PROVE IInv'
  <2>1. /\ outbox = "processing" /\ manifest.key = None
        /\ \A d \in Callers \ {c} : call[d].at \notin Publishing
        /\ manifest.state \notin {"published", "deleted"}
    BY <1>14 DEF Block
  <2>2. /\ manifest' = [manifest EXCEPT !.state = "publish_blocked"]
        /\ outbox' = "retry"
        /\ call' = [call EXCEPT ![c].at = "raised"]
        /\ UNCHANGED <<deletion, objects, taken>>
    BY <1>14, <2>1 DEF Block, BlockedOutbox, Write, Rejected
  <2>3. ManifestTypeOK'
    BY <2>2
  <2>4. (Claimed /\ OnePublisher /\ KeyCompletes)'
    BY <2>1, <2>2
  <2>5. (Returns /\ DeletesIndexed /\ PublishedIsIntact /\ DeletedIsGone)'
    BY <2>1, <2>2
  <2> QED
    BY <2>3, <2>4, <2>5
<1>15. ASSUME NEW c \in Callers, DeleteObject(c) PROVE IInv'
  BY <1>15 DEF DeleteObject
<1>16. ASSUME NEW c \in Callers, Tombstone(c) PROVE IInv'
  BY <1>16 DEF Tombstone
<1>17. ASSUME NEW c \in Callers, Return(c) PROVE IInv'
  BY <1>17 DEF Return
<1>18. ASSUME NEW c \in Callers, Escape(c) PROVE IInv'
  BY <1>18 DEF Escape
<1>19. ASSUME NEW c \in Callers, CrashCall(c) PROVE IInv'
  BY <1>19 DEF CrashCall
<1> QED
  BY <1>1, <1>2, <1>3, <1>4, <1>5, <1>6, <1>7, <1>8, <1>9, <1>10, <1>11, <1>12, <1>13, <1>14,
     <1>15, <1>16, <1>17, <1>18, <1>19
  DEF Next, CallStep, PublishStep, DeleteStep

(* A run that has a key keeps one. *)
LEMMA KeyStays == IInv /\ [Next]_evidenceVars => (manifest.key # None => manifest'.key # None)
<1> SUFFICES ASSUME IInv, [Next]_evidenceVars, manifest.key # None PROVE manifest'.key # None
  OBVIOUS
<1>1. /\ manifest \in Manifest /\ manifest.state # "absent"
      /\ \A c \in Callers : call[c].digest \in Nat
  BY DEF IInv, ManifestTypeOK, KeyCompletes
<1>2. ASSUME NEW c \in Callers, CallStep(c) PROVE manifest'.key # None
  BY <1>1, <1>2, EvidenceAssumption
  DEF CallStep, PublishStep, DeleteStep, Manifest, Claim, Lookup, Snapshot, SnapshotRefused, Stage,
      MarkStaged, Verify, Copy, Publish, Block, DeleteObject, Tombstone, Write, Goto
<1>3. ASSUME NEW c \in Callers, BeginDelete(c) PROVE manifest'.key # None
  BY <1>1, <1>3 DEF BeginDelete, Deleting, Manifest
<1> QED
  BY <1>1, <1>2, <1>3 DEF Next, evidenceVars, Request, Reconcile, Return, Escape, CrashCall

LEMMA SpecIInv == Spec => []IInv
  BY InitIInv, StepIInv, PTL DEF Spec

(* No two calls ever publish the manifest of one run at the same time.     *)
THEOREM SinglePublisher == Spec => []OnePublisher
<1>1. IInv => OnePublisher
  BY DEF IInv
<1> QED
  BY <1>1, SpecIInv, PTL

(* A manifest indexed as published is in the store as it was hashed, also  *)
(* when copies are spoilt and publishers and deleters crash and return.    *)
THEOREM PublishedIntact == Spec => []PublishedIsIntact
<1>1. IInv => PublishedIsIntact
  BY DEF IInv
<1> QED
  BY <1>1, SpecIInv, PTL

(* Behind a tombstone there is no final object, and none comes back.       *)
THEOREM DeletedGone == Spec => []DeletedIsGone
<1>1. IInv => DeletedIsGone
  BY DEF IInv
<1> QED
  BY <1>1, SpecIInv, PTL
=============================================================================
