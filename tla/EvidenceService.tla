-------------------------- MODULE EvidenceService --------------------------
(***************************************************************************)
(* src/core/evidence.py for one run: its run_manifests row, its rows of    *)
(* harness_outbox, the objects in the store, and the calls that are inside *)
(* request, reconcile (with publish) or delete_manifest.                   *)
(*                                                                         *)
(* A manifest carries the time its snapshot was taken, so no two snapshots *)
(* have one digest.  A digest is kept as the number of its snapshot, and a *)
(* body as the digest it was written under and whether it still matches.   *)
(***************************************************************************)
EXTENDS Naturals, FiniteSets

CONSTANTS
  Callers,       \* one element per concurrent call
  Outcomes,      \* final_outcome a run may request
  MaxSnapshots,  \* bound: faults stop once this many snapshots were taken
  None           \* SQL NULL

ASSUME EvidenceAssumption == MaxSnapshots \in Nat /\ None \notin Nat /\ None \notin Outcomes

VARIABLES
  manifest,  \* the run_manifests row
  outbox,    \* state of the publish_manifest row of the outbox
  deletion,  \* state of the delete_manifest row of the outbox
  objects,   \* the bodies in the store
  taken,     \* number of snapshots taken
  call       \* where each call is, and the digest it works with

evidenceVars == <<manifest, outbox, deletion, objects, taken, call>>
-----------------------------------------------------------------------------
ManifestStates ==
  {"absent", "requested", "staged", "verified", "published", "publish_blocked", "deleting",
   "deleted"}

OutboxStates == {"absent", "pending", "processing", "retry", "completed"}

Publishing == {"snapshot", "stage", "mark_staged", "verify", "copy", "publish", "block"}

Phases ==
  Publishing \cup {"idle", "claim", "lookup", "delete_object", "tombstone", "ok", "raised"}

Manifest == [state : ManifestStates, outcome : Outcomes \cup {None}, key : Nat \cup {None}]

Body == [kind : {"staging", "final"}, digest : Nat, intact : BOOLEAN]

ManifestTypeOK ==
  /\ manifest \in Manifest
  /\ outbox \in OutboxStates
  /\ deletion \in {"absent", "pending", "completed"}
  /\ objects \subseteq Body
  /\ taken \in Nat
  /\ call \in [Callers -> [at : Phases, digest : Nat]]

NoCall == [at |-> "idle", digest |-> 0]

Init ==
  /\ manifest = [state |-> "absent", outcome |-> None, key |-> None]
  /\ outbox = "absent"
  /\ deletion = "absent"
  /\ objects = {}
  /\ taken = 0
  /\ call = [c \in Callers |-> NoCall]

At(c, phase) == call[c].at = phase

Goto(c, phase) == call' = [call EXCEPT ![c].at = phase]

Intact(kind, digest) == [kind |-> kind, digest |-> digest, intact |-> TRUE] \in objects

(* The write of an object under a new key; faults may spoil the body. *)
Put(kind, digest) ==
  \E intact \in BOOLEAN :
    /\ intact \/ taken < MaxSnapshots
    /\ objects' = objects \cup {[kind |-> kind, digest |-> digest, intact |-> intact]}

(* The trigger prevent_published_manifest_mutation. *)
Rejected(row) ==
  \/ manifest.state = "published" /\ row.key # manifest.key
  \/ manifest.state = "deleted" /\ row.state # "deleted"

(* One transaction that updates the row, and with it the outbox row. *)
Write(c, row, box, phase) ==
  IF Rejected(row)
  THEN Goto(c, "raised") /\ UNCHANGED <<manifest, outbox>>
  ELSE manifest' = row /\ outbox' = box /\ Goto(c, phase)
-----------------------------------------------------------------------------
(* request: both inserts do nothing when the run has their row already. *)
Request(c, outcome) ==
  /\ At(c, "idle")
  /\ manifest' = IF manifest.state # "absent" THEN manifest
                 ELSE [state |-> "requested", outcome |-> outcome, key |-> None]
  /\ outbox' = IF outbox = "absent" THEN "pending" ELSE outbox
  /\ UNCHANGED <<deletion, objects, taken, call>>

(* reconcile begins; it looks for a row that was requested before. *)
Reconcile(c) ==
  /\ At(c, "idle")
  /\ manifest.state # "absent"
  /\ Goto(c, "claim")
  /\ UNCHANGED <<manifest, outbox, deletion, objects, taken>>

(* Defect: a row somebody is processing can be claimed. *)
ClaimableInProgress == outbox \in {"pending", "retry", "processing"}

(* Defect: a publication that was put back is not taken up. *)
ClaimableOnce == outbox = "pending"

Claimable == outbox \in {"pending", "retry"}

(* The claim, or else the look at the manifest. *)
Claim(c) ==
  /\ At(c, "claim")
  /\ IF Claimable
     THEN outbox' = "processing" /\ Goto(c, "snapshot")
     ELSE Goto(c, "lookup") /\ UNCHANGED outbox
  /\ UNCHANGED <<manifest, deletion, objects, taken>>

(* Defect: whoever processes the row is trusted to publish it. *)
AlwaysPublished == TRUE

AlreadyPublished == manifest.state = "published"

Lookup(c) ==
  /\ At(c, "lookup")
  /\ Goto(c, IF AlreadyPublished THEN "ok" ELSE "raised")
  /\ UNCHANGED <<manifest, outbox, deletion, objects, taken>>

(* publish *)
Snapshot(c) ==
  /\ At(c, "snapshot")
  /\ taken' = taken + 1
  /\ call' = [call EXCEPT ![c] = [at |-> "stage", digest |-> taken + 1]]
  /\ UNCHANGED <<manifest, outbox, deletion, objects>>

(* The fingerprint is incomplete or the manifest too large. *)
SnapshotRefused(c) ==
  /\ At(c, "snapshot")
  /\ taken < MaxSnapshots
  /\ taken' = taken + 1
  /\ Goto(c, "block")
  /\ UNCHANGED <<manifest, outbox, deletion, objects>>

Stage(c) ==
  /\ At(c, "stage")
  /\ Put("staging", call[c].digest)
  /\ Goto(c, "mark_staged")
  /\ UNCHANGED <<manifest, outbox, deletion, taken>>

MarkStaged(c) ==
  /\ At(c, "mark_staged")
  /\ Write(c, [manifest EXCEPT !.state = "staged"], outbox, "verify")
  /\ UNCHANGED <<deletion, objects, taken>>

Verify(c) ==
  /\ At(c, "verify")
  /\ IF Intact("staging", call[c].digest)
     THEN Write(c, [manifest EXCEPT !.state = "verified"], outbox, "copy")
     ELSE Goto(c, "block") /\ UNCHANGED <<manifest, outbox>>
  /\ UNCHANGED <<deletion, objects, taken>>

(* The digest is new, so the final key is free. *)
Copy(c) ==
  /\ At(c, "copy")
  /\ Put("final", call[c].digest)
  /\ Goto(c, "publish")
  /\ UNCHANGED <<manifest, outbox, deletion, taken>>

(* Defect: the final object is not read back. *)
TrustedCopy(c) == TRUE

FinalMatches(c) == Intact("final", call[c].digest)

Publish(c) ==
  /\ At(c, "publish")
  /\ IF FinalMatches(c)
     THEN Write(c, [manifest EXCEPT !.state = "published", !.key = call[c].digest],
                "completed", "ok")
     ELSE Goto(c, "block") /\ UNCHANGED <<manifest, outbox>>
  /\ UNCHANGED <<deletion, objects, taken>>

BlockedOutbox == "retry"

(* The RuntimeError or ValueError of publish is recorded and raised again. *)
Block(c) ==
  /\ At(c, "block")
  /\ Write(c, [manifest EXCEPT !.state = "publish_blocked"], BlockedOutbox, "raised")
  /\ UNCHANGED <<deletion, objects, taken>>

(* Any other exception: of the store, or of the database. *)
Escape(c) ==
  /\ call[c].at \notin {"idle", "ok", "raised"}
  /\ Goto(c, "raised")
  /\ UNCHANGED <<manifest, outbox, deletion, objects, taken>>

CrashCall(c) ==
  /\ ~At(c, "idle")
  /\ call' = [call EXCEPT ![c] = NoCall]
  /\ UNCHANGED <<manifest, outbox, deletion, objects, taken>>

Return(c) ==
  /\ call[c].at \in {"ok", "raised"}
  /\ call' = [call EXCEPT ![c] = NoCall]
  /\ UNCHANGED <<manifest, outbox, deletion, objects, taken>>
-----------------------------------------------------------------------------
(* Defect: the row is a tombstone before the object is gone. *)
TombstoneFirst == [manifest EXCEPT !.state = "deleted"]

Deleting == [manifest EXCEPT !.state = "deleting"]

(* delete_manifest *)
BeginDelete(c) ==
  /\ At(c, "idle")
  /\ manifest.key # None
  /\ ~Rejected(Deleting)
  /\ manifest' = Deleting
  /\ deletion' = IF deletion = "absent" THEN "pending" ELSE deletion
  /\ call' = [call EXCEPT ![c] = [at |-> "delete_object", digest |-> manifest.key]]
  /\ UNCHANGED <<outbox, objects, taken>>

DeleteObject(c) ==
  /\ At(c, "delete_object")
  /\ objects' = {body \in objects : ~(body.kind = "final" /\ body.digest = call[c].digest)}
  /\ Goto(c, "tombstone")
  /\ UNCHANGED <<manifest, outbox, deletion, taken>>

Tombstone(c) ==
  /\ At(c, "tombstone")
  /\ manifest' = [manifest EXCEPT !.state = "deleted"]
  /\ deletion' = "completed"
  /\ Goto(c, "ok")
  /\ UNCHANGED <<outbox, objects, taken>>
-----------------------------------------------------------------------------
PublishStep(c) ==
  \/ Claim(c) \/ Lookup(c)
  \/ Snapshot(c) \/ SnapshotRefused(c) \/ Stage(c) \/ MarkStaged(c) \/ Verify(c)
  \/ Copy(c) \/ Publish(c) \/ Block(c)

DeleteStep(c) == DeleteObject(c) \/ Tombstone(c)

CallStep(c) == PublishStep(c) \/ DeleteStep(c)

Next ==
  \E c \in Callers :
    \/ \E outcome \in Outcomes : Request(c, outcome)
    \/ Reconcile(c)
    \/ BeginDelete(c)
    \/ CallStep(c) \/ Return(c) \/ Escape(c) \/ CrashCall(c)

Spec == Init /\ [][Next]_evidenceVars
-----------------------------------------------------------------------------
(* The trigger guards the key of a published row; nothing but the claim    *)
(* keeps two calls from publishing one run at the same time.               *)
OnePublisher ==
  \A c, d \in Callers : call[c].at \in Publishing /\ call[d].at \in Publishing => c = d

(* What the index calls published is in the store, and is what was hashed, *)
(* although the copy is made by the store and may be spoilt.               *)
PublishedIsIntact == manifest.state = "published" => Intact("final", manifest.key)

(* A tombstone means that the object is gone, and that nobody who was      *)
(* still publishing or deleting brings it back.                            *)
DeletedIsGone ==
  manifest.state = "deleted" =>
    \A body \in objects : ~(body.kind = "final" /\ body.digest = manifest.key)

(* Liveness.  Calls go on, and somebody calls reconcile as long as nothing *)
(* is published: the client of a run that stays evidence_pending does.     *)
PublishFairness ==
  /\ \A c \in Callers : WF_evidenceVars(CallStep(c) \/ Return(c))
  /\ WF_evidenceVars(\E c \in Callers : manifest.key = None /\ Reconcile(c))

LiveSpec == Spec /\ PublishFairness

(* A call that does not die and raises no unforeseen exception. *)
ReliableStep ==
  \E c \in Callers :
    \/ \E outcome \in Outcomes : Request(c, outcome)
    \/ Reconcile(c) \/ BeginDelete(c) \/ CallStep(c) \/ Return(c)

(* The outbox row was claimed by a call that is gone. *)
ClaimLost ==
  outbox = "processing" /\ manifest.key = None /\ \A c \in Callers : call[c].at \notin Publishing

(* Once calls stop dying, a requested manifest is published whatever was   *)
(* refused, spoilt or lost on the way: a publication that failed is put    *)
(* back and claimed again, unless the claim itself was lost.               *)
EventuallyPublished ==
  <>[][ReliableStep]_evidenceVars =>
    (manifest.state # "absent" ~> manifest.key # None \/ ClaimLost)
=============================================================================
