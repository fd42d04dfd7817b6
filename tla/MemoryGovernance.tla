------------------------- MODULE MemoryGovernance -------------------------
(***************************************************************************)
(* The memories of one tenant and kind: src/memory/orchestrator.py and     *)
(* src/memory/governance.py. A row is named by its content, because the    *)
(* table admits one row per tenant, kind and content hash, deleted rows    *)
(* included. Embeddings, the ACL rows and the audit log are left out; of   *)
(* the policy events only 'expired' is ever read back.                     *)
(*                                                                         *)
(* A creation reads the claim and inserts in one transaction that locks    *)
(* nothing (READ COMMITTED), so the two are actions of their own; so are   *)
(* the three transactions of revise. The other operations lock the row     *)
(* they decide about, or decide in the UPDATE itself.                      *)
(***************************************************************************)
EXTENDS Naturals, FiniteSets

CONSTANTS
  Contents,      \* what a memory says
  Claims,        \* claim keys shared by several contents
  Users, Admins, \* callers; an administrator is a user
  Events,        \* conversation events a memory can come from
  Calls,         \* creations and revisions in flight
  None

ASSUME MemoryAssumption ==
  /\ Admins \subseteq Users
  /\ None \notin Contents \cup Claims \cup Users
  /\ Contents \cap Claims = {}

VARIABLES
  memory,        \* the rows of memories, by content
  replaces,      \* memory_versions: the row each replacement supersedes
  expiry,        \* rows with an 'expired' policy event
  op             \* creations and revisions in flight

memoryVars == <<memory, replaces, expiry, op>>

Active == {"candidate", "approved", "conflicted"}
Statuses == Active \cup {"superseded", "deleted", "rejected"}

\* What policy looks at: sensitivity, trust, risk class and confidence of a candidate. A legacy
\* row was written by create_candidate; it has no conversation events as sources.
Labels == {"low", "high", "untrusted", "prohibited", "legacy"}

Row == [status : Statuses, scope : {"personal", "shared"}, owner : Users,
        claim : Claims \cup Contents, label : Labels, until : {"never", "later", "past"},
        sources : SUBSET Events]

\* What stands for a content without a row.
NoRow == [status |-> "absent", scope |-> "personal", owner |-> None, claim |-> None,
          label |-> "legacy", until |-> "never", sources |-> {}]

Idle == [pc |-> "idle", content |-> None, row |-> None, old |-> None]
Failed == [Idle EXCEPT !.pc = "raised"]

MemoryInit ==
  /\ memory = [c \in Contents |-> NoRow]
  /\ replaces = [c \in Contents |-> None]
  /\ expiry = {}
  /\ op = [p \in Calls |-> Idle]

Rows == {c \in Contents : memory[c].status # "absent"}

SameClaim(r, s) ==
  /\ r.scope = s.scope /\ r.claim = s.claim
  /\ r.scope = "personal" => r.owner = s.owner

\* Contents that are active for the claim of r.
Rivals(r) == {c \in Rows : memory[c].status \in Active /\ SameClaim(memory[c], r)}

\* Defect: the table has no index on the approved claim.
NoClaimIndex(c, r) == TRUE

\* The partial unique index memories_active_claim_idx lets row c become approved.
IndexAllows(c, r) == \A d \in Rivals(r) \ {c} : memory[d].status # "approved"

Free(p) == op[p].pc \in {"idle", "raised"}

Mine(u, c) == memory[c].owner = u \/ u \in Admins

---------------------------------------------------------------------------
\* The decision of create_governed_candidate before it has seen the claim.
PolicyStatus(label, scope, auto) ==
  CASE label \in {"prohibited", "untrusted"}                 -> "rejected"
    [] label = "low" /\ scope = "personal" /\ auto           -> "approved"
    [] OTHER                                                 -> "candidate"

\* One transaction: the duplicate is returned as it is; otherwise the status is decided by
\* whether the claim has another value.
ReadClaim(p, u, c, scope, claim, label, sources, auto, old) ==
  LET new == [status |-> PolicyStatus(label, scope, auto), scope |-> scope, owner |-> u,
              claim |-> claim, label |-> label, until |-> "never", sources |-> sources]
      call == [pc |-> "insert", content |-> c, row |-> new, old |-> old]
  IN op' = [op EXCEPT ![p] =
              IF c \in Rivals(new) THEN IF old = None THEN Idle ELSE [call EXCEPT !.pc = "link"]
              ELSE IF Rivals(new) # {} THEN [call EXCEPT !.row.status = "conflicted"]
              ELSE call]

CreateGoverned(p, u, c, scope, claim, label, sources, auto) ==
  /\ Free(p)
  /\ sources # {}
  /\ ReadClaim(p, u, c, scope, claim, label, sources, auto, None)
  /\ UNCHANGED <<memory, replaces, expiry>>

\* The INSERT meets the unique indexes of the table: the content, and the approved claim.
Insertable(p) ==
  /\ memory[op[p].content] = NoRow
  /\ op[p].row.status = "approved" => IndexAllows(op[p].content, op[p].row)

InsertMemory(p) ==
  /\ op[p].pc = "insert"
  /\ \/ /\ Insertable(p)
        /\ memory' = [memory EXCEPT ![op[p].content] = op[p].row]
        /\ op' = [op EXCEPT ![p] = IF @.old = None THEN Idle ELSE [@ EXCEPT !.pc = "link"]]
     \/ /\ ~Insertable(p)
        /\ op' = [op EXCEPT ![p] = Failed]
        /\ UNCHANGED memory
  /\ UNCHANGED <<replaces, expiry>>

\* create_candidate: a legacy row, with a claim of its own.
CreateLegacy(p, u, c, until, old) ==
  op' = [op EXCEPT ![p] =
    [pc |-> "insert", content |-> c, old |-> old,
     row |-> [status |-> "candidate", scope |-> "personal", owner |-> u, claim |-> c,
              label |-> "legacy", until |-> until, sources |-> {}]]]

CreateCandidate(p, u, c, until) ==
  /\ Free(p)
  /\ CreateLegacy(p, u, c, until, None)
  /\ UNCHANGED <<memory, replaces, expiry>>

\* revise, first transaction and the reading half of the second: the replacement is created under
\* the claim of the row it revises, and never approved automatically. What the new content says may
\* be prohibited although the old one was not.
Revise(p, u, old, c, sources) ==
  /\ Free(p)
  /\ old \in Rows /\ memory[old].status # "deleted"
  /\ LET r == memory[old] IN
     \/ /\ r.label = "legacy"
        /\ CreateLegacy(p, u, c, "never", old)
     \/ /\ r.label # "legacy" /\ sources # {}
        /\ r.scope = "personal" => r.owner = u
        /\ \E label \in {r.label, "prohibited"} :
             ReadClaim(p, u, c, r.scope, r.claim, label, sources, FALSE, old)
  /\ UNCHANGED <<memory, replaces, expiry>>

\* revise, last transaction. memory_versions has one row per replacement, and its decision event
\* must be an agent event: the source of a governed row is a conversation event, so only the
\* revision of a legacy row gets past the insert. A refused insert takes the supersession with it.
Linkable(p) == op[p].row.label = "legacy" /\ replaces[op[p].content] = None

Link(p) ==
  /\ op[p].pc = "link"
  /\ \/ /\ Linkable(p)
        /\ replaces' = [replaces EXCEPT ![op[p].content] = op[p].old]
        /\ memory' = IF memory[op[p].old].status = "approved"
                     THEN [memory EXCEPT ![op[p].old].status = "superseded"] ELSE memory
        /\ op' = [op EXCEPT ![p] = Idle]
     \/ /\ ~Linkable(p)
        /\ op' = [op EXCEPT ![p] = Failed]
        /\ UNCHANGED <<memory, replaces>>
  /\ UNCHANGED expiry

\* The process dies between two transactions of a creation or revision.
CrashOp(p) ==
  /\ op[p].pc \in {"insert", "link"}
  /\ op' = [op EXCEPT ![p] = Failed]
  /\ UNCHANGED <<memory, replaces, expiry>>

---------------------------------------------------------------------------
\* Personal memories are approved by their owner or an administrator, shared ones by an
\* administrator who does not own them.
MayApprove(u, r) == IF r.scope = "personal" THEN r.owner = u \/ u \in Admins
                    ELSE u \in Admins /\ r.owner # u

Approve(u, c) ==
  /\ c \in Rows /\ memory[c].status = "candidate"
  /\ MayApprove(u, memory[c])
  /\ LET old == replaces[c]
         retired == IF old # None /\ memory[old].status = "approved"
                    THEN [memory EXCEPT ![old].status = "superseded"] ELSE memory
     IN /\ \A d \in Rivals(memory[c]) \ {c} : retired[d].status # "approved"
        /\ memory' = [retired EXCEPT ![c].status = "approved"]
  /\ UNCHANGED <<replaces, expiry, op>>

Reject(u, c) ==
  /\ c \in Rows /\ memory[c].status = "candidate"
  /\ Mine(u, c)
  /\ memory' = [memory EXCEPT ![c].status = "rejected"]
  /\ UNCHANGED <<replaces, expiry, op>>

\* delete asks for no state: every row of the caller becomes 'deleted'.
Delete(u, c) ==
  /\ c \in Rows
  /\ Mine(u, c)
  /\ memory' = [memory EXCEPT ![c].status = "deleted"]
  /\ UNCHANGED <<replaces, expiry, op>>

TimePasses(c) ==
  /\ c \in Rows /\ memory[c].until = "later"
  /\ memory' = [memory EXCEPT ![c].until = "past"]
  /\ UNCHANGED <<replaces, expiry, op>>

Due == {c \in Rows : memory[c].status = "approved" /\ memory[c].until = "past"}

ExpireDue ==
  /\ Due # {}
  /\ memory' = [c \in Contents |-> IF c \in Due THEN [memory[c] EXCEPT !.status = "superseded"]
                                   ELSE memory[c]]
  /\ expiry' = expiry \cup Due
  /\ UNCHANGED <<replaces, op>>

\* Defect: the UPDATE of revert_expiry forgets the state of the row.
RevertibleInAnyState(c) == c \in expiry

\* The event of an expiry can be reverted whenever the row is superseded, whatever superseded it.
Revertible(c) == c \in expiry /\ memory[c].status = "superseded"

RevertExpiry(c) ==
  /\ Revertible(c)
  /\ IndexAllows(c, memory[c])
  /\ memory' = [memory EXCEPT ![c].status = "approved", ![c].until = "never"]
  /\ UNCHANGED <<replaces, expiry, op>>

\* Approved memories that rest on the revoked events and on no other conversation event.
Orphaned(revoked) == {c \in Rows : /\ memory[c].status = "approved"
                                   /\ memory[c].sources # {} /\ memory[c].sources \subseteq revoked}

RevokeSources(revoked) ==
  /\ Orphaned(revoked) # {}
  /\ memory' = [c \in Contents |-> IF c \in Orphaned(revoked)
                                   THEN [memory[c] EXCEPT !.status = "superseded"] ELSE memory[c]]
  /\ UNCHANGED <<replaces, expiry, op>>

\* The rows that lose when c is selected.
Losers(c) == Rivals(memory[c]) \ {c}

ResolveConflict(u, c) ==
  /\ u \in Admins
  /\ c \in Rows /\ memory[c].status = "conflicted"
  /\ memory' = [d \in Contents |-> IF d = c THEN [memory[d] EXCEPT !.status = "approved"]
                                   ELSE IF d \in Losers(c)
                                        THEN [memory[d] EXCEPT !.status = "superseded"]
                                   ELSE memory[d]]
  /\ UNCHANGED <<replaces, expiry, op>>

---------------------------------------------------------------------------
\* What retrieve gives to a prompt.
Retrieved == {c \in Rows : memory[c].status = "approved" /\ memory[c].until # "past"}

MemoryTypeOK ==
  /\ memory \in [Contents -> Row \cup {NoRow}]
  /\ replaces \in [Contents -> Contents \cup {None}]
  /\ expiry \subseteq Rows
  /\ \A p \in Calls : /\ op[p].pc \in {"idle", "insert", "link", "raised"}
                      /\ op[p].content \in Contents \cup {None}
                      /\ op[p].row \in Row \cup {None}
                      /\ op[p].old \in Contents \cup {None}

\* A claim has at most one answer: two different contents of one claim are never both given to a
\* prompt, however creations that have not seen each other, approvals, conflict decisions and
\* reverted expiries interleave (orchestrator.py, governance.py and the index of migration 011).
OneApprovedPerClaim ==
  \A c, d \in Retrieved : SameClaim(memory[c], memory[d]) => c = d

\* No later operation, not a conflict decision, a revision, a reverted expiry nor a second
\* distillation of the same words, brings back a memory that was deleted or turned down.
DecisionsAreFinal ==
  [][\A c \in Rows : /\ memory[c].status = "deleted" => memory'[c].status = "deleted"
                     /\ memory[c].status = "rejected" => memory'[c].status \in {"rejected", "deleted"}
    ]_memory
===========================================================================
