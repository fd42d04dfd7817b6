------------------------ MODULE ConversationsProofs ------------------------
(***************************************************************************)
(* Proofs about Conversations, for any contents, claims, users, deliveries *)
(* and number of calls. One invariant has a part for each component, in    *)
(* the order of the sections below:                                        *)
(*   memories      the rows of a claim are kept apart by what an approval  *)
(*                 finds under its lock, by the index where nothing was    *)
(*                 locked or read, and by the losers of a conflict;        *)
(*   session       whoever adds an event makes a new version, so a reset   *)
(*                 that still has its version has the whole generation;    *)
(*   distillation  what a user asked is to be looked at, or on its way     *)
(*                 into the table, or there;                               *)
(*   chat request  what a delivery has found stays so, and the task works  *)
(*                 with the context that the receipt is bound to.          *)
(***************************************************************************)
EXTENDS Conversations, SequenceTheorems, TLAPS

IsRow(r) ==
  r = [status |-> r.status, scope |-> r.scope, owner |-> r.owner, claim |-> r.claim,
       label |-> r.label, until |-> r.until, sources |-> r.sources]

IsOp(o) == o = [pc |-> o.pc, content |-> o.content, row |-> o.row, old |-> o.old]

(* What a call has in hand: a row to insert, and the row that it revises.  *)
GoodOp(o, rows) ==
  /\ IsOp(o)
  /\ o.pc = "insert" => IsRow(o.row)
  /\ o.old \in rows \cup {None}
  /\ o.pc = "link" => o.old # None

OpsOK ==
  /\ op = [p \in Calls |-> op[p]]
  /\ \A p \in Calls : GoodOp(op[p], Rows)

RowsOK ==
  /\ memory = [c \in Contents |-> memory[c]]
  /\ \A c \in Contents : IsRow(memory[c])
  /\ replaces = [c \in Contents |-> replaces[c]]
  /\ \A c \in Contents : replaces[c] \in Rows \cup {None}
  /\ expiry \subseteq Rows

(* Of the rows of a claim one at most is approved, retrievable or not.     *)
ApprovedApart ==
  \A c, d \in Rows :
    /\ memory[c].status = "approved" /\ memory[d].status = "approved"
    /\ SameClaim(memory[c], memory[d])
    => c = d

MemoryInv == OpsOK /\ RowsOK /\ ApprovedApart

(* What a step may not take back.                                          *)
FinalStep ==
  \A c \in Rows :
    /\ memory[c].status = "deleted" => memory'[c].status = "deleted"
    /\ memory[c].status = "rejected" => memory'[c].status \in {"rejected", "deleted"}

(* Two rows are of one claim in either order.                              *)
LEMMA ClaimSymmetric ==
  ASSUME NEW r, NEW s, SameClaim(r, s) PROVE SameClaim(s, r)
  BY DEF SameClaim

(* There is no row and no call.                                            *)
LEMMA InitMemory == MemoryInit => MemoryInv
<1> SUFFICES ASSUME MemoryInit PROVE MemoryInv
  OBVIOUS
<1>1. OpsOK
  BY DEF MemoryInit, OpsOK, GoodOp, IsOp, Idle
<1>2. RowsOK
  BY DEF MemoryInit, RowsOK, NoRow, IsRow
<1>3. ApprovedApart
  BY DEF MemoryInit, ApprovedApart, Rows, NoRow
<1> QED
  BY <1>1, <1>2, <1>3 DEF MemoryInv

(* A call that starts or ends and leaves the tables as they are.           *)
LEMMA CallMoves ==
  ASSUME MemoryInv, UNCHANGED <<memory, replaces, expiry>>,
         NEW p, NEW o, op' = [op EXCEPT ![p] = o], GoodOp(o, Rows)
  PROVE  MemoryInv' /\ FinalStep
<1>1. Rows' = Rows
  BY DEF Rows
<1>2. OpsOK'
  BY <1>1 DEF MemoryInv, OpsOK, GoodOp
<1>3. RowsOK'
  BY <1>1 DEF MemoryInv, RowsOK
<1>4. ApprovedApart'
  BY <1>1 DEF MemoryInv, ApprovedApart
<1>5. FinalStep
  BY DEF FinalStep
<1> QED
  BY <1>2, <1>3, <1>4, <1>5 DEF MemoryInv

(* Neither tables nor calls change.                                        *)
LEMMA MemoryKept == MemoryInv /\ UNCHANGED memoryVars => MemoryInv' /\ FinalStep
<1> SUFFICES ASSUME MemoryInv, UNCHANGED memoryVars PROVE MemoryInv' /\ FinalStep
  OBVIOUS
<1>1. Rows' = Rows
  BY DEF Rows, memoryVars
<1> QED
  BY <1>1 DEF MemoryInv, OpsOK, GoodOp, RowsOK, ApprovedApart, FinalStep, memoryVars

SameOtherwise(q, r) == q.scope = r.scope /\ q.owner = r.owner /\ q.claim = r.claim

(* A row with another status or expiry is a row of the same claim.         *)
LEMMA Restatus ==
  ASSUME NEW r, IsRow(r), NEW s, NEW u
  PROVE  /\ IsRow([r EXCEPT !.status = s]) /\ IsRow([r EXCEPT !.until = u])
         /\ [r EXCEPT !.status = s].status = s /\ [r EXCEPT !.until = u].status = r.status
         /\ SameOtherwise([r EXCEPT !.status = s], r) /\ SameOtherwise([r EXCEPT !.until = u], r)
<1> DEFINE a == [r EXCEPT !.status = s]
           b == [r EXCEPT !.until = u]
       T == [status : {r.status, s}, scope : {r.scope}, owner : {r.owner}, claim : {r.claim},
             label : {r.label}, until : {r.until, u}, sources : {r.sources}]
<1>1. r \in T
  BY DEF IsRow
<1>2. /\ a \in T /\ a.status = s
      /\ b \in T /\ b.status = r.status
  BY <1>1
<1>3. \A x \in T : SameOtherwise(x, r)
  BY DEF SameOtherwise
<1>4. \A x \in T : IsRow(x)
  BY DEF IsRow
<1> QED
  BY <1>2, <1>3, <1>4

(* So is a row that is approved again.                                     *)
LEMMA Renewed ==
  ASSUME NEW r, IsRow(r)
  PROVE  LET q == [r EXCEPT !.status = "approved", !.until = "never"]
         IN  IsRow(q) /\ q.status = "approved" /\ SameOtherwise(q, r)
<1> DEFINE q == [r EXCEPT !.status = "approved", !.until = "never"]
           T == [status : {r.status, "approved"}, scope : {r.scope}, owner : {r.owner},
                 claim : {r.claim}, label : {r.label}, until : {r.until, "never"},
                 sources : {r.sources}]
<1>1. r \in T
  BY DEF IsRow
<1>2. q \in T /\ q.status = "approved"
  BY <1>1
<1>3. \A x \in T : IsRow(x) /\ SameOtherwise(x, r)
  BY DEF IsRow, SameOtherwise
<1> QED
  BY <1>2, <1>3

(* A decision changes the status of rows, and when they expire, and leaves *)
(* their claims. It suffices that no two rows of a claim are approved then, *)
(* and that nothing final moves.                                           *)
LEMMA RowsMove ==
  ASSUME MemoryInv, replaces' = replaces, op' = op, expiry' \subseteq Rows,
         memory' = [c \in Contents |-> memory'[c]],
         \A c \in Contents \ Rows : memory'[c] = memory[c],
         \A c \in Rows :
           /\ IsRow(memory'[c]) /\ memory'[c].status # "absent"
           /\ SameOtherwise(memory'[c], memory[c]),
         \A c, d \in Rows :
           /\ memory'[c].status = "approved" /\ memory'[d].status = "approved"
           /\ SameClaim(memory[c], memory[d])
           => c = d,
         FinalStep
  PROVE  MemoryInv' /\ FinalStep
<1>1. Rows \subseteq Contents /\ RowsOK
  BY DEF Rows, MemoryInv
<1>2. Rows' = Rows
  BY DEF Rows
<1>3. OpsOK'
  BY <1>2 DEF MemoryInv, OpsOK, GoodOp
<1>4. RowsOK'
  BY <1>1, <1>2 DEF RowsOK
<1>5. ApprovedApart'
  <2> SUFFICES ASSUME NEW c \in Rows, NEW d \in Rows,
                      memory'[c].status = "approved", memory'[d].status = "approved",
                      SameClaim(memory'[c], memory'[d])
               PROVE  c = d
    BY <1>2 DEF ApprovedApart
  <2>1. SameClaim(memory[c], memory[d])
    BY DEF SameClaim, SameOtherwise
  <2> QED
    BY <2>1
<1> QED
  BY <1>3, <1>4, <1>5 DEF MemoryInv

(* The first half of a creation or revision.                               *)
LEMMA ClaimRead ==
  ASSUME MemoryInv, UNCHANGED <<memory, replaces, expiry>>,
         NEW p \in Calls, NEW u, NEW c, NEW scope, NEW claim, NEW label, NEW sources, NEW auto,
         NEW old \in Rows \cup {None},
         ReadClaim(p, u, c, scope, claim, label, sources, auto, old)
  PROVE  MemoryInv' /\ FinalStep
<1> DEFINE new == [status |-> PolicyStatus(label, scope, auto), scope |-> scope, owner |-> u,
                   claim |-> claim, label |-> label, until |-> "never", sources |-> sources]
           fresh == [pc |-> "insert", content |-> c, row |-> new, old |-> old]
           linking == [pc |-> "link", content |-> c, row |-> new, old |-> old]
           other == [status |-> "conflicted", scope |-> scope, owner |-> u,
                     claim |-> claim, label |-> label, until |-> "never", sources |-> sources]
           conflicting == [pc |-> "insert", content |-> c, row |-> other, old |-> old]
<1>1. op' = [op EXCEPT ![p] =
               IF c \in Rivals(new) THEN IF old = None THEN Idle ELSE [fresh EXCEPT !.pc = "link"]
               ELSE IF Rivals(new) # {} THEN [fresh EXCEPT !.row.status = "conflicted"]
               ELSE fresh]
  BY DEF ReadClaim
<1>2. [fresh EXCEPT !.pc = "link"] = linking
  OBVIOUS
<1>3. [fresh EXCEPT !.row.status = "conflicted"] = conflicting
  OBVIOUS
<1>4. \/ op' = [op EXCEPT ![p] = Idle]
      \/ old # None /\ op' = [op EXCEPT ![p] = linking]
      \/ op' = [op EXCEPT ![p] = conflicting]
      \/ op' = [op EXCEPT ![p] = fresh]
  <2> HIDE DEF fresh, linking, conflicting
  <2> QED
    BY <1>1, <1>2, <1>3
<1>5. GoodOp(Idle, Rows) /\ GoodOp(fresh, Rows) /\ GoodOp(conflicting, Rows)
  BY DEF GoodOp, IsOp, IsRow, Idle
<1>6. old # None => GoodOp(linking, Rows)
  BY DEF GoodOp, IsOp
<1> QED
  BY <1>4, <1>5, <1>6, CallMoves

(* create_candidate and the legacy half of revise.                         *)
LEMMA LegacyCreated ==
  ASSUME MemoryInv, UNCHANGED <<memory, replaces, expiry>>,
         NEW p \in Calls, NEW u, NEW c, NEW until, NEW old \in Rows \cup {None},
         CreateLegacy(p, u, c, until, old)
  PROVE  MemoryInv' /\ FinalStep
<1> DEFINE row == [status |-> "candidate", scope |-> "personal", owner |-> u, claim |-> c,
                   label |-> "legacy", until |-> until, sources |-> {}]
           fresh == [pc |-> "insert", content |-> c, old |-> old, row |-> row]
<1>1. op' = [op EXCEPT ![p] = fresh]
  BY DEF CreateLegacy
<1>2. GoodOp(fresh, Rows)
  BY DEF GoodOp, IsOp, IsRow
<1> QED
  BY <1>1, <1>2, CallMoves

(* The insert only fills a content that had no row, and an approved row    *)
(* only where the index of the approved claim lets it.                     *)
LEMMA Inserted ==
  ASSUME MemoryInv, NEW p \in Calls, InsertMemory(p)
  PROVE  MemoryInv' /\ FinalStep
<1>0. /\ OpsOK /\ RowsOK /\ ApprovedApart /\ GoodOp(op[p], Rows)
      /\ op[p].pc = "insert" /\ IsRow(op[p].row) /\ IsOp(op[p])
      /\ UNCHANGED <<replaces, expiry>>
  BY DEF MemoryInv, OpsOK, GoodOp, InsertMemory
<1>1. CASE ~Insertable(p)
  <2>1. UNCHANGED memory /\ op' = [op EXCEPT ![p] = Failed]
    BY <1>1 DEF InsertMemory
  <2>2. GoodOp(Failed, Rows)
    BY DEF GoodOp, IsOp, Failed, Idle
  <2> QED
    BY <1>0, <2>1, <2>2, CallMoves
<1>2. CASE Insertable(p)
  <2> DEFINE c == op[p].content
             o == IF op[p].old = None THEN Idle ELSE [op[p] EXCEPT !.pc = "link"]
  <2>1. /\ memory' = [memory EXCEPT ![c] = op[p].row]
        /\ op' = [op EXCEPT ![p] = o]
    BY <1>2 DEF InsertMemory
  <2>2. c \in Contents => c \notin Rows
    BY <1>2 DEF Insertable, Rows, NoRow
  <2>3. \A d \in Rows : memory'[d] = memory[d]
    BY <1>0, <2>1, <2>2 DEF Rows, RowsOK
  <2>4. Rows \subseteq Rows' /\ Rows' \subseteq Rows \cup {c}
    BY <1>0, <2>1, <2>3 DEF Rows, RowsOK
  <2>5. FinalStep
    BY <2>3 DEF FinalStep
  <2>6. GoodOp(o, Rows')
    <3>1. CASE op[p].old = None
      BY <3>1 DEF GoodOp, IsOp, Idle
    <3>2. CASE op[p].old # None
      <4>1. op[p] \in [pc : {"insert", "link"}, content : {c}, row : {op[p].row}, old : {op[p].old}]
        BY <1>0 DEF IsOp
      <4>2. IsOp(o) /\ o.pc = "link" /\ o.old = op[p].old
        BY <3>2, <4>1 DEF IsOp
      <4>3. op[p].old \in Rows'
        BY <1>0, <2>4, <3>2 DEF GoodOp
      <4> QED
        BY <3>2, <4>2, <4>3 DEF GoodOp, IsOp
    <3> QED
      BY <3>1, <3>2
  <2>7. OpsOK'
    BY <1>0, <2>1, <2>4, <2>6 DEF OpsOK, GoodOp
  <2>8. RowsOK'
    BY <1>0, <2>1, <2>4 DEF RowsOK
  <2>9. ApprovedApart'
    <3> SUFFICES ASSUME NEW a \in Rows', NEW b \in Rows',
                        memory'[a].status = "approved", memory'[b].status = "approved",
                        SameClaim(memory'[a], memory'[b])
                 PROVE  a = b
      BY DEF ApprovedApart
    <3>1. CASE a \in Rows /\ b \in Rows
      BY <1>0, <2>3, <3>1 DEF ApprovedApart
    <3>2. \A d \in Rows :
            (/\ op[p].row.status = "approved" /\ memory[d].status = "approved"
             /\ SameClaim(memory[d], op[p].row)) => d = c
      <4> SUFFICES ASSUME NEW d \in Rows, d # c, op[p].row.status = "approved",
                          memory[d].status = "approved", SameClaim(memory[d], op[p].row)
                   PROVE  FALSE
        OBVIOUS
      <4>1. d \in Rivals(op[p].row)
        BY DEF Rivals, Active
      <4> QED
        BY <1>2, <4>1 DEF Insertable, IndexAllows
    <3>3. CASE a \notin Rows /\ b \in Rows
      <4>1. a = c /\ memory'[a] = op[p].row
        BY <1>0, <2>1, <2>4, <3>3 DEF Rows, RowsOK
      <4> QED
        BY <2>3, <3>2, <3>3, <4>1, ClaimSymmetric
    <3>4. CASE a \in Rows /\ b \notin Rows
      <4>1. b = c /\ memory'[b] = op[p].row
        BY <1>0, <2>1, <2>4, <3>4 DEF Rows, RowsOK
      <4> QED
        BY <2>3, <3>2, <3>4, <4>1
    <3>5. CASE a \notin Rows /\ b \notin Rows
      BY <2>4, <3>5
    <3> QED
      BY <3>1, <3>3, <3>4, <3>5
  <2> QED
    BY <2>5, <2>7, <2>8, <2>9 DEF MemoryInv
<1> QED
  BY <1>1, <1>2

(* The last transaction of a revision only retires the row it replaces.    *)
LEMMA Linked ==
  ASSUME MemoryInv, NEW p \in Calls, Link(p)
  PROVE  MemoryInv' /\ FinalStep
<1>0. /\ OpsOK /\ RowsOK /\ ApprovedApart /\ GoodOp(op[p], Rows) /\ op[p].pc = "link"
      /\ expiry' = expiry
  BY DEF MemoryInv, OpsOK, Link
<1>1. CASE ~Linkable(p)
  <2>1. UNCHANGED <<memory, replaces>> /\ op' = [op EXCEPT ![p] = Failed]
    BY <1>1 DEF Link
  <2>2. GoodOp(Failed, Rows)
    BY DEF GoodOp, IsOp, Failed, Idle
  <2> QED
    BY <1>0, <2>1, <2>2, CallMoves
<1>2. CASE Linkable(p)
  <2> DEFINE old == op[p].old
  <2>1. /\ replaces' = [replaces EXCEPT ![op[p].content] = old]
        /\ memory' = IF memory[old].status = "approved"
                     THEN [memory EXCEPT ![old].status = "superseded"] ELSE memory
        /\ op' = [op EXCEPT ![p] = Idle]
    BY <1>2 DEF Link
  <2>2. old \in Rows /\ Rows \subseteq Contents
    BY <1>0 DEF GoodOp, Rows
  <2>3. /\ memory' = [c \in Contents |-> memory'[c]]
        /\ \A c \in Contents : c # old => memory'[c] = memory[c]
        /\ memory[old].status # "approved" => memory'[old] = memory[old]
        /\ memory[old].status = "approved"
             => memory'[old] = [memory[old] EXCEPT !.status = "superseded"]
    BY <1>0, <2>1, <2>2 DEF RowsOK
  <2>4. /\ IsRow(memory'[old])
        /\ memory[old].status = "approved" => memory'[old].status = "superseded"
        /\ SameOtherwise(memory'[old], memory[old])
    <3>1. IsRow(memory[old])
      BY <1>0, <2>2 DEF RowsOK
    <3>2. CASE memory[old].status = "approved"
      <4>1. LET q == [memory[old] EXCEPT !.status = "superseded"]
            IN  IsRow(q) /\ q.status = "superseded" /\ SameOtherwise(q, memory[old])
        BY <3>1, Restatus
      <4> QED
        BY <2>3, <3>2, <4>1
    <3>3. CASE memory[old].status # "approved"
      BY <2>3, <3>1, <3>3 DEF SameOtherwise
    <3> QED
      BY <3>2, <3>3
  <2>5. \A c \in Contents : memory'[c].status = "approved" => memory'[c] = memory[c]
    BY <2>3, <2>4
  <2>6. Rows' = Rows
    <3>1. \A c \in Contents : (memory'[c].status = "absent") <=> (memory[c].status = "absent")
      BY <2>3, <2>4
    <3> QED
      BY <3>1 DEF Rows
  <2>7. FinalStep
    BY <2>2, <2>3 DEF FinalStep
  <2>8. OpsOK'
    <3>1. GoodOp(Idle, Rows)
      BY DEF GoodOp, IsOp, Idle
    <3> QED
      BY <1>0, <2>1, <2>6, <3>1 DEF OpsOK
  <2>9. RowsOK'
    <3>1. \A c \in Contents : IsRow(memory'[c])
      BY <1>0, <2>3, <2>4 DEF RowsOK
    <3>2. /\ replaces' = [c \in Contents |-> replaces'[c]]
          /\ \A c \in Contents : replaces'[c] \in Rows \cup {None}
      BY <1>0, <2>1, <2>2 DEF RowsOK
    <3> QED
      BY <1>0, <2>3, <2>6, <3>1, <3>2 DEF RowsOK
  <2>10. ApprovedApart'
    BY <1>0, <2>2, <2>5, <2>6 DEF ApprovedApart
  <2> QED
    BY <2>7, <2>8, <2>9, <2>10 DEF MemoryInv
<1> QED
  BY <1>1, <1>2

(* A creation or revision, from its first transaction to its last.         *)
LEMMA RememberMoves ==
  ASSUME MemoryInv, NEW p \in Calls, Remember(p)
  PROVE  MemoryInv' /\ FinalStep
<1>1. ASSUME NEW c, NEW scope, NEW claim, NEW label,
             CreateGoverned(p, Owner, c, scope, claim, label, Events, TRUE)
      PROVE  MemoryInv' /\ FinalStep
  BY <1>1, ClaimRead DEF CreateGoverned
<1>2. ASSUME NEW c, NEW until, CreateCandidate(p, Owner, c, until)
      PROVE  MemoryInv' /\ FinalStep
  BY <1>2, LegacyCreated DEF CreateCandidate
<1>3. ASSUME NEW c, NEW old, Revise(p, Owner, old, c, Events)
      PROVE  MemoryInv' /\ FinalStep
  <2>1. old \in Rows /\ UNCHANGED <<memory, replaces, expiry>>
    BY <1>3 DEF Revise
  <2>2. CASE CreateLegacy(p, Owner, c, "never", old)
    BY <2>1, <2>2, LegacyCreated
  <2>3. ASSUME NEW label,
               ReadClaim(p, Owner, c, memory[old].scope, memory[old].claim, label, Events, FALSE, old)
        PROVE  MemoryInv' /\ FinalStep
    BY <2>1, <2>3, ClaimRead
  <2> QED
    BY <1>3, <2>2, <2>3 DEF Revise
<1>4. CASE CrashOp(p)
  <2>1. GoodOp(Failed, Rows)
    BY DEF GoodOp, IsOp, Failed, Idle
  <2> QED
    BY <1>4, <2>1, CallMoves DEF CrashOp
<1> QED
  BY <1>1, <1>2, <1>3, <1>4, Inserted, Linked DEF Remember

(* What a distillation does to the memories: nothing, a creation, or the   *)
(* bookkeeping of its call.                                                *)
LEMMA DistilMoves ==
  ASSUME MemoryInv, NEW p \in Calls, Distil(p)
  PROVE  MemoryInv' /\ FinalStep
<1>1. CASE ReadCandidates(p)
  <2>1. GoodOp(Idle, Rows)
    BY DEF GoodOp, IsOp, Idle
  <2> QED
    BY <1>1, <2>1, CallMoves DEF ReadCandidates
<1>2. CASE DistilNext(p) /\ InsertMemory(p)
  BY <1>2, Inserted
<1>3. CASE UNCHANGED memoryVars
  BY <1>3, MemoryKept
<1>4. ASSUME NEW c, NEW label, NEW sources, NEW auto,
             CreateGoverned(p, Owner, c, "personal", Preference, label, sources, auto)
      PROVE  MemoryInv' /\ FinalStep
  BY <1>4, ClaimRead DEF CreateGoverned
<1> QED
  BY <1>1, <1>2, <1>3, <1>4 DEF Distil, DistilNext

(* What is approved is not deleted: RowsMove asks for the new statuses.    *)
LEMMA Approved ==
  ASSUME MemoryInv, NEW u, NEW c, Approve(u, c)
  PROVE  MemoryInv' /\ FinalStep
<1> DEFINE old == replaces[c]
           retires == old # None /\ memory[old].status = "approved"
           retired == IF retires THEN [memory EXCEPT ![old].status = "superseded"] ELSE memory
<1>0. /\ RowsOK /\ ApprovedApart
      /\ c \in Rows /\ memory[c].status = "candidate" /\ Rows \subseteq Contents
      /\ UNCHANGED <<replaces, expiry, op>>
  BY DEF MemoryInv, Approve, Rows
<1>1. /\ \A d \in Rivals(memory[c]) \ {c} : retired[d].status # "approved"
      /\ memory' = [retired EXCEPT ![c].status = "approved"]
  BY DEF Approve
<1>2. retires => old \in Rows
  BY <1>0 DEF RowsOK
<1>3. /\ retired = [d \in Contents |-> retired[d]]
      /\ \A d \in Contents : d # old => retired[d] = memory[d]
      /\ ~retires => retired[old] = memory[old]
      /\ retires => retired[old] = [memory[old] EXCEPT !.status = "superseded"]
  BY <1>0, <1>2 DEF RowsOK
<1>4. /\ memory' = [d \in Contents |-> memory'[d]]
      /\ \A d \in Contents : d # c => memory'[d] = retired[d]
      /\ memory'[c] = [memory[c] EXCEPT !.status = "approved"]
  <2>1. retired[c] = memory[c]
    BY <1>0, <1>3
  <2> HIDE DEF retired
  <2> QED
    BY <1>0, <1>1, <1>3, <2>1
<1>5. \A d \in Rows : IsRow(memory[d])
  BY <1>0 DEF RowsOK
<1>6. LET q == [memory[c] EXCEPT !.status = "approved"]
      IN  IsRow(q) /\ q.status = "approved" /\ SameOtherwise(q, memory[c])
  BY <1>0, <1>5, Restatus
<1>7. retires =>
        LET q == [memory[old] EXCEPT !.status = "superseded"]
        IN  IsRow(q) /\ q.status = "superseded" /\ SameOtherwise(q, memory[old])
  BY <1>2, <1>5, Restatus
<1> HIDE DEF retired
<1>8. \A d \in Rows : \/ d = c
                      \/ d # c /\ memory'[d] = memory[d]
                      \/ d # c /\ retires /\ d = old /\ memory'[d].status = "superseded"
                              /\ IsRow(memory'[d]) /\ SameOtherwise(memory'[d], memory[d])
  BY <1>0, <1>3, <1>4, <1>7
<1>9. \A d \in Rows : /\ IsRow(memory'[d]) /\ memory'[d].status # "absent"
                      /\ SameOtherwise(memory'[d], memory[d])
  BY <1>4, <1>5, <1>6, <1>8 DEF SameOtherwise, Rows
<1>10. \A d \in Contents \ Rows : memory'[d] = memory[d]
  BY <1>0, <1>2, <1>3, <1>4
<1>11. \A d \in Rows : (/\ d # c /\ memory'[d].status = "approved"
                        /\ SameClaim(memory[d], memory[c])) => FALSE
  <2> SUFFICES ASSUME NEW d \in Rows, d # c, memory'[d].status = "approved",
                      SameClaim(memory[d], memory[c])
               PROVE  FALSE
    OBVIOUS
  <2>1. memory[d].status = "approved"
    BY <1>8
  <2>2. d \in Rivals(memory[c]) \ {c}
    BY <2>1 DEF Rivals, Active
  <2> QED
    BY <1>0, <1>1, <1>4, <2>2
<1>12. \A d, e \in Rows :
         (/\ memory'[d].status = "approved" /\ memory'[e].status = "approved"
          /\ SameClaim(memory[d], memory[e])) => d = e
  <2> SUFFICES ASSUME NEW d \in Rows, NEW e \in Rows,
                      memory'[d].status = "approved", memory'[e].status = "approved",
                      SameClaim(memory[d], memory[e])
               PROVE  d = e
    OBVIOUS
  <2>1. CASE d = c \/ e = c
    BY <1>11, <2>1, ClaimSymmetric
  <2>2. CASE d # c /\ e # c
    <3>1. memory[d].status = "approved" /\ memory[e].status = "approved"
      BY <1>8, <2>2
    <3> QED
      BY <1>0, <3>1 DEF ApprovedApart
  <2> QED
    BY <2>1, <2>2
<1>13. FinalStep
  <2> SUFFICES ASSUME NEW d \in Rows, memory[d].status \in {"deleted", "rejected"}
               PROVE  memory'[d] = memory[d]
    BY DEF FinalStep
  <2>1. d # c /\ ~(retires /\ d = old)
    BY <1>0
  <2> QED
    BY <1>8, <2>1
<1> QED
  BY <1>0, <1>4, <1>9, <1>10, <1>12, <1>13, RowsMove DEF RowsOK

(* A decision that gives one row another status, never an approved one.    *)
LEMMA RowEnds ==
  ASSUME MemoryInv, NEW c \in Rows, NEW s \in {"rejected", "deleted"},
         UNCHANGED <<replaces, expiry, op>>,
         s = "rejected" => memory[c].status = "candidate",
         memory' = [memory EXCEPT ![c].status = s]
  PROVE  MemoryInv' /\ FinalStep
<1>0. RowsOK /\ ApprovedApart /\ Rows \subseteq Contents
  BY DEF MemoryInv, Rows
<1>1. /\ memory' = [d \in Contents |-> memory'[d]]
      /\ \A d \in Contents : d # c => memory'[d] = memory[d]
      /\ memory'[c] = [memory[c] EXCEPT !.status = s]
  BY <1>0 DEF RowsOK
<1>2. \A d \in Rows : IsRow(memory[d])
  BY <1>0 DEF RowsOK
<1>3. LET q == [memory[c] EXCEPT !.status = s]
      IN  IsRow(q) /\ q.status = s /\ SameOtherwise(q, memory[c])
  BY <1>2, Restatus
<1>4. \A d \in Rows : /\ IsRow(memory'[d]) /\ memory'[d].status # "absent"
                      /\ SameOtherwise(memory'[d], memory[d])
  BY <1>0, <1>1, <1>2, <1>3 DEF SameOtherwise, Rows
<1>5. \A d \in Rows : memory'[d].status = "approved" => memory[d].status = "approved"
  BY <1>0, <1>1, <1>3
<1>6. FinalStep
  BY <1>0, <1>1, <1>3 DEF FinalStep
<1> QED
  BY <1>0, <1>1, <1>4, <1>5, <1>6, RowsMove DEF ApprovedApart, RowsOK

(* Expiry and the revocation of sources retire approved rows.              *)
LEMMA RowsRetire ==
  ASSUME MemoryInv, NEW S, S \subseteq Rows, \A c \in S : memory[c].status = "approved",
         UNCHANGED <<replaces, op>>, expiry' \subseteq Rows,
         memory' = [c \in Contents |-> IF c \in S THEN [memory[c] EXCEPT !.status = "superseded"]
                                       ELSE memory[c]]
  PROVE  MemoryInv' /\ FinalStep
<1>0. ApprovedApart /\ Rows \subseteq Contents /\ \A d \in Rows : IsRow(memory[d])
  BY DEF MemoryInv, Rows, RowsOK
<1>1. /\ memory' = [d \in Contents |-> memory'[d]]
      /\ \A d \in Contents \ S : memory'[d] = memory[d]
      /\ \A d \in S : memory'[d] = [memory[d] EXCEPT !.status = "superseded"]
  BY <1>0
<1>2. \A d \in S : /\ IsRow(memory'[d]) /\ memory'[d].status = "superseded"
                   /\ SameOtherwise(memory'[d], memory[d])
  <2> TAKE d \in S
  <2>1. LET q == [memory[d] EXCEPT !.status = "superseded"]
        IN  IsRow(q) /\ q.status = "superseded" /\ SameOtherwise(q, memory[d])
    BY <1>0, Restatus
  <2> QED
    BY <1>1, <2>1
<1>3. \A d \in Rows : /\ IsRow(memory'[d]) /\ memory'[d].status # "absent"
                      /\ SameOtherwise(memory'[d], memory[d])
  BY <1>0, <1>1, <1>2 DEF SameOtherwise, Rows
<1>4. \A d \in Rows : memory'[d].status = "approved" => memory[d].status = "approved"
  BY <1>0, <1>1, <1>2
<1>5. FinalStep
  BY <1>0, <1>1 DEF FinalStep
<1> QED
  BY <1>0, <1>1, <1>3, <1>4, <1>5, RowsMove DEF ApprovedApart

(* The clock moves a row past its expiry, whatever its status.             *)
LEMMA RowAges ==
  ASSUME MemoryInv, NEW c, TimePasses(c)
  PROVE  MemoryInv' /\ FinalStep
<1>0. /\ RowsOK /\ ApprovedApart /\ c \in Rows /\ Rows \subseteq Contents
      /\ UNCHANGED <<replaces, expiry, op>> /\ \A d \in Rows : IsRow(memory[d])
  BY DEF MemoryInv, Rows, RowsOK, TimePasses
<1>1. /\ memory' = [d \in Contents |-> memory'[d]]
      /\ \A d \in Contents : d # c => memory'[d] = memory[d]
      /\ memory'[c] = [memory[c] EXCEPT !.until = "past"]
  BY <1>0 DEF RowsOK, TimePasses
<1>2. LET q == [memory[c] EXCEPT !.until = "past"]
      IN  IsRow(q) /\ q.status = memory[c].status /\ SameOtherwise(q, memory[c])
  BY <1>0, Restatus
<1>3. \A d \in Rows : /\ IsRow(memory'[d]) /\ memory'[d].status = memory[d].status
                      /\ SameOtherwise(memory'[d], memory[d])
  BY <1>0, <1>1, <1>2 DEF SameOtherwise
<1>4. FinalStep
  BY <1>3 DEF FinalStep
<1>5. \A d \in Rows : memory'[d].status # "absent"
  BY <1>3 DEF Rows
<1> QED
  BY <1>0, <1>1, <1>3, <1>4, <1>5, RowsMove DEF ApprovedApart, RowsOK

(* The index decides whether an expired row may come back.                 *)
LEMMA RowReturns ==
  ASSUME MemoryInv, NEW c, RevertExpiry(c)
  PROVE  MemoryInv' /\ FinalStep
<1>0. /\ RowsOK /\ ApprovedApart /\ c \in Rows /\ Rows \subseteq Contents
      /\ UNCHANGED <<replaces, expiry, op>> /\ \A d \in Rows : IsRow(memory[d])
      /\ memory[c].status = "superseded" /\ IndexAllows(c, memory[c])
  BY DEF MemoryInv, Rows, RowsOK, RevertExpiry, Revertible
<1>1. /\ memory' = [d \in Contents |-> memory'[d]]
      /\ \A d \in Contents : d # c => memory'[d] = memory[d]
      /\ memory'[c] = [memory[c] EXCEPT !.status = "approved", !.until = "never"]
  BY <1>0 DEF RowsOK, RevertExpiry
<1>2. LET q == [memory[c] EXCEPT !.status = "approved", !.until = "never"]
      IN  IsRow(q) /\ q.status = "approved" /\ SameOtherwise(q, memory[c])
  BY <1>0, Renewed
<1>3. \A d \in Rows : /\ IsRow(memory'[d]) /\ memory'[d].status # "absent"
                      /\ SameOtherwise(memory'[d], memory[d])
  BY <1>0, <1>1, <1>2 DEF SameOtherwise, Rows
<1>4. \A d \in Rows : (d # c /\ SameClaim(memory[d], memory[c])) => memory'[d].status # "approved"
  <2> SUFFICES ASSUME NEW d \in Rows, d # c, SameClaim(memory[d], memory[c]),
                      memory[d].status = "approved"
               PROVE  FALSE
    BY <1>0, <1>1
  <2>1. d \in Rivals(memory[c]) \ {c}
    BY DEF Rivals, Active
  <2> QED
    BY <1>0, <2>1 DEF IndexAllows
<1>5. \A d, e \in Rows :
        (/\ memory'[d].status = "approved" /\ memory'[e].status = "approved"
         /\ SameClaim(memory[d], memory[e])) => d = e
  <2> SUFFICES ASSUME NEW d \in Rows, NEW e \in Rows,
                      memory'[d].status = "approved", memory'[e].status = "approved",
                      SameClaim(memory[d], memory[e])
               PROVE  d = e
    OBVIOUS
  <2>1. CASE d = c \/ e = c
    BY <1>4, <2>1, ClaimSymmetric
  <2>2. CASE d # c /\ e # c
    <3>1. memory[d].status = "approved" /\ memory[e].status = "approved"
      BY <1>0, <1>1, <2>2
    <3> QED
      BY <1>0, <3>1 DEF ApprovedApart
  <2> QED
    BY <2>1, <2>2
<1>6. FinalStep
  BY <1>0, <1>1 DEF FinalStep
<1> QED
  BY <1>0, <1>1, <1>3, <1>5, <1>6, RowsMove DEF RowsOK

(* The selected row wins and every other active row of its claim loses.    *)
LEMMA ConflictResolved ==
  ASSUME MemoryInv, NEW u, NEW c, ResolveConflict(u, c)
  PROVE  MemoryInv' /\ FinalStep
<1>0. /\ RowsOK /\ ApprovedApart /\ c \in Rows /\ Rows \subseteq Contents
      /\ UNCHANGED <<replaces, expiry, op>> /\ \A d \in Rows : IsRow(memory[d])
      /\ memory[c].status = "conflicted" /\ Losers(c) \subseteq Rows \ {c}
  BY DEF MemoryInv, Rows, RowsOK, ResolveConflict, Losers, Rivals
<1>1. /\ memory' = [d \in Contents |-> memory'[d]]
      /\ memory'[c] = [memory[c] EXCEPT !.status = "approved"]
      /\ \A d \in Losers(c) : memory'[d] = [memory[d] EXCEPT !.status = "superseded"]
      /\ \A d \in Contents \ Losers(c) : d # c => memory'[d] = memory[d]
  BY <1>0 DEF ResolveConflict
<1>2. /\ IsRow(memory'[c]) /\ memory'[c].status = "approved"
      /\ SameOtherwise(memory'[c], memory[c])
  <2>1. LET q == [memory[c] EXCEPT !.status = "approved"]
        IN  IsRow(q) /\ q.status = "approved" /\ SameOtherwise(q, memory[c])
    BY <1>0, Restatus
  <2> QED
    BY <1>1, <2>1
<1>3. \A d \in Losers(c) : /\ IsRow(memory'[d]) /\ memory'[d].status = "superseded"
                           /\ SameOtherwise(memory'[d], memory[d])
  <2> TAKE d \in Losers(c)
  <2>1. LET q == [memory[d] EXCEPT !.status = "superseded"]
        IN  IsRow(q) /\ q.status = "superseded" /\ SameOtherwise(q, memory[d])
    BY <1>0, Restatus
  <2> QED
    BY <1>1, <2>1
<1>4. \A d \in Rows : /\ IsRow(memory'[d]) /\ memory'[d].status # "absent"
                      /\ SameOtherwise(memory'[d], memory[d])
  BY <1>0, <1>1, <1>2, <1>3 DEF SameOtherwise, Rows
<1>5. \A d \in Rows : (d # c /\ SameClaim(memory[d], memory[c])) => memory'[d].status # "approved"
  <2> SUFFICES ASSUME NEW d \in Rows, d # c, SameClaim(memory[d], memory[c]),
                      memory'[d].status = "approved"
               PROVE  FALSE
    OBVIOUS
  <2>1. d \notin Losers(c)
    BY <1>3
  <2>2. memory[d].status = "approved"
    BY <1>0, <1>1, <2>1
  <2>3. d \in Losers(c)
    BY <2>2 DEF Losers, Rivals, Active
  <2> QED
    BY <2>1, <2>3
<1>6. \A d, e \in Rows :
        (/\ memory'[d].status = "approved" /\ memory'[e].status = "approved"
         /\ SameClaim(memory[d], memory[e])) => d = e
  <2> SUFFICES ASSUME NEW d \in Rows, NEW e \in Rows,
                      memory'[d].status = "approved", memory'[e].status = "approved",
                      SameClaim(memory[d], memory[e])
               PROVE  d = e
    OBVIOUS
  <2>1. CASE d = c \/ e = c
    BY <1>5, <2>1, ClaimSymmetric
  <2>2. CASE d # c /\ e # c
    <3>1. memory[d].status = "approved" /\ memory[e].status = "approved"
      BY <1>0, <1>1, <1>3, <2>2
    <3> QED
      BY <1>0, <3>1 DEF ApprovedApart
  <2> QED
    BY <2>1, <2>2
<1>7. FinalStep
  <2>1. \A d \in Losers(c) : memory[d].status \notin {"deleted", "rejected"}
    BY DEF Losers, Rivals, Active
  <2> QED
    BY <1>0, <1>1, <2>1 DEF FinalStep
<1> QED
  BY <1>0, <1>1, <1>4, <1>6, <1>7, RowsMove DEF RowsOK

(* Whatever a user, an administrator or the clock decides.                 *)
LEMMA DecideMoves ==
  ASSUME MemoryInv, Decide
  PROVE  MemoryInv' /\ FinalStep
<1>1. ASSUME NEW u, NEW c, Reject(u, c) PROVE MemoryInv' /\ FinalStep
  BY <1>1, RowEnds DEF Reject
<1>2. ASSUME NEW u, NEW c, Delete(u, c) PROVE MemoryInv' /\ FinalStep
  BY <1>2, RowEnds DEF Delete
<1>3. CASE ExpireDue
  <2>1. expiry \subseteq Rows /\ Due \subseteq Rows /\ \A c \in Due : memory[c].status = "approved"
    BY DEF MemoryInv, RowsOK, Due
  <2>2. /\ UNCHANGED <<replaces, op>> /\ expiry' \subseteq Rows
        /\ memory' = [c \in Contents |-> IF c \in Due
                                         THEN [memory[c] EXCEPT !.status = "superseded"]
                                         ELSE memory[c]]
    BY <1>3, <2>1 DEF ExpireDue
  <2> QED
    BY <2>1, <2>2, RowsRetire
<1>4. CASE RevokeSources(Events)
  <2> DEFINE S == Orphaned(Events)
  <2>1. S \subseteq Rows /\ \A c \in S : memory[c].status = "approved"
    BY DEF Orphaned
  <2>2. /\ UNCHANGED <<replaces, op>> /\ expiry' \subseteq Rows
        /\ memory' = [c \in Contents |-> IF c \in S
                                         THEN [memory[c] EXCEPT !.status = "superseded"]
                                         ELSE memory[c]]
    BY <1>4 DEF RevokeSources, MemoryInv, RowsOK
  <2> HIDE DEF S
  <2> QED
    BY <2>1, <2>2, RowsRetire
<1> QED
  BY <1>1, <1>2, <1>3, <1>4, Approved, ConflictResolved, RowAges, RowReturns DEF Decide

(* A step of any focus either leaves the memories alone or is one of the   *)
(* operations above.                                                       *)
LEMMA NextMemory ==
  ASSUME MemoryInv, [Next]_conversationVars
  PROVE  MemoryInv' /\ FinalStep
<1>1. CASE UNCHANGED memoryVars
  BY <1>1, MemoryKept
<1>2. CASE DuringDistil /\ ~UNCHANGED memoryVars
  <2>1. ASSUME NEW c, Delete(Owner, c) PROVE MemoryInv' /\ FinalStep
    BY <2>1, RowEnds DEF Delete
  <2> QED
    BY <1>2, <2>1, DistilMoves DEF DuringDistil
<1>3. CASE DuringMemory
  BY <1>3, DecideMoves, RememberMoves DEF DuringMemory
<1> QED
  BY <1>1, <1>2, <1>3
  DEF Next, DuringChat, DuringTurn, DuringSession, conversationVars

(* The memories keep their part of the invariant, whoever creates, decides or expires. *)
THEOREM MemoryInvariant == Spec => []MemoryInv
<1>1. Init => MemoryInv
  BY InitMemory DEF Init
<1>2. MemoryInv /\ [Next]_conversationVars => MemoryInv'
  BY NextMemory
<1> QED
  BY <1>1, <1>2, PTL DEF Spec

(* Two contents of one claim are never both given to a prompt, however     *)
(* creations, approvals, conflicts and reverted expiries interleave.       *)
THEOREM OneApproved == Spec => []OneApprovedPerClaim
<1>1. MemoryInv => OneApprovedPerClaim
  BY DEF MemoryInv, ApprovedApart, OneApprovedPerClaim, Retrieved
<1> QED
  BY <1>1, MemoryInvariant, PTL

(* A memory that was deleted or turned down never comes back.              *)
THEOREM DecisionsFinal == Spec => DecisionsAreFinal
<1>1. MemoryInv /\ [Next]_conversationVars => FinalStep
  BY NextMemory
<1>2. FinalStep => [FinalStep]_memory
  OBVIOUS
<1>3. DecisionsAreFinal <=> [][FinalStep]_memory
  BY DEF DecisionsAreFinal, FinalStep
<1> QED
  BY <1>1, <1>2, <1>3, MemoryInvariant, PTL DEF Spec
-----------------------------------------------------------------------------
(* A call that has a row to write has one that the table takes.            *)
MemoryTyped ==
  /\ MemoryTypeOK
  /\ \A p \in Calls :
       op[p].pc \in {"insert", "link"} => op[p].content \in Contents /\ op[p].row \in Row

(* What policy makes of a candidate is a row.                              *)
LEMMA PolicyType ==
  ASSUME NEW label, NEW scope, NEW auto
  PROVE  PolicyStatus(label, scope, auto) \in {"rejected", "approved", "candidate"}
<1>1. CASE label \in {"prohibited", "untrusted"}
  BY <1>1 DEF PolicyStatus
<1>2. CASE label \notin {"prohibited", "untrusted"} /\ label = "low" /\ scope = "personal" /\ auto
  BY <1>2 DEF PolicyStatus
<1>3. CASE label \notin {"prohibited", "untrusted"} /\ ~(label = "low" /\ scope = "personal" /\ auto)
  BY <1>3 DEF PolicyStatus
<1> QED
  BY <1>1, <1>2, <1>3

OpType ==
  [pc : {"idle", "insert", "link", "raised"}, content : Contents \cup {None},
   row : Row \cup {None}, old : Contents \cup {None}]

Ready(o) == o.pc \in {"insert", "link"} => o.content \in Contents /\ o.row \in Row

(* A call that starts, goes on or ends. *)
LEMMA OpTyped ==
  ASSUME MemoryInv, MemoryTyped, UNCHANGED <<memory, replaces, expiry>>,
         NEW p, NEW o \in OpType, Ready(o), op' = [op EXCEPT ![p] = o]
  PROVE  MemoryTyped'
  BY DEF MemoryTyped, MemoryTypeOK, MemoryInv, OpsOK, OpType, Ready, Rows

LEMMA IdleTyped == Idle \in OpType /\ Ready(Idle) /\ Failed \in OpType /\ Ready(Failed)
  BY DEF Idle, Failed, OpType, Ready

LEMMA ReadClaimTyped ==
  ASSUME MemoryInv, MemoryTyped, UNCHANGED <<memory, replaces, expiry>>,
         NEW p, NEW u \in Users, NEW c \in Contents, NEW scope \in {"personal", "shared"},
         NEW claim \in Claims \cup Contents, NEW label \in Labels, NEW sources \in SUBSET Events,
         NEW auto, NEW old \in Contents \cup {None},
         ReadClaim(p, u, c, scope, claim, label, sources, auto, old)
  PROVE  MemoryTyped'
<1> DEFINE new == [status |-> PolicyStatus(label, scope, auto), scope |-> scope, owner |-> u,
                   claim |-> claim, label |-> label, until |-> "never", sources |-> sources]
           fresh == [pc |-> "insert", content |-> c, row |-> new, old |-> old]
           linking == [fresh EXCEPT !.pc = "link"]
           conflicting == [fresh EXCEPT !.row.status = "conflicted"]
<1>1. op' = [op EXCEPT ![p] =
               IF c \in Rivals(new) THEN IF old = None THEN Idle ELSE linking
               ELSE IF Rivals(new) # {} THEN conflicting
               ELSE fresh]
  BY DEF ReadClaim
<1>2. new \in Row
  BY PolicyType DEF Row, Statuses, Active
<1>3. fresh \in OpType /\ Ready(fresh)
  BY <1>2 DEF OpType, Ready
<1>4. linking \in OpType /\ Ready(linking)
  BY <1>2 DEF OpType, Ready
<1>5. conflicting \in OpType /\ Ready(conflicting)
  <2>1. conflicting = [pc |-> "insert", content |-> c, old |-> old,
                       row |-> [status |-> "conflicted", scope |-> scope, owner |-> u,
                                claim |-> claim, label |-> label, until |-> "never",
                                sources |-> sources]]
    OBVIOUS
  <2> QED
    BY <2>1 DEF OpType, Ready, Row, Statuses, Active
<1> HIDE DEF new, fresh, linking, conflicting
<1> QED
  BY <1>1, <1>3, <1>4, <1>5, IdleTyped, OpTyped

LEMMA LegacyTyped ==
  ASSUME MemoryInv, MemoryTyped, UNCHANGED <<memory, replaces, expiry>>,
         NEW p, NEW u \in Users, NEW c \in Contents, NEW until \in {"never", "later"},
         NEW old \in Contents \cup {None}, CreateLegacy(p, u, c, until, old)
  PROVE  MemoryTyped'
<1> DEFINE o == [pc |-> "insert", content |-> c, old |-> old,
                 row |-> [status |-> "candidate", scope |-> "personal", owner |-> u, claim |-> c,
                          label |-> "legacy", until |-> until, sources |-> {}]]
<1>1. o \in OpType /\ Ready(o)
  BY DEF OpType, Ready, Row, Statuses, Active, Labels
<1>2. op' = [op EXCEPT ![p] = o]
  BY DEF CreateLegacy
<1> QED
  BY <1>1, <1>2, OpTyped

(* A row that is there is one of the table.                                *)
LEMMA RowTyped == MemoryTyped => \A c \in Rows : memory[c] \in Row
  BY DEF MemoryTyped, MemoryTypeOK, Rows, NoRow

(* Rows that move stay rows, and nothing else appears.                     *)
Moved ==
  /\ memory' = [c \in Contents |-> memory'[c]]
  /\ \A c \in Contents : memory'[c] = memory[c] \/ (c \in Rows /\ memory'[c] \in Row)
  /\ expiry' \subseteq Rows

LEMMA MovedTyped ==
  ASSUME MemoryInv, MemoryTyped, UNCHANGED <<replaces, op>>, Moved
  PROVE  MemoryTyped' /\ Rows \subseteq Rows'
<1>1. /\ memory \in [Contents -> Row \cup {NoRow}] /\ Rows \subseteq Contents
      /\ \A r \in Row : r.status # "absent"
  BY DEF MemoryTyped, MemoryTypeOK, Rows, Row, Statuses, Active
<1>2. Rows \subseteq Rows'
  BY <1>1 DEF Moved, Rows
<1>3. memory' \in [Contents -> Row \cup {NoRow}]
  BY <1>1 DEF Moved
<1> QED
  BY <1>2, <1>3 DEF MemoryTyped, MemoryTypeOK, Moved

LEMMA DecideTyped ==
  ASSUME MemoryInv, MemoryTyped, Decide
  PROVE  MemoryTyped' /\ Rows \subseteq Rows'
<1> DEFINE Typed == MemoryTyped' /\ Rows \subseteq Rows'
<1>0. /\ memory \in [Contents -> Row \cup {NoRow}] /\ Rows \subseteq Contents
      /\ \A c \in Rows : memory[c] \in Row
      /\ expiry \subseteq Rows
  BY RowTyped DEF MemoryTyped, MemoryTypeOK, Rows
<1>1. \A r \in Row : \A s \in Statuses : [r EXCEPT !.status = s] \in Row
  BY DEF Row
<1>2. \A r \in Row : /\ [r EXCEPT !.until = "past"] \in Row
                     /\ [r EXCEPT !.status = "approved", !.until = "never"] \in Row
  BY DEF Row, Statuses, Active
<1>3. {"approved", "superseded", "rejected", "deleted"} \subseteq Statuses
  BY DEF Statuses, Active
<1>4. ASSUME NEW u, NEW c, Approve(u, c) PROVE Typed
  <2> DEFINE old == replaces[c]
             retires == old # None /\ memory[old].status = "approved"
             retired == IF retires THEN [memory EXCEPT ![old].status = "superseded"] ELSE memory
  <2>1. /\ c \in Rows /\ UNCHANGED <<replaces, expiry, op>>
        /\ memory' = [retired EXCEPT ![c].status = "approved"]
    BY <1>4 DEF Approve
  <2>2. retires => old \in Rows
    BY <1>0, <2>1 DEF MemoryInv, RowsOK
  <2>3. retired \in [Contents -> Row \cup {NoRow}] /\ \A d \in Rows : retired[d] \in Row
    BY <1>0, <1>1, <1>3, <2>2
  <2>4. \A d \in Contents \ Rows : retired[d] = memory[d]
    BY <1>0, <2>2
  <2> HIDE DEF retired
  <2>5. Moved
    BY <1>0, <1>1, <1>3, <2>1, <2>3, <2>4 DEF Moved
  <2> QED
    BY <2>1, <2>5, MovedTyped
<1>5. ASSUME NEW u, NEW c, Reject(u, c) \/ Delete(u, c) PROVE Typed
  <2>1. UNCHANGED <<replaces, op>> /\ Moved
    BY <1>0, <1>1, <1>3, <1>5 DEF Reject, Delete, Moved
  <2> QED
    BY <2>1, MovedTyped
<1>6. ASSUME NEW u, NEW c, ResolveConflict(u, c) PROVE Typed
  <2>1. UNCHANGED <<replaces, op>> /\ Moved
    BY <1>0, <1>1, <1>3, <1>6 DEF ResolveConflict, Losers, Rivals, Moved
  <2> QED
    BY <2>1, MovedTyped
<1>7. ASSUME NEW c, TimePasses(c) \/ RevertExpiry(c) PROVE Typed
  <2>1. UNCHANGED <<replaces, op>> /\ Moved
    BY <1>0, <1>2, <1>7 DEF TimePasses, RevertExpiry, Revertible, Moved
  <2> QED
    BY <2>1, MovedTyped
<1>8. CASE ExpireDue
  <2>1. UNCHANGED <<replaces, op>> /\ Moved
    BY <1>0, <1>1, <1>3, <1>8 DEF ExpireDue, Due, Moved
  <2> QED
    BY <2>1, MovedTyped
<1>9. CASE RevokeSources(Events)
  <2>1. UNCHANGED <<replaces, op>> /\ Moved
    BY <1>0, <1>1, <1>3, <1>9 DEF RevokeSources, Orphaned, Moved
  <2> QED
    BY <2>1, MovedTyped
<1> QED
  BY <1>4, <1>5, <1>6, <1>7, <1>8, <1>9 DEF Decide

(* The insert of a row, or its refusal.                                    *)
LEMMA InsertTyped ==
  ASSUME MemoryInv, MemoryTyped, NEW p \in Calls, InsertMemory(p)
  PROVE  /\ MemoryTyped' /\ Rows \subseteq Rows'
         /\ op' = [op EXCEPT ![p] = op'[p]]
         /\ op'[p].pc \in {"raised", "link"} \/ op[p].content \in Rows'
<1>0. /\ op[p].pc = "insert" /\ UNCHANGED <<replaces, expiry>>
      /\ op = [q \in Calls |-> op[q]] /\ IsOp(op[p])
      /\ op[p].content \in Contents /\ op[p].row \in Row /\ op[p].row.status # "absent"
      /\ op[p].old \in Contents \cup {None}
      /\ memory \in [Contents -> Row \cup {NoRow}]
  BY DEF InsertMemory, MemoryInv, OpsOK, GoodOp, MemoryTyped, MemoryTypeOK, Row, Statuses, Active
<1>1. CASE ~Insertable(p)
  <2>1. UNCHANGED memory /\ op' = [op EXCEPT ![p] = Failed]
    BY <1>1 DEF InsertMemory
  <2>2. MemoryTyped'
    BY <1>0, <2>1, IdleTyped, OpTyped
  <2>3. op'[p].pc = "raised"
    BY <1>0, <2>1 DEF Failed, Idle
  <2>4. op' = [op EXCEPT ![p] = op'[p]]
    BY <1>0, <2>1
  <2> QED
    BY <2>1, <2>2, <2>3, <2>4 DEF Rows
<1>2. CASE Insertable(p)
  <2> DEFINE o == IF op[p].old = None THEN Idle ELSE [op[p] EXCEPT !.pc = "link"]
  <2>1. /\ memory' = [memory EXCEPT ![op[p].content] = op[p].row]
        /\ op' = [op EXCEPT ![p] = o]
    BY <1>2 DEF InsertMemory
  <2>2. o \in OpType /\ Ready(o)
    <3>1. op[p] \in OpType
      BY <1>0 DEF IsOp, OpType
    <3>2. [op[p] EXCEPT !.pc = "link"] \in OpType /\ Ready([op[p] EXCEPT !.pc = "link"])
      BY <1>0, <3>1 DEF OpType, Ready
    <3> QED
      BY <3>2, IdleTyped
  <2>3. /\ memory' \in [Contents -> Row \cup {NoRow}]
        /\ Rows \subseteq Rows' /\ op[p].content \in Rows'
    BY <1>0, <2>1 DEF Rows
  <2> HIDE DEF o
  <2>4. op'[p] = o /\ op' = [op EXCEPT ![p] = op'[p]]
    BY <1>0, <2>1
  <2>5. MemoryTyped'
    BY <1>0, <2>1, <2>2, <2>3, <2>4 DEF MemoryTyped, MemoryTypeOK, OpType, Ready
  <2> QED
    BY <2>3, <2>4, <2>5
<1> QED
  BY <1>1, <1>2

LEMMA RememberTyped ==
  ASSUME MemoryInv, MemoryTyped, NEW p \in Calls, Remember(p)
  PROVE  MemoryTyped'
<1>1. ASSUME NEW c \in Contents, NEW scope \in {"personal", "shared"}, NEW claim \in Claims,
             NEW label \in {"low", "prohibited"},
             CreateGoverned(p, Owner, c, scope, claim, label, Events, TRUE)
      PROVE  MemoryTyped'
  <2>1. /\ UNCHANGED <<memory, replaces, expiry>>
        /\ ReadClaim(p, Owner, c, scope, claim, label, Events, TRUE, None)
    BY <1>1 DEF CreateGoverned
  <2> QED
    BY <2>1, ReadClaimTyped, ContextAssumption DEF Labels
<1>2. ASSUME NEW c \in Contents, NEW until \in {"never", "later"},
             CreateCandidate(p, Owner, c, until)
      PROVE  MemoryTyped'
  BY <1>2, LegacyTyped, ContextAssumption DEF CreateCandidate
<1>3. ASSUME NEW old \in Contents, NEW c \in Contents, Revise(p, Owner, old, c, Events)
      PROVE  MemoryTyped'
  <2>1. memory[old] \in Row /\ UNCHANGED <<memory, replaces, expiry>>
    BY <1>3, RowTyped DEF Revise
  <2>2. CASE CreateLegacy(p, Owner, c, "never", old)
    BY <2>1, <2>2, LegacyTyped, ContextAssumption
  <2>3. ASSUME NEW label \in {memory[old].label, "prohibited"},
               ReadClaim(p, Owner, c, memory[old].scope, memory[old].claim, label, Events, FALSE, old)
        PROVE  MemoryTyped'
    <3>1. /\ memory[old].scope \in {"personal", "shared"}
          /\ memory[old].claim \in Claims \cup Contents /\ label \in Labels
      BY <2>1 DEF Row, Labels
    <3> QED
      BY <2>1, <2>3, <3>1, ReadClaimTyped, ContextAssumption
  <2> QED
    BY <1>3, <2>2, <2>3 DEF Revise
<1>4. CASE InsertMemory(p)
  BY <1>4, InsertTyped
<1>5. CASE Link(p)
  <2>0. /\ memory \in [Contents -> Row \cup {NoRow}] /\ \A c \in Rows : memory[c] \in Row
        /\ op = [q \in Calls |-> op[q]] /\ GoodOp(op[p], Rows) /\ op[p].pc = "link"
        /\ op[p].old \in Rows /\ Rows \subseteq Contents /\ op[p].content \in Contents
        /\ expiry' = expiry /\ expiry \subseteq Rows
        /\ replaces \in [Contents -> Contents \cup {None}]
    BY <1>5, RowTyped DEF Link, MemoryInv, OpsOK, GoodOp, MemoryTyped, MemoryTypeOK, Rows
  <2>1. CASE ~Linkable(p)
    BY <1>5, <2>1, IdleTyped, OpTyped DEF Link
  <2>2. CASE Linkable(p)
    <3>1. /\ replaces' = [replaces EXCEPT ![op[p].content] = op[p].old]
          /\ memory' = IF memory[op[p].old].status = "approved"
                       THEN [memory EXCEPT ![op[p].old].status = "superseded"] ELSE memory
          /\ op' = [op EXCEPT ![p] = Idle]
      BY <1>5, <2>2 DEF Link
    <3>2. [memory[op[p].old] EXCEPT !.status = "superseded"] \in Row
      BY <2>0 DEF Row, Statuses, Active
    <3>3. memory' \in [Contents -> Row \cup {NoRow}] /\ Rows \subseteq Rows'
      <4>1. CASE memory[op[p].old].status = "approved"
        <5>1. \A r \in Row : r.status # "absent"
          BY DEF Row, Statuses, Active
        <5> QED
          BY <2>0, <3>1, <3>2, <4>1, <5>1 DEF Rows
      <4>2. CASE memory[op[p].old].status # "approved"
        BY <2>0, <3>1, <4>2 DEF Rows
      <4> QED
        BY <4>1, <4>2
    <3>4. replaces' \in [Contents -> Contents \cup {None}]
      BY <2>0, <3>1
    <3> QED
      BY <2>0, <3>1, <3>3, <3>4, IdleTyped DEF MemoryTyped, MemoryTypeOK, OpType, Ready
  <2> QED
    BY <2>1, <2>2
<1>6. CASE CrashOp(p)
  BY <1>6, IdleTyped, OpTyped DEF CrashOp
<1> QED
  BY <1>1, <1>2, <1>3, <1>4, <1>5, <1>6 DEF Remember
-----------------------------------------------------------------------------
(* The session. *)

Session == [state : {"absent", "active", "closed"}, gen : Nat, version : Nat, auto : BOOLEAN]

Request ==
  [pc : {"idle", "read", "write", "advance", "append", "copy", "close", "distil", "create",
         "done"},
   kind : {None, "compact", "reset", "close", "distil"}, gen : Nat, version : Nat,
   read : SUBSET Nat, wrote : Nat, auto : BOOLEAN, todo : SUBSET Nat]

SessionTyped ==
  /\ session \in Session
  /\ events \in Seq(Event)
  /\ checkpoints \in Seq(Checkpoint)
  /\ call \in [Calls -> Request]

Whole(read) ==
  /\ read \subseteq Numbers
  /\ \A j, k \in read : \A i \in Numbers : j <= i /\ i <= k => i \in read

(* A request that has seen the present version has seen the generation and *)
(* all of its events: whoever adds one makes a new version.                *)
UpToDate(p) ==
  call[p].pc \in {"read", "write", "advance"} =>
    /\ call[p].version <= session.version
    /\ call[p].version = session.version =>
         /\ call[p].gen = session.gen
         /\ call[p].pc # "read" => call[p].read = OfGeneration(call[p].gen)

Handing(p) == call[p].pc = "copy" \/ (call[p].pc = "append" /\ call[p].kind = "reset")

(* What a checkpoint hands over is all there was of a generation that has ended. *)
Covers(gen, read) == gen <= session.gen /\ OfGeneration(gen - 1) \subseteq read

Compacts(p) ==
  /\ UpToDate(p)
  /\ call[p].pc \in {"write", "advance"} => Whole(call[p].read)
  /\ call[p].pc = "advance" \/ Handing(p) => call[p].wrote \in DOMAIN checkpoints
  /\ call[p].pc = "advance" => checkpoints[call[p].wrote].read = call[p].read
  /\ Handing(p) => Covers(call[p].gen, checkpoints[call[p].wrote].read)

Handoffs ==
  \A k \in DOMAIN checkpoints :
    /\ Whole(checkpoints[k].read)
    /\ checkpoints[k].copyOf \in 0..(k - 1)
    /\ checkpoints[k].copyOf # 0 => Covers(checkpoints[k].gen, checkpoints[k].read)

OneActive ==
  \A k, l \in DOMAIN checkpoints :
    /\ checkpoints[k].status = "active" /\ checkpoints[l].status = "active"
    /\ checkpoints[k].gen = checkpoints[l].gen
    => k = l

SessionInv == SessionTyped /\ Ordered /\ Handoffs /\ OneActive /\ \A p \in Calls : Compacts(p)

LEMMA SessionParts ==
  ASSUME SessionTyped
  PROVE  /\ session \in Session /\ session.gen \in Nat /\ session.version \in Nat
         /\ Numbers = 1..Len(events) /\ Len(events) \in Nat
         /\ \A i \in Numbers : events[i] \in Event /\ events[i].gen \in Nat
         /\ DOMAIN checkpoints = 1..Len(checkpoints) /\ Len(checkpoints) \in Nat
         /\ \A k \in DOMAIN checkpoints : checkpoints[k] \in Checkpoint /\ checkpoints[k].gen \in Nat
         /\ \A p \in Calls : call[p] \in Request /\ call[p].gen \in Nat /\ call[p].version \in Nat
<1>1. session \in Session /\ session.gen \in Nat /\ session.version \in Nat
  BY DEF SessionTyped, Session
<1>2. Numbers = 1..Len(events) /\ Len(events) \in Nat /\ \A i \in Numbers : events[i] \in Event
  BY ElementOfSeq, LenProperties DEF SessionTyped, Numbers
<1>3. \A e \in Event : e.gen \in Nat
  BY DEF Event
<1>4. /\ DOMAIN checkpoints = 1..Len(checkpoints) /\ Len(checkpoints) \in Nat
      /\ \A k \in DOMAIN checkpoints : checkpoints[k] \in Checkpoint
  BY ElementOfSeq, LenProperties DEF SessionTyped
<1>5. \A k \in Checkpoint : k.gen \in Nat
  BY DEF Checkpoint
<1>6. \A p \in Calls : call[p] \in Request /\ call[p].gen \in Nat /\ call[p].version \in Nat
  BY DEF SessionTyped, Request
<1> QED
  BY <1>1, <1>2, <1>3, <1>4, <1>5, <1>6

(* A generation that has been read in full has no gaps. *)
LEMMA GenerationWhole ==
  ASSUME SessionTyped, Ordered, NEW g \in Nat
  PROVE  Whole(OfGeneration(g))
<1> SUFFICES ASSUME NEW j \in OfGeneration(g), NEW k \in OfGeneration(g), NEW i \in Numbers,
                    j <= i, i <= k
             PROVE  i \in OfGeneration(g)
  BY DEF Whole, OfGeneration
<1>1. events[j].gen <= events[i].gen /\ events[i].gen <= events[k].gen
  BY DEF Ordered, OfGeneration
<1>2. events[i].gen \in Nat
  BY SessionParts
<1> QED
  BY <1>1, <1>2 DEF OfGeneration

(* The row of the session changes within its generation, and calls pass on *)
(* to what is not about checkpoints.                                       *)
LEMMA RowChanges ==
  ASSUME SessionInv, session' \in Session, session'.gen = session.gen,
         session'.version >= session.version, UNCHANGED <<events, checkpoints>>,
         call' \in [Calls -> Request],
         \A q \in Calls : \/ call'[q] = call[q]
                          \/ call'[q].pc \notin {"read", "write", "advance", "append", "copy"}
  PROVE  SessionInv'
<1> USE DEF SessionInv, SessionTyped, Session
<1>1. SessionTyped'
  OBVIOUS
<1>2. (Ordered /\ Handoffs /\ OneActive)'
  BY DEF Ordered, Handoffs, OneActive, Numbers, Whole, Covers, OfGeneration
<1>3. ASSUME NEW q \in Calls PROVE Compacts(q)'
  <2>1. CASE call'[q] = call[q]
    <3>1. Compacts(q) /\ call[q].version \in Nat
      BY DEF Request
    <3>2. UpToDate(q)'
      BY <2>1, <3>1 DEF Compacts, UpToDate, OfGeneration, Numbers
    <3> QED
      BY <2>1, <3>1, <3>2 DEF Compacts, Handing, Covers, Whole, OfGeneration, Numbers
  <2>2. CASE call'[q].pc \notin {"read", "write", "advance", "append", "copy"}
    BY <2>2 DEF Compacts, UpToDate, Handing
  <2> QED
    BY <2>1, <2>2
<1> HIDE DEF SessionInv
<1> QED
  BY <1>1, <1>2, <1>3 DEF SessionInv

LEMMA SessionKept == SessionInv /\ UNCHANGED contextVars => SessionInv'
<1> SUFFICES ASSUME SessionInv, UNCHANGED contextVars PROVE SessionInv'
  OBVIOUS
<1> QED
  BY RowChanges, SessionParts DEF contextVars, SessionInv, SessionTyped

(* An event that is appended belongs to the present generation, and makes  *)
(* a new version, so nobody who was up to date stays so.                   *)
LEMMA EventAppended ==
  ASSUME SessionInv, NEW e \in Event, e.gen = session.gen, events' = Append(events, e),
         session' = [session EXCEPT !.version = @ + 1], UNCHANGED checkpoints,
         call' \in [Calls -> Request],
         \A q \in Calls :
           \/ call'[q] = call[q]
           \/ call'[q].pc \notin {"read", "write", "advance", "append", "copy"}
           \/ /\ Handing(q) /\ call'[q].pc = "copy"
              /\ call'[q].wrote = call[q].wrote /\ call'[q].gen = call[q].gen
  PROVE  SessionInv'
<1> USE DEF SessionInv
<1>1. /\ session' \in Session /\ session'.gen = session.gen
      /\ session.version \in Nat /\ session.gen \in Nat
      /\ session'.version = session.version + 1
  BY SessionParts DEF Session
<1>2. SessionTyped'
  BY <1>1 DEF SessionTyped
<1>3. /\ Numbers = 1..Len(events) /\ Len(events) \in Nat
      /\ Numbers' = 1..(Len(events) + 1)
      /\ \A i \in Numbers : events'[i] = events[i] /\ events[i].gen \in Nat
      /\ events'[Len(events) + 1] = e
  <2>1. /\ Len(events') = Len(events) + 1
        /\ \A i \in 1..Len(events) : events'[i] = events[i]
        /\ events'[Len(events) + 1] = e
    BY AppendProperties DEF SessionTyped
  <2>2. Numbers' = 1..Len(events')
    BY <1>2, LenProperties DEF SessionTyped, Numbers
  <2> QED
    BY <2>1, <2>2, SessionParts
<1>4. Ordered'
  <2>1. ASSUME NEW i \in Numbers', NEW j \in Numbers', i <= j
        PROVE  events'[i].gen <= events'[j].gen /\ events'[j].gen <= session'.gen
    <3>1. CASE j \in Numbers
      <4>1. i \in Numbers
        BY <1>3, <2>1, <3>1
      <4> QED
        BY <1>1, <1>3, <2>1, <3>1, <4>1 DEF Ordered
    <3>2. CASE j = Len(events) + 1
      BY <1>1, <1>3, <3>2 DEF Ordered
    <3> QED
      BY <1>3, <3>1, <3>2
  <2> QED
    BY <1>3, <2>1 DEF Ordered
<1>5. ASSUME NEW read, Whole(read) PROVE Whole(read)'
  BY <1>3, <1>5 DEF Whole
<1>6. ASSUME NEW g \in Nat, NEW read, Covers(g, read) PROVE Covers(g, read)'
  <2>1. OfGeneration(g - 1)' = OfGeneration(g - 1)
    BY <1>1, <1>3, <1>6 DEF Covers, OfGeneration
  <2> QED
    BY <1>1, <1>6, <2>1 DEF Covers
<1>7. \A k \in DOMAIN checkpoints : checkpoints[k].gen \in Nat
  BY SessionParts
<1>8. (Handoffs /\ OneActive)'
  BY <1>5, <1>6, <1>7 DEF Handoffs, OneActive
<1>9. ASSUME NEW q \in Calls PROVE Compacts(q)'
  <2>0. Compacts(q) /\ call[q].version \in Nat /\ call[q].gen \in Nat
    BY DEF SessionTyped, Request
  <2>1. CASE call'[q] = call[q]
    <3>1. UpToDate(q)'
      BY <1>1, <2>0, <2>1 DEF Compacts, UpToDate
    <3> QED
      BY <1>5, <1>6, <2>0, <2>1, <3>1 DEF Compacts, Handing
  <2>2. CASE call'[q].pc \notin {"read", "write", "advance", "append", "copy"}
    BY <2>2 DEF Compacts, UpToDate, Handing
  <2>3. CASE /\ Handing(q) /\ call'[q].pc = "copy"
             /\ call'[q].wrote = call[q].wrote /\ call'[q].gen = call[q].gen
    BY <1>6, <2>0, <2>3 DEF Compacts, UpToDate, Handing
  <2> QED
    BY <2>1, <2>2, <2>3
<1> HIDE DEF SessionInv
<1> QED
  BY <1>2, <1>4, <1>8, <1>9 DEF SessionInv

(* One call moves, and only its own part is to be shown. *)
LEMMA RequestMoves ==
  ASSUME SessionInv, UNCHANGED <<session, events, checkpoints>>,
         NEW p \in Calls, NEW r \in Request, call' = [call EXCEPT ![p] = r],
         (Compacts(p))'
  PROVE  SessionInv'
<1> USE DEF SessionInv
<1>1. SessionTyped' /\ \A q \in Calls : q # p => call'[q] = call[q]
  BY DEF SessionTyped
<1>2. (Ordered /\ Handoffs /\ OneActive)'
  BY DEF Ordered, Handoffs, OneActive, Numbers, Whole, Covers, OfGeneration
<1>3. ASSUME NEW q \in Calls, q # p PROVE Compacts(q)'
  BY <1>1, <1>3 DEF Compacts, UpToDate, Handing, Covers, Whole, OfGeneration, Numbers
<1> HIDE DEF SessionInv
<1> QED
  BY <1>1, <1>2, <1>3 DEF SessionInv

LEMMA QuietKept ==
  /\ Quiet \in Request
  /\ Quiet.pc \notin {"read", "write", "advance", "append", "copy", "distil", "create", "done"}
  BY DEF Quiet, Request

(* A request that is over. *)
LEMMA LeaveInv ==
  ASSUME SessionInv, NEW p \in Calls, Leave(p), UNCHANGED <<session, events, checkpoints>>
  PROVE  SessionInv'
<1>1. call \in [Calls -> Request] /\ call' = [call EXCEPT ![p] = Quiet]
  BY DEF SessionInv, SessionTyped, Leave
<1>2. call' \in [Calls -> Request] /\ \A q \in Calls : call'[q] = IF q = p THEN Quiet ELSE call[q]
  BY <1>1, QuietKept
<1> QED
  BY <1>2, QuietKept, RowChanges, SessionParts DEF SessionInv

LEMMA BeginInv ==
  ASSUME SessionInv, NEW p \in Calls, NEW kind \in {"compact", "reset", "close"}, Begin(p, kind)
  PROVE  SessionInv'
<1> DEFINE r == [Quiet EXCEPT !.pc = "read", !.kind = kind, !.gen = session.gen,
                              !.version = session.version]
<1>1. call' = [call EXCEPT ![p] = r] /\ UNCHANGED <<session, events, checkpoints>>
  BY DEF Begin
<1>2. session.gen \in Nat /\ session.version \in Nat
  BY SessionParts DEF SessionInv
<1>3. r \in Request /\ r.pc = "read" /\ r.gen = session.gen /\ r.version = session.version
  BY <1>2, QuietKept DEF Request
<1> HIDE DEF r
<1>4. call'[p] = r
  BY <1>1 DEF SessionInv, SessionTyped
<1>5. Compacts(p)'
  BY <1>1, <1>2, <1>3, <1>4 DEF Compacts, UpToDate, Handing
<1> QED
  BY <1>1, <1>3, <1>5, RequestMoves

LEMMA ReadEventsInv ==
  ASSUME SessionInv, NEW p \in Calls, ReadEvents(p)
  PROVE  SessionInv'
<1>1. /\ UNCHANGED <<session, events, checkpoints>> /\ call[p].pc = "read"
      /\ call \in [Calls -> Request] /\ call[p] \in Request /\ Compacts(p)
      /\ call[p].gen \in Nat
  BY DEF ReadEvents, SessionInv, SessionTyped, Request
<1>2. CASE OfGeneration(call[p].gen) = {}
  BY <1>1, <1>2, LeaveInv DEF ReadEvents
<1>3. CASE OfGeneration(call[p].gen) # {}
  <2> DEFINE r == [call[p] EXCEPT !.pc = "write", !.read = OfGeneration(call[p].gen)]
  <2>1. call' = [call EXCEPT ![p] = r]
    BY <1>1, <1>3 DEF ReadEvents
  <2>2. OfGeneration(call[p].gen) \in SUBSET Nat
    BY SessionParts DEF SessionInv, OfGeneration
  <2>3. /\ r \in Request /\ r.pc = "write" /\ r.read = OfGeneration(call[p].gen)
        /\ r.version = call[p].version /\ r.gen = call[p].gen
    BY <1>1, <2>2 DEF Request
  <2>4. call'[p] = r
    BY <1>1, <2>1
  <2>5. Whole(OfGeneration(call[p].gen))
    BY <1>1, GenerationWhole DEF SessionInv
  <2> HIDE DEF r
  <2>6. Compacts(p)'
    <3>1. UpToDate(p)'
      BY <1>1, <2>3, <2>4 DEF Compacts, UpToDate, OfGeneration, Numbers
    <3> QED
      BY <1>1, <2>3, <2>4, <2>5, <3>1 DEF Compacts, Handing, Whole, OfGeneration, Numbers
  <2> QED
    BY <1>1, <2>1, <2>3, <2>6, RequestMoves
<1> QED
  BY <1>2, <1>3

(* A checkpoint that is appended to those of before, which may be superseded. *)
Extended(k) ==
  /\ checkpoints' \in Seq(Checkpoint)
  /\ Len(checkpoints') = Len(checkpoints) + 1
  /\ \A l \in DOMAIN checkpoints :
       /\ checkpoints'[l].read = checkpoints[l].read
       /\ checkpoints'[l].gen = checkpoints[l].gen
       /\ checkpoints'[l].copyOf = checkpoints[l].copyOf
       /\ checkpoints'[l].status = "active" =>
            checkpoints[l].status = "active" /\ checkpoints[l].gen # k.gen
  /\ checkpoints'[Len(checkpoints) + 1] = k

LEMMA CheckpointAdded ==
  ASSUME SessionInv, UNCHANGED <<session, events>>, NEW k \in Checkpoint, Extended(k),
         Whole(k.read), k.copyOf \in 0..Len(checkpoints),
         k.copyOf # 0 => Covers(k.gen, k.read),
         NEW p \in Calls, call' \in [Calls -> Request],
         \A q \in Calls : q # p => call'[q] = call[q],
         Compacts(p)'
  PROVE  SessionInv'
<1> USE DEF SessionInv
<1> DEFINE n == Len(checkpoints)
<1>1. /\ n \in Nat /\ DOMAIN checkpoints = 1..n /\ DOMAIN checkpoints' = 1..(n + 1)
      /\ checkpoints'[n + 1] = k
  BY SessionParts, LenProperties DEF Extended
<1> HIDE DEF n
<1>2. SessionTyped'
  BY DEF SessionTyped, Extended
<1>3. Ordered'
  BY DEF Ordered, Numbers
<1>4. /\ \A read : Whole(read)' <=> Whole(read)
      /\ \A g, read : Covers(g, read)' <=> Covers(g, read)
  BY DEF Whole, Covers, OfGeneration, Numbers
<1>5. Handoffs'
  <2> SUFFICES ASSUME NEW l \in 1..(n + 1)
               PROVE  /\ Whole(checkpoints'[l].read)
                      /\ checkpoints'[l].copyOf \in 0..(l - 1)
                      /\ checkpoints'[l].copyOf # 0 => Covers(checkpoints'[l].gen, checkpoints'[l].read)
    BY <1>1, <1>4 DEF Handoffs
  <2>1. CASE l \in 1..n
    BY <1>1, <2>1 DEF Handoffs, Extended
  <2>2. CASE l = n + 1
    BY <1>1, <2>2 DEF n
  <2> QED
    BY <1>1, <2>1, <2>2
<1>6. OneActive'
  <2> SUFFICES ASSUME NEW l \in 1..(n + 1), NEW m \in 1..(n + 1),
                      checkpoints'[l].status = "active", checkpoints'[m].status = "active",
                      checkpoints'[l].gen = checkpoints'[m].gen
               PROVE  l = m
    BY <1>1 DEF OneActive
  <2>1. CASE l \in 1..n /\ m \in 1..n
    BY <1>1, <2>1 DEF OneActive, Extended
  <2>2. CASE l \notin 1..n \/ m \notin 1..n
    BY <1>1, <2>2 DEF Extended
  <2> QED
    BY <2>1, <2>2
<1>7. ASSUME NEW q \in Calls, q # p PROVE Compacts(q)'
  <2>1. Compacts(q) /\ call'[q] = call[q]
    BY <1>7
  <2>2. UpToDate(q)'
    BY <2>1 DEF Compacts, UpToDate, OfGeneration, Numbers
  <2> QED
    BY <1>1, <1>4, <2>1, <2>2 DEF Compacts, Handing, Extended
<1> HIDE DEF SessionInv
<1> QED
  BY <1>2, <1>3, <1>5, <1>6, <1>7 DEF SessionInv

LEMMA WriteCheckpointInv ==
  ASSUME SessionInv, NEW p \in Calls, WriteCheckpoint(p)
  PROVE  SessionInv'
<1> DEFINE c == call[p]
           n == Len(checkpoints)
           k == [gen |-> c.gen, read |-> c.read, status |-> "active", copyOf |-> 0]
           rest == [l \in DOMAIN checkpoints |->
                      IF l \in ActiveOf(c.gen) THEN [checkpoints[l] EXCEPT !.status = "superseded"]
                      ELSE checkpoints[l]]
           advance == [c EXCEPT !.pc = "advance", !.wrote = n + 1]
           append == [c EXCEPT !.pc = "append", !.wrote = n + 1]
<1>1. /\ UNCHANGED <<session, events>> /\ c.pc = "write" /\ c \in Request /\ Compacts(p)
      /\ n \in Nat /\ DOMAIN checkpoints = 1..n
      /\ c.gen \in Nat /\ c.read \in SUBSET Nat /\ call \in [Calls -> Request]
  BY SessionParts DEF WriteCheckpoint, SessionInv, SessionTyped, Request
<1>2. CASE UNCHANGED checkpoints /\ Leave(p)
  BY <1>1, <1>2, LeaveInv
<1>3. CASE /\ checkpoints' = Append(rest, k)
           /\ \/ Leave(p)
              \/ call' = [call EXCEPT ![p] = advance]
              \/ c.kind # "reset" /\ call' = [call EXCEPT ![p] = append]
  <2>1. \A l \in 1..n : /\ rest[l] \in Checkpoint
                        /\ rest[l].read = checkpoints[l].read /\ rest[l].gen = checkpoints[l].gen
                        /\ rest[l].copyOf = checkpoints[l].copyOf
                        /\ rest[l].status = "active" =>
                             checkpoints[l].status = "active" /\ checkpoints[l].gen # c.gen
    <3> TAKE l \in 1..n
    <3>1. checkpoints[l] \in Checkpoint
      BY <1>1, SessionParts DEF SessionInv
    <3>2. /\ [checkpoints[l] EXCEPT !.status = "superseded"] \in Checkpoint
          /\ [checkpoints[l] EXCEPT !.status = "superseded"].read = checkpoints[l].read
          /\ [checkpoints[l] EXCEPT !.status = "superseded"].gen = checkpoints[l].gen
          /\ [checkpoints[l] EXCEPT !.status = "superseded"].copyOf = checkpoints[l].copyOf
          /\ [checkpoints[l] EXCEPT !.status = "superseded"].status = "superseded"
      BY <3>1 DEF Checkpoint
    <3> QED
      BY <1>1, <3>1, <3>2 DEF ActiveOf
  <2>2. rest \in [1..n -> Checkpoint]
    BY <1>1, <2>1
  <2> HIDE DEF rest
  <2>3. rest \in Seq(Checkpoint) /\ Len(rest) = n
    BY <1>1, <2>2
  <2>4. k \in Checkpoint /\ k.copyOf = 0 /\ k.gen = c.gen /\ k.read = c.read
    BY <1>1 DEF Checkpoint
  <2> HIDE DEF k
  <2>5. Extended(k)
    <3>1. /\ checkpoints' \in Seq(Checkpoint) /\ Len(checkpoints') = n + 1
          /\ \A l \in 1..n : checkpoints'[l] = rest[l]
          /\ checkpoints'[n + 1] = k
      BY <1>3, <2>3, <2>4, AppendProperties
    <3> QED
      BY <1>1, <2>1, <2>4, <3>1 DEF Extended
  <2>6. PICK r \in Request :
          /\ call' = [call EXCEPT ![p] = r]
          /\ \/ r.pc = "idle"
             \/ r.pc = "append" /\ r.kind # "reset"
             \/ /\ r.pc = "advance" /\ r.wrote = n + 1 /\ r.read = c.read
                /\ r.version = c.version /\ r.gen = c.gen
    <3>1. CASE Leave(p)
      BY <3>1, QuietKept DEF Leave, Quiet
    <3>2. CASE call' = [call EXCEPT ![p] = advance]
      <4> DEFINE w == n + 1
      <4>2. c \in Request /\ w \in Nat
        BY <1>1
      <4> HIDE DEF c, n
      <4>1. /\ advance \in Request /\ advance.pc = "advance" /\ advance.wrote = n + 1
            /\ advance.read = c.read /\ advance.version = c.version /\ advance.gen = c.gen
        BY <4>2 DEF Request
      <4> QED
        BY <3>2, <4>1
    <3>3. CASE c.kind # "reset" /\ call' = [call EXCEPT ![p] = append]
      <4> DEFINE w == n + 1
      <4>2. c \in Request /\ w \in Nat
        BY <1>1
      <4> HIDE DEF c, n
      <4>1. append \in Request /\ append.pc = "append" /\ append.kind # "reset"
        BY <4>2, <3>3 DEF Request
      <4> QED
        BY <3>3, <4>1
    <3> QED
      BY <1>3, <3>1, <3>2, <3>3
  <2>7. /\ call' \in [Calls -> Request] /\ call'[p] = r
        /\ \A q \in Calls : q # p => call'[q] = call[q]
    BY <2>6 DEF SessionInv, SessionTyped
  <2>8. Compacts(p)'
    <3>1. UpToDate(p)'
      BY <1>1, <2>6, <2>7 DEF Compacts, UpToDate, OfGeneration, Numbers
    <3>2. n + 1 \in DOMAIN checkpoints' /\ checkpoints'[n + 1].read = c.read
      BY <1>1, <2>4, <2>5, LenProperties DEF Extended
    <3>3. Whole(c.read)
      BY <1>1 DEF Compacts
    <3>4. \A read : Whole(read) => Whole(read)'
      BY <1>1 DEF Whole, Numbers
    <3> QED
      BY <2>6, <2>7, <3>1, <3>2, <3>3, <3>4 DEF Compacts, Handing
  <2>9. Whole(k.read) /\ k.copyOf \in 0..Len(checkpoints)
    BY <1>1, <2>4 DEF Compacts
  <2> QED
    BY <1>1, <2>4, <2>5, <2>7, <2>8, <2>9, CheckpointAdded
<1>4. ASSUME c.kind = "reset", checkpoints' = Append(rest, k), ~Leave(p)
      PROVE  call' = [call EXCEPT ![p] = advance]
  <2>1. call' = [call EXCEPT ![p].pc = "advance", ![p].wrote = n + 1]
    BY <1>4 DEF WriteCheckpoint
  <2> QED
    BY <1>1, <2>1
<1>5. ASSUME c.kind # "reset", checkpoints' = Append(rest, k), ~Leave(p)
      PROVE  call' = [call EXCEPT ![p] = append]
  <2>1. call' = [call EXCEPT ![p].pc = "append", ![p].wrote = n + 1]
    BY <1>5 DEF WriteCheckpoint
  <2> QED
    BY <1>1, <2>1
<1>6. (UNCHANGED checkpoints /\ Leave(p)) \/ checkpoints' = Append(rest, k)
  BY DEF WriteCheckpoint
<1> QED
  BY <1>2, <1>3, <1>4, <1>5, <1>6

LEMMA AdvanceInv ==
  ASSUME SessionInv, NEW p \in Calls, Advance(p)
  PROVE  SessionInv'
<1>1. /\ UNCHANGED <<events, checkpoints>> /\ call[p].pc = "advance"
      /\ call \in [Calls -> Request] /\ call[p] \in Request /\ Compacts(p)
      /\ session \in Session /\ session.gen \in Nat /\ session.version \in Nat
  BY SessionParts DEF Advance, SessionInv, SessionTyped
<1>2. CASE Leave(p) /\ UNCHANGED session
  BY <1>1, <1>2, LeaveInv
<1>3. CASE SameVersion(p) /\ ~(Leave(p) /\ UNCHANGED session)
  <2> DEFINE c == call[p]
             g == session.gen + 1
             r == [c EXCEPT !.pc = "append", !.gen = g]
  <2>1. /\ session' = [session EXCEPT !.gen = @ + 1, !.version = @ + 1]
        /\ call' = [call EXCEPT ![p] = r]
    BY <1>1, <1>3 DEF Advance
  <2>2. /\ r \in Request /\ r.pc = "append" /\ r.gen = session.gen + 1
        /\ r.wrote = call[p].wrote
    <3>1. c \in Request /\ g \in Nat
      BY <1>1
    <3> HIDE DEF c, g
    <3>2. r \in Request /\ r.pc = "append" /\ r.gen = g /\ r.wrote = c.wrote
      BY <3>1 DEF Request
    <3> QED
      BY <3>2 DEF c, g
  <2> HIDE DEF c, r
  <2>3. /\ session' \in Session /\ session'.gen = session.gen + 1
        /\ session'.version = session.version + 1
    <3>1. session' = [session EXCEPT !.gen = g, !.version = session.version + 1]
      BY <1>3 DEF Advance
    <3>2. g \in Nat /\ session.version + 1 \in Nat /\ session \in Session
      BY <1>1
    <3> HIDE DEF g
    <3>3. session' \in Session /\ session'.gen = g /\ session'.version = session.version + 1
      BY <3>1, <3>2 DEF Session
    <3> QED
      BY <3>3 DEF g
  <2>4. /\ call' \in [Calls -> Request] /\ call'[p] = r
        /\ \A q \in Calls : q # p => call'[q] = call[q]
    BY <1>1, <2>1, <2>2
  <2>5. SessionTyped'
    BY <1>1, <2>3, <2>4 DEF SessionInv, SessionTyped
  <2>6. Ordered'
    <3>1. \A i \in Numbers : events[i].gen \in Nat
      BY SessionParts DEF SessionInv
    <3> QED
      BY <1>1, <2>3, <3>1 DEF SessionInv, Ordered, Numbers
  <2>7. /\ \A read : Whole(read) => Whole(read)'
        /\ \A h \in Nat : \A read : Covers(h, read) => Covers(h, read)'
    BY <1>1, <2>3 DEF Whole, Covers, OfGeneration, Numbers
  <2>8. \A k \in DOMAIN checkpoints : checkpoints[k].gen \in Nat
    BY SessionParts DEF SessionInv
  <2>9. (Handoffs /\ OneActive)'
    BY <1>1, <2>7, <2>8 DEF SessionInv, Handoffs, OneActive
  <2>10. ASSUME NEW q \in Calls, q # p PROVE Compacts(q)'
    <3>1. /\ Compacts(q) /\ call'[q] = call[q]
          /\ call[q].gen \in Nat /\ call[q].version \in Nat
      BY <2>4, <2>10, SessionParts DEF SessionInv
    <3>2. UpToDate(q)'
      BY <1>1, <2>3, <3>1 DEF Compacts, UpToDate
    <3> QED
      BY <1>1, <2>7, <3>1, <3>2 DEF Compacts, Handing
  <2>11. Compacts(p)'
    <3>1. /\ call[p].wrote \in DOMAIN checkpoints
          /\ checkpoints[call[p].wrote].read = OfGeneration(session.gen)
      BY <1>1, <1>3 DEF Compacts, UpToDate, SameVersion
    <3>2. ASSUME NEW h \in Nat, h = session.gen + 1, NEW read, OfGeneration(session.gen) \subseteq read
          PROVE  Covers(h, read)'
      BY <1>1, <2>3, <3>2 DEF Covers, OfGeneration, Numbers
    <3>3. call'[p].gen \in Nat /\ call'[p].gen = session.gen + 1 /\ call'[p].pc = "append"
          /\ call'[p].wrote = call[p].wrote
      BY <1>1, <2>2, <2>4
    <3> QED
      BY <1>1, <3>1, <3>2, <3>3 DEF Compacts, UpToDate, Handing
  <2> QED
    BY <2>5, <2>6, <2>9, <2>10, <2>11 DEF SessionInv
<1> QED
  BY <1>2, <1>3 DEF Advance

LEMMA AppendMarkerInv ==
  ASSUME SessionInv, NEW p \in Calls, AppendMarker(p)
  PROVE  SessionInv'
<1>1. /\ UNCHANGED checkpoints /\ call[p].pc = "append"
      /\ call \in [Calls -> Request] /\ call[p] \in Request
      /\ session \in Session /\ session.gen \in Nat
  BY SessionParts DEF AppendMarker, SessionInv, SessionTyped
<1>2. CASE session.state # "active"
  BY <1>1, <1>2, LeaveInv DEF AppendMarker
<1>3. CASE session.state = "active"
  <2> DEFINE e == [type |-> IF call[p].kind = "reset" THEN "context_reset" ELSE "session_closed",
                   gen |-> session.gen, id |-> None, says |-> None]
             pc == IF call[p].kind = "reset" THEN "copy" ELSE "close"
             r == [call[p] EXCEPT !.pc = pc]
  <2>1. /\ events' = Append(events, e)
        /\ session' = [session EXCEPT !.version = @ + 1]
        /\ call' = [call EXCEPT ![p] = r]
    BY <1>1, <1>3 DEF AppendMarker, AppendEvent, Goto
  <2>2. e \in Event /\ e.gen = session.gen
    BY <1>1 DEF Event
  <2>3. /\ r \in Request /\ r.pc = pc /\ r.wrote = call[p].wrote /\ r.gen = call[p].gen
    BY <1>1 DEF Request
  <2> HIDE DEF e, r
  <2>4. /\ call' \in [Calls -> Request] /\ call'[p] = r
        /\ \A q \in Calls : q # p => call'[q] = call[q]
    BY <1>1, <2>1, <2>3
  <2>5. \/ pc = "close"
        \/ Handing(p) /\ pc = "copy"
    BY <1>1 DEF Handing
  <2> HIDE DEF pc
  <2>6. \A q \in Calls :
           \/ call'[q] = call[q]
           \/ call'[q].pc \notin {"read", "write", "advance", "append", "copy"}
           \/ /\ Handing(q) /\ call'[q].pc = "copy"
              /\ call'[q].wrote = call[q].wrote /\ call'[q].gen = call[q].gen
    BY <2>3, <2>4, <2>5
  <2> QED
    BY <1>1, <2>1, <2>2, <2>4, <2>6, EventAppended
<1> QED
  BY <1>2, <1>3

LEMMA CopyCheckpointInv ==
  ASSUME SessionInv, NEW p \in Calls, CopyCheckpoint(p)
  PROVE  SessionInv'
<1> DEFINE w == call[p].wrote
           n == Len(checkpoints)
           k == [checkpoints[w] EXCEPT !.gen = call[p].gen, !.status = "active", !.copyOf = w]
<1>1. /\ UNCHANGED <<session, events>> /\ call[p].pc = "copy" /\ Leave(p)
      /\ call \in [Calls -> Request] /\ call[p] \in Request /\ Compacts(p)
      /\ checkpoints \in Seq(Checkpoint) /\ n \in Nat /\ DOMAIN checkpoints = 1..n
  BY SessionParts DEF CopyCheckpoint, SessionInv, SessionTyped
<1>2. CASE ActiveOf(call[p].gen) # {}
  BY <1>1, <1>2, LeaveInv DEF CopyCheckpoint
<1>3. CASE ActiveOf(call[p].gen) = {}
  <2>1. checkpoints' = Append(checkpoints, k)
    BY <1>3 DEF CopyCheckpoint
  <2>2. /\ w \in 1..n /\ checkpoints[w] \in Checkpoint /\ call[p].gen \in Nat
        /\ Covers(call[p].gen, checkpoints[w].read) /\ Whole(checkpoints[w].read)
    BY <1>1, SessionParts DEF Compacts, Handing, SessionInv, Handoffs
  <2> DEFINE o == checkpoints[w]
             g == call[p].gen
  <2>3. /\ k \in Checkpoint /\ k.gen = call[p].gen /\ k.read = checkpoints[w].read
        /\ k.copyOf = w
    <3>1. o \in Checkpoint /\ g \in Nat /\ w \in Nat
      BY <1>1, <2>2
    <3>2. k = [o EXCEPT !.gen = g, !.status = "active", !.copyOf = w]
      OBVIOUS
    <3> HIDE DEF k, o, g, w
    <3>3. k \in Checkpoint /\ k.gen = g /\ k.read = o.read /\ k.copyOf = w
      BY <3>1, <3>2 DEF Checkpoint
    <3> QED
      BY <3>3 DEF o, g
  <2> HIDE DEF k, w
  <2>4. /\ checkpoints' \in Seq(Checkpoint) /\ Len(checkpoints') = n + 1
        /\ \A l \in 1..n : checkpoints'[l] = checkpoints[l]
        /\ checkpoints'[n + 1] = k
    BY <1>1, <2>1, <2>3, AppendProperties
  <2>5. \A l \in 1..n : checkpoints[l].status = "active" => checkpoints[l].gen # call[p].gen
    BY <1>1, <1>3 DEF ActiveOf
  <2>6. Extended(k)
    BY <1>1, <2>3, <2>4, <2>5 DEF Extended
  <2>7. /\ call' \in [Calls -> Request] /\ call'[p] = Quiet
        /\ \A q \in Calls : q # p => call'[q] = call[q]
    BY <1>1, QuietKept DEF Leave
  <2>8. Compacts(p)'
    BY <2>7, QuietKept DEF Compacts, UpToDate, Handing
  <2>9. Whole(k.read) /\ k.copyOf \in 0..Len(checkpoints) /\ Covers(k.gen, k.read)
    BY <1>1, <2>2, <2>3
  <2> QED
    BY <1>1, <2>3, <2>6, <2>7, <2>8, <2>9, CheckpointAdded
<1> QED
  BY <1>2, <1>3

(* One call goes on to what is not about checkpoints, the row of the       *)
(* session staying in its generation.                                      *)
LEMMA CallLeaves ==
  ASSUME SessionInv, session' \in Session, session'.gen = session.gen,
         session'.version >= session.version, UNCHANGED <<events, checkpoints>>,
         NEW p, NEW r \in Request, call' = [call EXCEPT ![p] = r],
         r.pc \notin {"read", "write", "advance", "append", "copy"}
  PROVE  SessionInv'
<1>1. call' \in [Calls -> Request] /\ \A q \in Calls : call'[q] = IF q = p THEN r ELSE call[q]
  BY DEF SessionInv, SessionTyped
<1> QED
  BY <1>1, RowChanges

LEMMA SameRow == SessionInv => session \in Session /\ session.version >= session.version
  BY SessionParts DEF SessionInv

(* The session changes otherwise than by an event. *)
LEMMA OneVersion ==
  ASSUME NEW s \in Session, NEW t, NEW state \in {"absent", "active", "closed"}, NEW auto \in BOOLEAN,
         \/ t = s
         \/ t = [s EXCEPT !.state = state]
         \/ t = [s EXCEPT !.state = state, !.auto = auto]
         \/ t = [s EXCEPT !.state = state, !.version = @ + 1]
         \/ t = [s EXCEPT !.auto = auto, !.version = @ + 1]
  PROVE  t \in Session /\ t.gen = s.gen /\ t.version >= s.version
<1>1. s.version \in Nat /\ s.version + 1 \in Nat /\ s.version + 1 >= s.version
      /\ s.version >= s.version
  BY DEF Session
<1>2. CASE t = s
  BY <1>1, <1>2
<1>3. CASE t = [s EXCEPT !.state = state]
  BY <1>1, <1>3 DEF Session
<1>4. CASE t = [s EXCEPT !.state = state, !.auto = auto]
  BY <1>1, <1>4 DEF Session
<1> DEFINE v == s.version + 1
<1> HIDE DEF v
<1>5. CASE t = [s EXCEPT !.state = state, !.version = v]
  <2>1. t \in Session /\ t.gen = s.gen /\ t.version = v
    BY <1>1, <1>5 DEF Session, v
  <2> QED
    BY <1>1, <2>1 DEF v
<1>6. CASE t = [s EXCEPT !.auto = auto, !.version = v]
  <2>1. t \in Session /\ t.gen = s.gen /\ t.version = v
    BY <1>1, <1>6 DEF Session, v
  <2> QED
    BY <1>1, <2>1 DEF v
<1> QED
  BY <1>2, <1>3, <1>4, <1>5, <1>6 DEF v

LEMMA SessionStepInv ==
  ASSUME SessionInv, NEW p \in Calls, SessionStep(p)
  PROVE  SessionInv'
<1>1. CASE CloseSession(p)
  <2> DEFINE r == [Quiet EXCEPT !.pc = "distil", !.kind = "close"]
  <2>1. /\ r \in Request /\ r.pc = "distil"
    BY QuietKept DEF Request
  <2>2. call' = [call EXCEPT ![p] = r] /\ UNCHANGED <<events, checkpoints>>
    BY <1>1 DEF CloseSession
  <2> HIDE DEF r
  <2>3. session \in Session
    BY SameRow
  <2>4. session' = session \/ session' = [session EXCEPT !.state = "closed", !.version = @ + 1]
    BY <1>1 DEF CloseSession
  <2>5. session' \in Session /\ session'.gen = session.gen /\ session'.version >= session.version
    BY <2>3, <2>4, OneVersion
  <2> QED
    BY <2>1, <2>2, <2>5, CallLeaves
<1>2. CASE CrashCall(p)
  BY <1>2, LeaveInv DEF CrashCall
<1> QED
  BY <1>1, <1>2, ReadEventsInv, WriteCheckpointInv, AdvanceInv, AppendMarkerInv, CopyCheckpointInv
  DEF SessionStep

(* A message, or an event of a chat request. *)
LEMMA SaidInv ==
  ASSUME SessionInv, NEW type \in {"user_message", "assistant_message"},
         NEW id \in {"user", "assistant", None}, NEW says \in Contents \cup Answers \cup {None},
         AppendEvent(type, id, says), UNCHANGED <<checkpoints, call>>
  PROVE  SessionInv'
<1> DEFINE e == [type |-> type, gen |-> session.gen, id |-> id, says |-> says]
<1>1. e \in Event /\ e.gen = session.gen
  BY SessionParts DEF SessionInv, Event
<1>2. events' = Append(events, e) /\ session' = [session EXCEPT !.version = @ + 1]
  BY DEF AppendEvent
<1> HIDE DEF e
<1>3. call' \in [Calls -> Request]
  BY DEF SessionInv, SessionTyped
<1> QED
  BY <1>1, <1>2, <1>3, EventAppended

LEMMA DuringSessionInv ==
  ASSUME SessionInv, DuringSession
  PROVE  SessionInv'
<1>0. session \in Session /\ call \in [Calls -> Request]
  BY DEF SessionInv, SessionTyped
<1>1. ASSUME NEW auto \in BOOLEAN, CreateSession(auto) \/ SetAutoMemory(auto)
      PROVE  SessionInv'
  <2>1. /\ \/ session' = [session EXCEPT !.state = "active", !.auto = auto]
           \/ session' = [session EXCEPT !.auto = auto, !.version = @ + 1]
        /\ UNCHANGED <<events, checkpoints, call>>
    BY <1>1 DEF CreateSession, SetAutoMemory
  <2>2. session' \in Session /\ session'.gen = session.gen /\ session'.version >= session.version
    BY <1>0, <2>1, OneVersion
  <2> QED
    BY <1>0, <2>1, <2>2, RowChanges
<1>2. CASE UserSays(None)
  BY <1>2, SaidInv DEF UserSays
<1> QED
  BY <1>1, <1>2, BeginInv, SessionStepInv DEF DuringSession

LEMMA DistilSessionInv ==
  ASSUME SessionInv, NEW p \in Calls, Distil(p)
  PROVE  SessionInv'
<1>0. /\ session \in Session /\ session.version >= session.version
      /\ call \in [Calls -> Request] /\ call[p] \in Request
      /\ UNCHANGED <<session, events, checkpoints>>
  BY SameRow DEF SessionInv, SessionTyped, Distil, ReadCandidates, DistilNext
<1>1. CASE ReadCandidates(p)
  <2> DEFINE c == call[p]
             a == session.auto
             t == Candidates
             r == [c EXCEPT !.pc = "create", !.auto = a, !.todo = t]
  <2>1. call' = [call EXCEPT ![p] = r]
    BY <1>0, <1>1 DEF ReadCandidates
  <2>2. c \in Request /\ a \in BOOLEAN /\ t \in SUBSET Nat
    BY <1>0, SessionParts DEF Session, Candidates, SessionInv
  <2> HIDE DEF c, a, t
  <2>3. r \in Request /\ r.pc = "create"
    BY <2>2 DEF Request
  <2> HIDE DEF r
  <2> QED
    BY <1>0, <2>1, <2>3, CallLeaves
<1>2. CASE DistilNext(p)
  <2>1. CASE UNCHANGED call
    BY <1>0, <2>1, RowChanges
  <2>2. CASE Leave(p)
    BY <1>0, <2>2, LeaveInv
  <2>3. CASE call' = [call EXCEPT ![p] = IF @.kind = "close" THEN [Quiet EXCEPT !.pc = "done"] ELSE Quiet]
    <3>1. PICK r \in {Quiet, [Quiet EXCEPT !.pc = "done"]} : call' = [call EXCEPT ![p] = r]
      BY <2>3
    <3>2. r \in Request /\ r.pc \notin {"read", "write", "advance", "append", "copy"}
      BY QuietKept DEF Request
    <3> QED
      BY <1>0, <3>1, <3>2, CallLeaves
  <2>4. ASSUME NEW i, call[p].pc = "create", call' = [call EXCEPT ![p].todo = @ \ {i}]
        PROVE  SessionInv'
    <3> DEFINE c == call[p]
               t == call[p].todo \ {i}
               r == [c EXCEPT !.todo = t]
    <3>1. call' = [call EXCEPT ![p] = r] /\ c.pc = "create"
      BY <1>0, <2>4
    <3>2. c \in Request /\ t \in SUBSET Nat
      BY <1>0 DEF Request
    <3> HIDE DEF c, t
    <3>3. r \in Request /\ r.pc = "create"
      BY <3>1, <3>2 DEF Request
    <3> HIDE DEF r
    <3> QED
      BY <1>0, <3>1, <3>3, CallLeaves
  <2> QED
    BY <1>2, <2>1, <2>2, <2>3, <2>4 DEF DistilNext
<1> QED
  BY <1>1, <1>2 DEF Distil

LEMMA DuringDistilInv ==
  ASSUME SessionInv, DuringDistil
  PROVE  SessionInv'
<1>1. ASSUME NEW c \in Contents, UserSays(c) PROVE SessionInv'
  BY <1>1, SaidInv DEF UserSays
<1>2. CASE BeginDistil(ACall)
  <2> DEFINE r == [Quiet EXCEPT !.pc = "distil", !.kind = "distil"]
  <2>1. r \in Request /\ r.pc = "distil"
    BY QuietKept DEF Request
  <2>2. call' = [call EXCEPT ![ACall] = r] /\ UNCHANGED <<session, events, checkpoints>>
    BY <1>2 DEF BeginDistil
  <2> HIDE DEF r
  <2> QED
    BY <2>1, <2>2, CallLeaves, SameRow
<1> QED
  BY <1>1, <1>2, BeginInv, SessionStepInv, SessionKept, DistilSessionInv DEF DuringDistil
-----------------------------------------------------------------------------
(* Only a user asks for something to be remembered, early in the session.  *)
Asked(i) == events[i].type = "user_message" /\ events[i].says \in Contents /\ i <= MaxEvents

OnlyAsked == focus = "distil" => \A i \in Numbers : Asked(i) \/ events[i].says = None

Closing(p) == call[p].pc = "done" \/ (call[p].pc \in {"distil", "create"} /\ call[p].kind = "close")

(* Where a content is that a distillation has looked at. *)
Filed(p, c) ==
  \/ c \in Rows
  \/ op[p].pc = "insert" /\ op[p].content = c
  \/ op[p].pc \in {"raised", "link"}

(* What a call has found of the session, and of what was asked in it.      *)
Distilling(p) ==
  /\ call[p].pc # "idle" => session.state # "absent"
  /\ call[p].pc \in {"create", "done"} => focus = "distil"
  /\ Closing(p) => session.state = "closed"
  /\ call[p].pc = "create" => \A i \in call[p].todo : i \in Numbers /\ Asked(i)
  /\ call[p].pc = "create" /\ call[p].kind = "close" =>
       \A i \in Numbers : Asked(i) => i \in call[p].todo \/ Filed(p, events[i].says)
  /\ call[p].pc = "done" => \A i \in Numbers : Asked(i) => events[i].says \in Rows

DistilInv == OnlyAsked /\ \A p \in Calls : Distilling(p)
-----------------------------------------------------------------------------
(* Events stay, and only an active session gets another one.               *)
EventsKept ==
  /\ UNCHANGED events \/ (session.state = "active" /\ session'.state = "active"
                          /\ \E e : events' = Append(events, e))
  /\ session.state = "closed" => session'.state = "closed"
  /\ session.state # "absent" => session'.state # "absent"

(* What the steps of the session leave alone: who is distilling.           *)
CallsKept ==
  \A q \in Calls :
    \/ call'[q] = call[q]
    \/ /\ call'[q].pc \notin {"distil", "create", "done"}
       /\ call'[q].pc # "idle" => session.state # "absent"
    \/ /\ call'[q].pc = "distil" /\ session.state # "absent"
       /\ call'[q].kind = "close" => session'.state = "closed"

LEMMA LogGrows ==
  ASSUME SessionInv, SessionInv', EventsKept
  PROVE  /\ Numbers \subseteq Numbers' /\ \A i \in Numbers : events'[i] = events[i]
         /\ session.state = "closed" => Numbers' = Numbers
<1>1. CASE UNCHANGED events
  BY <1>1 DEF Numbers
<1>2. ASSUME session.state = "active", NEW e, events' = Append(events, e)
      PROVE  Numbers \subseteq Numbers' /\ \A i \in Numbers : events'[i] = events[i]
  <2>1. /\ events \in Seq(Event) /\ events' \in Seq(Event)
        /\ Numbers = 1..Len(events) /\ Numbers' = 1..Len(events') /\ Len(events) \in Nat
    BY SessionParts, LenProperties DEF SessionInv, SessionTyped, Numbers
  <2> DEFINE S == Seq(Event \cup {e})
  <2>2. events \in Seq(Event \cup {e})
    BY <2>1
  <2>3. Len(events') = Len(events) + 1 /\ \A i \in 1..Len(events) : events'[i] = events[i]
    BY <1>2, <2>2, AppendProperties
  <2> QED
    BY <2>1, <2>3
<1> QED
  BY <1>1, <1>2 DEF EventsKept

(* A step of the session that tells of nothing to be remembered.           *)
LEMMA DistilKept ==
  ASSUME SessionInv, SessionInv', DistilInv, EventsKept, CallsKept, OnlyAsked',
         UNCHANGED <<focus, op>>, Rows \subseteq Rows'
  PROVE  DistilInv'
<1> SUFFICES ASSUME NEW p \in Calls PROVE Distilling(p)'
  BY DEF DistilInv
<1>0. /\ Numbers \subseteq Numbers' /\ \A i \in Numbers : events'[i] = events[i]
      /\ session.state = "closed" => Numbers' = Numbers
      /\ Distilling(p)
      /\ session.state = "closed" => session'.state = "closed"
      /\ session.state # "absent" => session'.state # "absent"
  BY LogGrows DEF DistilInv, EventsKept
<1>1. CASE call'[p] = call[p]
  <2>1. \A i \in Numbers : Asked(i)' <=> Asked(i)
    BY <1>0 DEF Asked
  <2>2. \A c : Filed(p, c) => Filed(p, c)'
    BY DEF Filed
  <2>3. Closing(p)' <=> Closing(p)
    BY <1>1 DEF Closing
  <2>4. call[p].pc = "create" /\ call[p].kind = "close" =>
          \A i \in Numbers' : Asked(i)' => i \in call[p].todo \/ Filed(p, events[i].says)'
    <3> SUFFICES ASSUME call[p].pc = "create", call[p].kind = "close", NEW i \in Numbers', Asked(i)'
                 PROVE  i \in call[p].todo \/ Filed(p, events[i].says)'
      OBVIOUS
    <3>1. i \in Numbers
      BY <1>0 DEF Distilling, Closing
    <3>2. i \in call[p].todo \/ Filed(p, events[i].says)
      BY <1>0, <2>1, <3>1 DEF Distilling
    <3> QED
      BY <1>0, <2>2, <3>1, <3>2
  <2>5. call[p].pc = "done" => \A i \in Numbers' : Asked(i)' => events'[i].says \in Rows'
    BY <1>0, <2>1 DEF Distilling, Closing
  <2>6. call[p].pc = "create" => \A i \in call[p].todo : i \in Numbers' /\ Asked(i)'
    BY <1>0, <2>1 DEF Distilling
  <2> QED
    BY <1>0, <1>1, <2>3, <2>4, <2>5, <2>6 DEF Distilling
<1>2. CASE /\ call'[p].pc \notin {"distil", "create", "done"}
           /\ call'[p].pc # "idle" => session.state # "absent"
  BY <1>0, <1>2 DEF Distilling, Closing
<1>3. CASE /\ call'[p].pc = "distil" /\ session.state # "absent"
           /\ call'[p].kind = "close" => session'.state = "closed"
  BY <1>0, <1>3 DEF Distilling, Closing
<1> QED
  BY <1>1, <1>2, <1>3 DEF CallsKept

LEMMA OnlyAskedKept ==
  ASSUME SessionInv, SessionInv', OnlyAsked, UNCHANGED focus,
         \/ UNCHANGED events
         \/ \E e : /\ events' = Append(events, e)
                   /\ \/ focus # "distil"
                      \/ e.says = None
                      \/ /\ e.type = "user_message" /\ e.says \in Contents
                         /\ Len(events) < MaxEvents
  PROVE  OnlyAsked'
<1>1. CASE UNCHANGED events
  BY <1>1 DEF OnlyAsked, Numbers, Asked
<1>2. CASE focus # "distil"
  BY <1>2 DEF OnlyAsked
<1>3. ASSUME focus = "distil", NEW e, events' = Append(events, e),
             \/ e.says = None
             \/ /\ e.type = "user_message" /\ e.says \in Contents /\ Len(events) < MaxEvents
      PROVE  OnlyAsked'
  <2>1. /\ events \in Seq(Event) /\ events' \in Seq(Event)
        /\ Numbers = 1..Len(events) /\ Numbers' = 1..Len(events') /\ Len(events) \in Nat
    BY SessionParts, LenProperties DEF SessionInv, SessionTyped, Numbers
  <2>2. events \in Seq(Event \cup {e})
    BY <2>1
  <2>3. /\ Len(events') = Len(events) + 1 /\ \A i \in 1..Len(events) : events'[i] = events[i]
        /\ events'[Len(events) + 1] = e
    BY <1>3, <2>2, AppendProperties
  <2>4. ASSUME NEW i \in Numbers' PROVE Asked(i)' \/ events'[i].says = None
    <3>1. CASE i \in Numbers
      BY <1>3, <2>1, <2>3, <3>1 DEF OnlyAsked, Asked
    <3>2. CASE i = Len(events) + 1
      BY <1>3, <2>1, <2>3, <3>2, ContextAssumption DEF Asked
    <3> QED
      BY <2>1, <2>3, <3>1, <3>2
  <2> QED
    BY <2>4 DEF OnlyAsked
<1> QED
  BY <1>1, <1>2, <1>3

LEMMA CallKept ==
  ASSUME SessionInv, NEW p, NEW r, call' = [call EXCEPT ![p] = r],
         \/ /\ r.pc \notin {"distil", "create", "done"}
            /\ r.pc # "idle" => session.state # "absent"
         \/ /\ r.pc = "distil" /\ session.state # "absent"
            /\ r.kind = "close" => session'.state = "closed"
  PROVE  CallsKept
  BY DEF SessionInv, SessionTyped, CallsKept

LEMMA CallMovesOn ==
  ASSUME SessionInv, NEW p \in Calls, session.state # "absent",
         call' = [call EXCEPT ![p] = call'[p]], call'[p].pc \notin {"distil", "create", "done"}
  PROVE  CallsKept
  BY DEF SessionInv, SessionTyped, CallsKept

LEMMA LeaveKept ==
  ASSUME SessionInv, NEW p, Leave(p)
  PROVE  CallsKept
  BY CallKept, QuietKept DEF Leave, Quiet

LEMMA SessionStepKeeps ==
  ASSUME SessionInv, SessionInv', DistilInv, NEW p \in Calls, SessionStep(p), UNCHANGED focus
  PROVE  EventsKept /\ CallsKept /\ OnlyAsked'
<1>0. /\ call \in [Calls -> Request] /\ call' \in [Calls -> Request] /\ call[p] \in Request
      /\ OnlyAsked /\ session \in Session
      /\ call[p].pc # "idle" => session.state # "absent"
  BY DEF SessionInv, SessionTyped, DistilInv, Distilling
<1>1. CASE UNCHANGED <<session, events>> /\ Leave(p)
  BY <1>0, <1>1, LeaveKept, OnlyAskedKept DEF EventsKept
<1>2. ASSUME UNCHANGED events, session'.state = session.state, session.state # "absent",
             call' = [call EXCEPT ![p] = call'[p]],
             call'[p].pc \notin {"distil", "create", "done"}
      PROVE  EventsKept /\ CallsKept /\ OnlyAsked'
  BY <1>0, <1>2, CallMovesOn, OnlyAskedKept DEF EventsKept
<1>3. CASE ReadEvents(p) \/ WriteCheckpoint(p)
  <2>1. UNCHANGED <<session, events>> /\ call[p].pc # "idle"
    BY <1>3 DEF ReadEvents, WriteCheckpoint
  <2>2. \/ Leave(p)
        \/ call' = [call EXCEPT ![p].pc = "write", ![p].read = OfGeneration(call[p].gen)]
        \/ call' = [call EXCEPT ![p].pc = IF call[p].kind = "reset" THEN "advance" ELSE "append",
                                ![p].wrote = Len(checkpoints) + 1]
    BY <1>3 DEF ReadEvents, WriteCheckpoint
  <2>3. Leave(p) \/ (/\ call' = [call EXCEPT ![p] = call'[p]]
                     /\ call'[p].pc \in {"write", "advance", "append"})
    <3>1. ASSUME NEW f \in [Calls -> Request], NEW pc \in {"write", "advance", "append"}, NEW s, NEW n,
                 \/ f = [call EXCEPT ![p].pc = pc, ![p].read = s]
                 \/ f = [call EXCEPT ![p].pc = pc, ![p].wrote = n]
          PROVE  f = [call EXCEPT ![p] = f[p]] /\ f[p].pc \in {"write", "advance", "append"}
      <4>1. CASE f = [call EXCEPT ![p].pc = pc, ![p].read = s]
        BY <1>0, <4>1 DEF Request
      <4>2. CASE f = [call EXCEPT ![p].pc = pc, ![p].wrote = n]
        BY <1>0, <4>2 DEF Request
      <4> QED
        BY <3>1, <4>1, <4>2
    <3>2. (IF call[p].kind = "reset" THEN "advance" ELSE "append") \in {"write", "advance", "append"}
      OBVIOUS
    <3> QED
      BY <1>0, <2>2, <3>1, <3>2
  <2> QED
    BY <1>0, <1>1, <1>2, <2>1, <2>3
<1>4. CASE Advance(p)
  <2>1. UNCHANGED events /\ call[p].pc # "idle"
    BY <1>4 DEF Advance
  <2>2. \/ Leave(p) /\ UNCHANGED session
        \/ /\ session' = [session EXCEPT !.gen = @ + 1, !.version = @ + 1]
           /\ call' = [call EXCEPT ![p].pc = "append", ![p].gen = session.gen + 1]
    BY <1>4 DEF Advance
  <2>3. \/ Leave(p) /\ UNCHANGED session
        \/ /\ session'.state = session.state
           /\ call' = [call EXCEPT ![p] = call'[p]]
           /\ call'[p].pc = "append"
    <3>1. CASE session' = [session EXCEPT !.gen = @ + 1, !.version = @ + 1]
               /\ call' = [call EXCEPT ![p].pc = "append", ![p].gen = session.gen + 1]
      <4>1. session'.state = session.state
        BY <1>0, <3>1 DEF Session
      <4>2. call' = [call EXCEPT ![p] = call'[p]] /\ call'[p].pc = "append"
        BY <1>0, <3>1 DEF Request
      <4> QED
        BY <4>1, <4>2
    <3> QED
      BY <2>2, <3>1
  <2> QED
    BY <1>0, <1>1, <1>2, <2>1, <2>3
<1>5. CASE AppendMarker(p) /\ session.state = "active"
  <2> DEFINE e == [type |-> IF call[p].kind = "reset" THEN "context_reset" ELSE "session_closed",
                   gen |-> session.gen, id |-> None, says |-> None]
  <2>1. /\ events' = Append(events, e)
        /\ session' = [session EXCEPT !.version = @ + 1]
        /\ call' = [call EXCEPT ![p].pc = IF call[p].kind = "reset" THEN "copy" ELSE "close"]
    BY <1>5 DEF AppendMarker, AppendEvent, Goto
  <2>2. e.says = None
    OBVIOUS
  <2> HIDE DEF e
  <2>3. /\ session'.state = session.state
        /\ call' = [call EXCEPT ![p] = call'[p]]
        /\ call'[p].pc \in {"copy", "close"}
    BY <1>0, <2>1 DEF Session
  <2>4. CallsKept
    BY <1>0, <1>5, <2>3, CallMovesOn
  <2>5. OnlyAsked'
    BY <1>0, <2>1, <2>2, OnlyAskedKept
  <2>6. EventsKept
    BY <1>5, <2>1, <2>3 DEF EventsKept
  <2> QED
    BY <2>4, <2>5, <2>6
<1>6. CASE CloseSession(p)
  <2> DEFINE r == [Quiet EXCEPT !.pc = "distil", !.kind = "close"]
  <2>1. r.pc = "distil" /\ r.kind = "close"
    BY DEF Quiet
  <2>2. call' = [call EXCEPT ![p] = r] /\ UNCHANGED events /\ call[p].pc # "idle"
        /\ session' = IF session.state = "active"
                      THEN [session EXCEPT !.state = "closed", !.version = @ + 1] ELSE session
    BY <1>6 DEF CloseSession
  <2> HIDE DEF r
  <2>3. session'.state = "closed"
    <3>1. CASE session.state = "active"
      BY <1>0, <2>2, <3>1 DEF Session
    <3>2. CASE session.state # "active"
      BY <1>0, <2>2, <3>2 DEF Session
    <3> QED
      BY <3>1, <3>2
  <2>4. CallsKept
    BY <1>0, <2>1, <2>2, <2>3, CallKept
  <2> QED
    BY <1>0, <2>2, <2>3, <2>4, OnlyAskedKept DEF EventsKept
<1> QED
  BY <1>1, <1>3, <1>4, <1>5, <1>6
  DEF SessionStep, AppendMarker, CopyCheckpoint, CrashCall

LEMMA BeginKeeps ==
  ASSUME SessionInv, SessionInv', DistilInv, NEW p \in Calls,
         NEW kind \in {"compact", "reset", "close"}, Begin(p, kind), UNCHANGED focus
  PROVE  EventsKept /\ CallsKept /\ OnlyAsked'
<1> DEFINE r == [Quiet EXCEPT !.pc = "read", !.kind = kind, !.gen = session.gen,
                              !.version = session.version]
<1>1. call' = [call EXCEPT ![p] = r] /\ session.state # "absent" /\ UNCHANGED <<session, events>>
  BY DEF Begin
<1>2. r.pc = "read"
  BY DEF Quiet
<1> HIDE DEF r
<1> QED
  BY <1>1, <1>2, CallKept, OnlyAskedKept DEF EventsKept, DistilInv

LEMMA SaidKeeps ==
  ASSUME SessionInv, SessionInv', DistilInv, NEW says \in Contents \cup {None}, UserSays(says),
         UNCHANGED focus
  PROVE  EventsKept /\ CallsKept /\ OnlyAsked'
<1> DEFINE e == [type |-> "user_message", gen |-> session.gen, id |-> None, says |-> says]
<1>1. /\ events' = Append(events, e) /\ session' = [session EXCEPT !.version = @ + 1]
      /\ session.state = "active" /\ Len(events) < MaxEvents /\ UNCHANGED call
  BY DEF UserSays, AppendEvent
<1>2. e.type = "user_message" /\ (e.says \in Contents \/ e.says = None)
  OBVIOUS
<1> HIDE DEF e
<1>3. session'.state = "active"
  BY <1>1, SessionParts DEF SessionInv, Session
<1>4. OnlyAsked'
  BY <1>1, <1>2, OnlyAskedKept DEF DistilInv
<1> QED
  BY <1>1, <1>3, <1>4 DEF EventsKept, CallsKept

LEMMA DuringSessionDistil ==
  ASSUME SessionInv, DistilInv, DuringSession, UNCHANGED focus
  PROVE  DistilInv'
<1>0. SessionInv' /\ UNCHANGED op /\ Rows' = Rows /\ OnlyAsked /\ session \in Session
  BY DuringSessionInv DEF DuringSession, memoryVars, Rows, DistilInv, SessionInv, SessionTyped
<1>1. ASSUME NEW auto \in BOOLEAN, CreateSession(auto) \/ SetAutoMemory(auto)
      PROVE  DistilInv'
  <2>1. /\ \/ session' = [session EXCEPT !.state = "active", !.auto = auto]
           \/ session' = [session EXCEPT !.auto = auto, !.version = @ + 1]
        /\ UNCHANGED <<events, checkpoints, call>>
        /\ session.state # "closed"
    BY <1>1 DEF CreateSession, SetAutoMemory
  <2>2. session'.state = "active" \/ session'.state = session.state
    BY <1>0, <2>1 DEF Session
  <2>3. EventsKept /\ CallsKept /\ OnlyAsked'
    BY <1>0, <2>1, <2>2, OnlyAskedKept DEF EventsKept, CallsKept
  <2> QED
    BY <1>0, <2>3, DistilKept
<1>2. CASE UserSays(None)
  BY <1>0, <1>2, SaidKeeps, DistilKept
<1> QED
  BY <1>0, <1>1, <1>2, BeginKeeps, SessionStepKeeps, DistilKept DEF DuringSession

(* A distillation that reads what was asked. *)
LEMMA CandidatesRead ==
  ASSUME MemoryInv, MemoryTyped, SessionInv, DistilInv, focus = "distil", UNCHANGED focus,
         NEW p \in Calls, ReadCandidates(p)
  PROVE  MemoryTyped' /\ DistilInv'
<1>1. /\ UNCHANGED <<session, events, memory, replaces, expiry>> /\ call[p].pc = "distil"
      /\ op' = [op EXCEPT ![p] = Idle] /\ op = [q \in Calls |-> op[q]]
      /\ call \in [Calls -> Request] /\ call[p] \in Request
      /\ call' = [call EXCEPT ![p].pc = "create", ![p].auto = session.auto, ![p].todo = Candidates]
  BY DEF ReadCandidates, SessionInv, SessionTyped, MemoryInv, OpsOK
<1>2. MemoryTyped'
  BY <1>1, IdleTyped, OpTyped
<1>3. /\ call'[p].pc = "create" /\ call'[p].todo = Candidates /\ call'[p].kind = call[p].kind
      /\ \A q \in Calls : q # p => call'[q] = call[q] /\ op'[q] = op[q]
  BY <1>1 DEF Request
<1>4. /\ \A i : Asked(i)' <=> Asked(i)
      /\ \A q \in Calls : \A c : q # p => (Filed(q, c)' <=> Filed(q, c))
      /\ Numbers' = Numbers /\ Rows' = Rows
  BY <1>1, <1>3 DEF Asked, Filed, Numbers, Rows
<1>5. \A i \in Numbers : i \in Candidates <=> Asked(i)
  BY MemoryAssumption DEF DistilInv, OnlyAsked, Candidates, Asked
<1>6. OnlyAsked'
  BY <1>1, <1>4 DEF DistilInv, OnlyAsked
<1>7. ASSUME NEW q \in Calls, q # p PROVE Distilling(q)'
  BY <1>1, <1>3, <1>4, <1>7 DEF DistilInv, Distilling, Closing
<1>8. Distilling(p)'
  <2>1. Candidates \subseteq Numbers
    BY DEF Candidates
  <2> QED
    BY <1>1, <1>3, <1>4, <1>5, <2>1 DEF DistilInv, Distilling, Closing
<1> QED
  BY <1>2, <1>6, <1>7, <1>8 DEF DistilInv

(* What a call in the middle of a distillation has done. *)
LEMMA DistilNextKept ==
  ASSUME SessionInv, DistilInv, focus = "distil", UNCHANGED <<focus, session, events>>,
         NEW p \in Calls, call[p].pc = "create", Rows \subseteq Rows',
         \A q \in Calls : q # p => call'[q] = call[q] /\ op'[q] = op[q],
         Distilling(p)'
  PROVE  DistilInv'
<1>1. (\A i : Asked(i)' <=> Asked(i)) /\ Numbers' = Numbers
  BY DEF Asked, Numbers
<1>2. OnlyAsked'
  BY <1>1 DEF DistilInv, OnlyAsked
<1>3. ASSUME NEW q \in Calls, q # p PROVE Distilling(q)'
  <2>1. Distilling(q) /\ call'[q] = call[q] /\ op'[q] = op[q]
    BY <1>3 DEF DistilInv
  <2>2. \A c : Filed(q, c) => Filed(q, c)'
    BY <2>1 DEF Filed
  <2> QED
    BY <1>1, <2>1, <2>2 DEF Distilling, Closing
<1> QED
  BY <1>2, <1>3 DEF DistilInv

LEMMA DistilNextInv ==
  ASSUME MemoryInv, MemoryTyped, SessionInv, DistilInv, focus = "distil", UNCHANGED focus,
         NEW p \in Calls, DistilNext(p)
  PROVE  MemoryTyped' /\ DistilInv'
<1>0. /\ UNCHANGED <<session, events>> /\ call[p].pc = "create" /\ Distilling(p)
      /\ call \in [Calls -> Request] /\ call[p] \in Request /\ op = [q \in Calls |-> op[q]]
      /\ \A i \in Numbers : Asked(i) => events[i].says \in Contents
      /\ (\A i : Asked(i)' <=> Asked(i)) /\ Numbers' = Numbers
  BY DEF DistilNext, SessionInv, SessionTyped, DistilInv, MemoryInv, OpsOK, Asked, Numbers
<1>1. CASE InsertMemory(p) /\ UNCHANGED call
  <2>1. /\ MemoryTyped' /\ Rows \subseteq Rows' /\ op' = [op EXCEPT ![p] = op'[p]]
        /\ op'[p].pc \in {"raised", "link"} \/ op[p].content \in Rows'
        /\ op[p].pc = "insert"
    BY <1>1, InsertTyped DEF InsertMemory
  <2>2. \A c : Filed(p, c) => Filed(p, c)'
    BY <2>1 DEF Filed
  <2>3. Distilling(p)'
    BY <1>0, <1>1, <2>1, <2>2 DEF Distilling, Closing
  <2> QED
    BY <1>0, <1>1, <2>1, <2>3, DistilNextKept
<1>2. CASE Leave(p) /\ UNCHANGED memoryVars
  <2>1. /\ call'[p] = Quiet /\ \A q \in Calls : q # p => call'[q] = call[q]
        /\ UNCHANGED <<memory, op>> /\ Rows \subseteq Rows'
    BY <1>0, <1>2 DEF Leave, memoryVars, Rows
  <2>2. Distilling(p)'
    BY <2>1, QuietKept DEF Distilling, Closing, Quiet
  <2>3. MemoryTyped'
    BY <1>2 DEF MemoryTyped, MemoryTypeOK, memoryVars, Rows
  <2> QED
    BY <1>0, <2>1, <2>2, <2>3, DistilNextKept
<1>3. CASE /\ Free(p) /\ ~Escapes(p) /\ call[p].todo = {}
           /\ call' = [call EXCEPT ![p] = IF @.kind = "close" THEN [Quiet EXCEPT !.pc = "done"] ELSE Quiet]
           /\ UNCHANGED memoryVars
  <2>1. /\ \A q \in Calls : q # p => call'[q] = call[q]
        /\ UNCHANGED <<memory, op>> /\ Rows = Rows'
    BY <1>0, <1>3 DEF memoryVars, Rows
  <2>2. Distilling(p)'
    <3>1. CASE call[p].kind # "close"
      <4>1. call'[p] = Quiet
        BY <1>0, <1>3, <3>1
      <4> QED
        BY <4>1, QuietKept DEF Distilling, Closing, Quiet
    <3>2. CASE call[p].kind = "close"
      <4>1. call'[p] = [Quiet EXCEPT !.pc = "done"]
        BY <1>0, <1>3, <3>2
      <4>2. call'[p].pc = "done"
        BY <4>1 DEF Quiet
      <4>3. op[p].pc = "idle"
        BY <1>3 DEF Free, Escapes
      <4>4. \A i \in Numbers : Asked(i) => events[i].says \in Rows
        BY <1>0, <1>3, <3>2, <4>3 DEF Distilling, Filed
      <4> QED
        BY <1>0, <2>1, <3>2, <4>2, <4>4 DEF Distilling, Closing
    <3> QED
      BY <3>1, <3>2
  <2>3. MemoryTyped'
    BY <1>3 DEF MemoryTyped, MemoryTypeOK, memoryVars, Rows
  <2> QED
    BY <1>0, <2>1, <2>2, <2>3, DistilNextKept
<1>4. ASSUME Free(p), ~Escapes(p), NEW i \in call[p].todo,
             NEW label \in {"prohibited", "low"},
             CreateGoverned(p, Owner, events[i].says, "personal", Preference, label, {i}, call[p].auto),
             call' = [call EXCEPT ![p].todo = @ \ {i}]
      PROVE  MemoryTyped' /\ DistilInv'
  <2> DEFINE c == events[i].says
  <2>1. i \in Numbers /\ Asked(i) /\ c \in Contents
    BY <1>0, <1>4 DEF Distilling
  <2>2. /\ UNCHANGED <<memory, replaces, expiry>>
        /\ ReadClaim(p, Owner, c, "personal", Preference, label, {i}, call[p].auto, None)
    BY <1>4 DEF CreateGoverned
  <2>3. i \in Events
    <3>1. i \in 1..MaxEvents
      BY <2>1, SessionParts DEF SessionInv, Asked
    <3> QED
      BY <3>1, ContextAssumption
  <2> HIDE DEF c
  <2>4. MemoryTyped'
    BY <2>1, <2>2, <2>3, ReadClaimTyped, ContextAssumption DEF Labels
  <2>5. Rows' = Rows
    BY <2>2 DEF Rows
  <2>6. /\ \A q \in Calls : q # p => call'[q] = call[q] /\ op'[q] = op[q]
        /\ c \in Rows \/ (op'[p].pc = "insert" /\ op'[p].content = c)
    <3> DEFINE new == [status |-> PolicyStatus(label, "personal", call[p].auto), scope |-> "personal",
                       owner |-> Owner, claim |-> Preference, label |-> label, until |-> "never",
                       sources |-> {i}]
               fresh == [pc |-> "insert", content |-> c, row |-> new, old |-> None]
               conflicting == [fresh EXCEPT !.row.status = "conflicted"]
    <3>1. op' = [op EXCEPT ![p] =
                   IF c \in Rivals(new) THEN Idle
                   ELSE IF Rivals(new) # {} THEN conflicting
                   ELSE fresh]
      BY <2>2 DEF ReadClaim
    <3>2. /\ fresh.pc = "insert" /\ fresh.content = c
          /\ conflicting.pc = "insert" /\ conflicting.content = c
      OBVIOUS
    <3> HIDE DEF new, fresh, conflicting
    <3>3. Rivals(new) \subseteq Rows
      BY DEF Rivals
    <3> QED
      BY <1>0, <1>4, <3>1, <3>2, <3>3
  <2>7. /\ call'[p].pc = "create" /\ call'[p].kind = call[p].kind
        /\ call'[p].todo = call[p].todo \ {i}
    BY <1>0, <1>4 DEF Request
  <2>8. \A d : Filed(p, d) => Filed(p, d)'
    <3>1. op[p].pc = "idle"
      BY <1>4 DEF Free, Escapes
    <3> QED
      BY <2>5, <3>1 DEF Filed
  <2>9. \A d : d = c => Filed(p, d)'
    BY <2>5, <2>6 DEF Filed
  <2>10. Distilling(p)'
    BY <1>0, <2>7, <2>8, <2>9 DEF Distilling, Closing, c
  <2> QED
    BY <1>0, <2>4, <2>5, <2>6, <2>10, DistilNextKept
<1> QED
  BY <1>1, <1>2, <1>3, <1>4 DEF DistilNext

LEMMA ACallIsOne == ACall \in Calls
  BY ContextAssumption DEF ACall

LEMMA DuringDistilKeeps ==
  ASSUME MemoryInv, MemoryTyped, SessionInv, DistilInv, focus = "distil", UNCHANGED focus,
         DuringDistil
  PROVE  MemoryTyped' /\ DistilInv'
<1>0. SessionInv'
  BY DuringDistilInv
<1>1. CASE UNCHANGED memoryVars
  <2>1. MemoryTyped' /\ UNCHANGED op /\ Rows \subseteq Rows'
    BY <1>1 DEF MemoryTyped, MemoryTypeOK, memoryVars, Rows
  <2>2. ASSUME NEW c \in Contents, UserSays(c) PROVE DistilInv'
    BY <1>0, <2>1, <2>2, SaidKeeps, DistilKept
  <2>3. ASSUME NEW p \in Calls, SessionStep(p) \/ Begin(p, "close") PROVE DistilInv'
    BY <1>0, <2>1, <2>3, BeginKeeps, SessionStepKeeps, DistilKept
  <2>4. CASE BeginDistil(ACall)
    <3> DEFINE r == [Quiet EXCEPT !.pc = "distil", !.kind = "distil"]
    <3>1. r.pc = "distil" /\ r.kind = "distil"
      BY DEF Quiet
    <3>2. /\ call' = [call EXCEPT ![ACall] = r] /\ UNCHANGED <<session, events>>
          /\ session.state # "absent"
      BY <2>4 DEF BeginDistil
    <3> HIDE DEF r
    <3>3. EventsKept /\ CallsKept /\ OnlyAsked'
      BY <1>0, <3>1, <3>2, CallKept, OnlyAskedKept DEF EventsKept, DistilInv
    <3> QED
      BY <1>0, <2>1, <3>3, DistilKept
  <2>5. ASSUME NEW p \in Calls, Distil(p) PROVE MemoryTyped' /\ DistilInv'
    BY <2>5, CandidatesRead, DistilNextInv DEF Distil
  <2>6. ASSUME NEW c \in Contents, UNCHANGED contextVars PROVE DistilInv'
    <3>1. EventsKept /\ CallsKept
      BY <2>6 DEF contextVars, EventsKept, CallsKept
    <3>2. OnlyAsked'
      BY <1>0, <2>6, OnlyAskedKept DEF contextVars, DistilInv
    <3> QED
      BY <1>0, <2>1, <3>1, <3>2, DistilKept
  <2> QED
    BY <2>1, <2>2, <2>3, <2>4, <2>5, <2>6 DEF DuringDistil
<1>2. ASSUME NEW p \in Calls, Distil(p) PROVE MemoryTyped' /\ DistilInv'
  BY <1>2, CandidatesRead, DistilNextInv DEF Distil
<1>3. ASSUME NEW c \in Contents, Delete(Owner, c), UNCHANGED contextVars
      PROVE  MemoryTyped' /\ DistilInv'
  <2>1. MemoryTyped' /\ Rows \subseteq Rows' /\ UNCHANGED op
    BY <1>3, DecideTyped, ContextAssumption DEF Decide, Delete
  <2>2. EventsKept /\ CallsKept
    BY <1>3 DEF contextVars, EventsKept, CallsKept
  <2>3. OnlyAsked'
    BY <1>0, <1>3, OnlyAskedKept DEF contextVars, DistilInv
  <2> QED
    BY <1>0, <2>1, <2>2, <2>3, DistilKept
<1> QED
  BY <1>1, <1>2, <1>3 DEF DuringDistil
-----------------------------------------------------------------------------
(* The chat request: types first. *)
Stages ==
  {"idle", "claim", "receipt", "task", "session", "user", "context", "save", "create", "run",
   "running", "respond", "assistant", "feedback", "return", "answered"}

TaskState == {"none", "queued", "evidence_pending", "succeeded", "failed"}

Task == [state : TaskState, ctx : Context \cup {None}, answer : Answers \cup {None},
         runner : Deliveries \cup {None}]

Delivery == [pc : Stages, seen : TaskState, ctx : Context \cup {None}, gen : Nat,
             answer : Answers \cup {None}, began : SUBSET Documents]

Receipt == [ctx : Context \cup {None}]

ChatTyped ==
  /\ receipt \in {None} \cup Receipt
  /\ lock \in Deliveries \cup {None}
  /\ task \in Task
  /\ ready \subseteq Documents
  /\ feedback \in {None} \cup [answer : Answers, ctx : Context]
  /\ delivery \in [Deliveries -> Delivery]

Bound == receipt # None /\ receipt.ctx # None

HasAnswer == task.state \in {"evidence_pending", "succeeded"}

(* The task works with the context the receipt is bound to.                *)
TaskInv ==
  /\ task.state # "none" => Bound /\ task.ctx = receipt.ctx
  /\ HasAnswer => task.answer \in Answers

(* The log has each event of the request once, the answer after the question. *)
LogInv ==
  /\ \A i, j \in EventOf("user") : i = j
  /\ \A i, j \in EventOf("assistant") : i = j
  /\ \A j \in EventOf("assistant") :
       /\ task.state = "succeeded" /\ events[j].says = task.answer
       /\ \E i \in EventOf("user") : i < j

Asking == {"context", "save", "create", "run", "running", "respond"}
Answering == {"assistant", "feedback", "return", "answered"}

(* What each stage of a delivery has found or done.                        *)
Suits(d, r) ==
  /\ ready \subseteq r.began
  /\ r.pc \notin {"idle", "claim"} => receipt # None
  /\ r.pc \in {"task", "session", "user", "context"} => r.ctx \in {None, receipt.ctx}
  /\ r.pc = "save" => r.ctx # None
  /\ r.pc \in {"create", "run", "running", "respond"} \cup Answering => Bound /\ r.ctx = receipt.ctx
  /\ r.pc \notin {"idle", "claim", "receipt", "task"} /\ r.seen = "none" /\ HasAnswer =>
       task.ctx.docs \subseteq r.began
  /\ r.pc \in Asking \cup Answering => EventOf("user") # {}
  /\ r.pc = "running" => task.state = "queued" /\ task.runner = d
  /\ r.pc \in Answering =>
       task.state = "succeeded" /\ r.answer = task.answer /\ task.ctx.docs \subseteq r.began
  /\ r.pc \in {"feedback", "return", "answered"} => EventOf("assistant") # {}
  /\ r.pc \in {"return", "answered"} => feedback = [answer |-> task.answer, ctx |-> task.ctx]

ChatInv == ChatTyped /\ TaskInv /\ LogInv /\ \A d \in Deliveries : Suits(d, delivery[d])

(* What has been decided about the request stays decided.                  *)
Grows ==
  /\ receipt # None => receipt' # None
  /\ Bound => Bound' /\ receipt'.ctx = receipt.ctx
  /\ task.state = "succeeded" =>
       task'.state = "succeeded" /\ task'.answer = task.answer /\ task'.ctx = task.ctx
  /\ HasAnswer' => \/ HasAnswer /\ task'.ctx = task.ctx
                   \/ task'.ctx.docs \subseteq ready
  /\ ready' \subseteq ready
  /\ \A id \in {"user", "assistant"} : EventOf(id) # {} => EventOf(id)' # {}
  /\ feedback = [answer |-> task.answer, ctx |-> task.ctx] /\ task.state = "succeeded" =>
       feedback' = feedback

(* What a delivery knows of the request does not become wrong.             *)
LEMMA StillSuits ==
  ASSUME Grows, NEW d, NEW r \in Delivery, Suits(d, r), receipt \in {None} \cup Receipt,
         r.pc = "running" => task'.state = "queued" /\ task'.runner = d
  PROVE  Suits(d, r)'
<1>1. /\ ready' \subseteq r.began
      /\ r.pc \notin {"idle", "claim"} => receipt' # None
      /\ r.pc = "save" => r.ctx # None
      /\ r.pc \in {"create", "run", "running", "respond"} \cup Answering =>
           Bound' /\ r.ctx = receipt'.ctx
      /\ r.pc \in Asking \cup Answering => EventOf("user")' # {}
      /\ r.pc \in {"feedback", "return", "answered"} => EventOf("assistant")' # {}
  BY DEF Suits, Grows
<1>2. r.pc \in {"task", "session", "user", "context"} => r.ctx \in {None, receipt'.ctx}
  BY DEF Suits, Grows, Bound
<1>3. r.pc \notin {"idle", "claim", "receipt", "task"} /\ r.seen = "none" /\ HasAnswer' =>
        task'.ctx.docs \subseteq r.began
  BY DEF Suits, Grows
<1>4. r.pc \in Answering =>
        task'.state = "succeeded" /\ r.answer = task'.answer /\ task'.ctx.docs \subseteq r.began
  BY DEF Suits, Grows
<1>5. r.pc \in {"return", "answered"} => feedback' = [answer |-> task'.answer, ctx |-> task'.ctx]
  BY DEF Suits, Grows, Answering
<1> QED
  BY <1>1, <1>2, <1>3, <1>4, <1>5 DEF Suits

(* One delivery moves; it is enough to show what it has found or done.     *)
LEMMA DeliveryMoves ==
  ASSUME ChatInv, NEW d \in Deliveries, Grows, (ChatTyped /\ TaskInv /\ LogInv)',
         \A e \in Deliveries : e # d => delivery'[e] = delivery[e],
         UNCHANGED task \/ task.state # "queued" \/ task.runner \in {None, d},
         NEW r, delivery'[d] = r, Suits(d, r)'
  PROVE  ChatInv'
<1>1. ASSUME NEW e \in Deliveries, e # d PROVE \A q : q = delivery[e] => Suits(e, q)'
  <2> SUFFICES ASSUME NEW q, q = delivery[e] PROVE Suits(e, q)'
    OBVIOUS
  <2>1. /\ q \in Delivery /\ Suits(e, q) /\ receipt \in {None} \cup Receipt
        /\ None \notin Deliveries
    BY ChatAssumption DEF ChatInv, ChatTyped
  <2>2. q.pc = "running" => task'.state = "queued" /\ task'.runner = e
    BY <1>1, <2>1 DEF Suits
  <2> QED
    BY <2>1, <2>2, StillSuits
<1>2. ASSUME NEW e \in Deliveries PROVE \A q : q = delivery'[e] => Suits(e, q)'
  BY <1>1
<1> QED
  BY <1>2 DEF ChatInv, Suits

LEMMA NobodyMoves ==
  ASSUME ChatInv, Grows, (ChatTyped /\ TaskInv /\ LogInv)', UNCHANGED delivery,
         UNCHANGED task \/ task.state # "queued"
  PROVE  ChatInv'
<1>1. ASSUME NEW e \in Deliveries PROVE \A q : q = delivery[e] => Suits(e, q)'
  <2> SUFFICES ASSUME NEW q, q = delivery[e] PROVE Suits(e, q)'
    OBVIOUS
  <2>1. q \in Delivery /\ Suits(e, q) /\ receipt \in {None} \cup Receipt
    BY DEF ChatInv, ChatTyped
  <2>2. q.pc = "running" => task'.state = "queued" /\ task'.runner = e
    BY <2>1 DEF Suits
  <2> QED
    BY <2>1, <2>2, StillSuits
<1>2. ASSUME NEW e \in Deliveries PROVE \A q : q = delivery'[e] => Suits(e, q)'
  BY <1>1
<1> QED
  BY <1>2 DEF ChatInv, Suits

(* Most steps change neither the request's task, its log nor its feedback. *)
LEMMA SameRequest ==
  ASSUME ChatInv, UNCHANGED <<task, feedback, events>>, ready' \subseteq ready,
         UNCHANGED receipt \/ (~Bound /\ receipt' # None)
  PROVE  Grows /\ (TaskInv /\ LogInv)'
<1>1. \A id : EventOf(id)' = EventOf(id)
  BY DEF EventOf, Numbers
<1>2. Grows
  BY <1>1 DEF Grows, Bound, HasAnswer
<1>3. TaskInv'
  BY DEF ChatInv, TaskInv, Bound, HasAnswer
<1>4. LogInv'
  BY <1>1 DEF ChatInv, LogInv
<1> QED
  BY <1>2, <1>3, <1>4

LEMMA Refused ==
  ASSUME ChatTyped, NEW d \in Deliveries, Refuse(d), ready' \subseteq Documents
  PROVE  /\ delivery' \in [Deliveries -> Delivery] /\ lock' \in Deliveries \cup {None}
         /\ \A e \in Deliveries : e # d => delivery'[e] = delivery[e]
         /\ delivery'[d] = Unsent /\ Suits(d, Unsent)'
<1>1. Unsent \in Delivery /\ Unsent.pc = "idle" /\ Unsent.began = Documents
  BY DEF Unsent, Delivery, Stages, TaskState
<1>2. Suits(d, Unsent)'
  BY <1>1 DEF Suits, Asking, Answering
<1> QED
  BY <1>1, <1>2 DEF Refuse, ChatTyped

(* A delivery that leaves or goes on, when nothing else of the request changes. *)
LEMMA RefusedFits ==
  ASSUME ChatInv, NEW d \in Deliveries, Refuse(d), UNCHANGED <<receipt, task, ready, feedback, events>>
  PROVE  ChatInv'
<1>1. Grows /\ (TaskInv /\ LogInv)' /\ ready' \subseteq Documents
  BY SameRequest DEF ChatInv, ChatTyped
<1>2. ChatTyped'
  BY <1>1, Refused DEF ChatInv, ChatTyped
<1> QED
  BY <1>1, <1>2, Refused, DeliveryMoves DEF ChatInv

LEMMA Moves ==
  ASSUME ChatInv, NEW d \in Deliveries, NEW r \in Delivery, delivery' = [delivery EXCEPT ![d] = r],
         UNCHANGED <<task, feedback, events>>, ready' \subseteq ready,
         UNCHANGED receipt \/ (~Bound /\ receipt' # None),
         receipt' \in {None} \cup Receipt, lock' \in Deliveries \cup {None},
         Suits(d, r)'
  PROVE  ChatInv'
<1>1. Grows /\ (TaskInv /\ LogInv)'
  BY SameRequest
<1>2. /\ delivery' \in [Deliveries -> Delivery] /\ delivery'[d] = r
      /\ \A e \in Deliveries : e # d => delivery'[e] = delivery[e]
  BY DEF ChatInv, ChatTyped
<1>3. ChatTyped'
  BY <1>2 DEF ChatInv, ChatTyped
<1> QED
  BY <1>1, <1>2, <1>3, DeliveryMoves

LEMMA DeliveryType ==
  ChatInv => /\ delivery \in [Deliveries -> Delivery]
             /\ \A d \in Deliveries : delivery[d] \in Delivery /\ Suits(d, delivery[d])
             /\ receipt \in {None} \cup Receipt /\ lock \in Deliveries \cup {None}
             /\ task \in Task /\ ready \subseteq Documents
  BY DEF ChatInv, ChatTyped

(* What stays of a delivery that goes on to another stage.                 *)
LEMMA NextStage ==
  ASSUME NEW r \in Delivery, NEW pc \in Stages
  PROVE  \E s \in Delivery : /\ s = [r EXCEPT !.pc = pc]
                             /\ s.pc = pc /\ s.seen = r.seen /\ s.ctx = r.ctx /\ s.gen = r.gen
                             /\ s.answer = r.answer /\ s.began = r.began
<1> DEFINE s == [r EXCEPT !.pc = pc]
<1>1. /\ s \in Delivery /\ s.pc = pc /\ s.seen = r.seen /\ s.ctx = r.ctx /\ s.gen = r.gen
      /\ s.answer = r.answer /\ s.began = r.began
  BY DEF Delivery
<1> HIDE DEF s
<1>2. s = [r EXCEPT !.pc = pc]
  BY DEF s
<1> QED
  BY <1>1, <1>2

LEMMA SendFits ==
  ASSUME ChatInv, NEW d \in Deliveries, Send(d)
  PROVE  ChatInv'
<1> DEFINE s == [Unsent EXCEPT !.pc = "claim", !.began = ready]
<1>1. /\ delivery' = [delivery EXCEPT ![d] = s]
      /\ UNCHANGED <<receipt, lock, task, ready, feedback, events>>
  BY DEF Send, contextVars
<1>2. s \in Delivery /\ s.pc = "claim" /\ s.began = ready
  BY DeliveryType DEF Unsent, Delivery, Stages, TaskState
<1> HIDE DEF s
<1>3. PICK r \in Delivery : r = s /\ r.pc = "claim" /\ r.began = ready
  BY <1>2
<1>4. Suits(d, r)'
  BY <1>1, <1>3 DEF Suits, Asking, Answering
<1>5. delivery' = [delivery EXCEPT ![d] = r]
  BY <1>1, <1>3
<1> QED
  BY <1>1, <1>4, <1>5, Moves, DeliveryType

LEMMA ClaimFits ==
  ASSUME ChatInv, NEW d \in Deliveries, Claim(d)
  PROVE  ChatInv'
<1>1. CASE Refuse(d) /\ UNCHANGED receipt
  BY <1>1, RefusedFits DEF Claim, contextVars
<1>2. CASE /\ lock' = d /\ Step(d, "receipt")
           /\ receipt' = IF receipt = None THEN [ctx |-> None] ELSE receipt
  <2>1. PICK r \in Delivery : /\ r = [delivery[d] EXCEPT !.pc = "receipt"]
                              /\ r.pc = "receipt" /\ r.began = delivery[d].began
    BY NextStage, DeliveryType DEF Stages
  <2>2. /\ delivery' = [delivery EXCEPT ![d] = r]
        /\ UNCHANGED <<task, ready, feedback, events>>
    BY <1>2, <2>1, DeliveryType DEF Step, Claim, contextVars
  <2>3. [ctx |-> None] \in Receipt /\ [ctx |-> None] # None
    BY NoneIsNoContext DEF Receipt
  <2>4. Suits(d, r)'
    BY <1>2, <2>1, <2>2, <2>3, DeliveryType DEF Suits, Asking, Answering
  <2> QED
    BY <1>2, <2>2, <2>3, <2>4, Moves, DeliveryType DEF Bound
<1> QED
  BY <1>1, <1>2 DEF Claim

LEMMA StepIs ==
  ASSUME ChatInv, NEW d \in Deliveries, NEW pc \in Stages, Step(d, pc)
  PROVE  \E r \in Delivery :
           /\ delivery' = [delivery EXCEPT ![d] = r]
           /\ r.pc = pc /\ r.seen = delivery[d].seen /\ r.ctx = delivery[d].ctx
           /\ r.answer = delivery[d].answer /\ r.began = delivery[d].began
<1>1. PICK r \in Delivery :
        /\ r = [delivery[d] EXCEPT !.pc = pc]
        /\ r.pc = pc /\ r.seen = delivery[d].seen /\ r.ctx = delivery[d].ctx
        /\ r.answer = delivery[d].answer /\ r.began = delivery[d].began
  BY NextStage, DeliveryType
<1>2. delivery' = [delivery EXCEPT ![d] = r]
  BY <1>1, DeliveryType DEF Step
<1> QED
  BY <1>1, <1>2

LEMMA ReceiptRead ==
  ASSUME ChatInv, NEW d \in Deliveries, ReadReceipt(d)
  PROVE  ChatInv'
<1> DEFINE s == [delivery[d] EXCEPT !.pc = "task", !.ctx = receipt.ctx]
<1>1. /\ delivery' = [delivery EXCEPT ![d] = s]
      /\ UNCHANGED <<receipt, lock, task, ready, feedback, events>>
      /\ receipt # None
  BY DeliveryType DEF ReadReceipt, contextVars, At, Suits
<1>2. receipt.ctx \in Context \cup {None} /\ delivery[d] \in Delivery
  BY <1>1, DeliveryType DEF Receipt
<1>3. s \in Delivery /\ s.pc = "task" /\ s.ctx = receipt.ctx /\ s.began = delivery[d].began
  BY <1>2 DEF Delivery, Stages
<1> HIDE DEF s
<1>4. PICK r \in Delivery : /\ r = s /\ r.pc = "task" /\ r.ctx = receipt.ctx
                            /\ r.began = delivery[d].began
  BY <1>3
<1>5. delivery' = [delivery EXCEPT ![d] = r]
  BY <1>1, <1>4
<1>6. Suits(d, r)'
  BY <1>1, <1>4, DeliveryType DEF Suits, Asking, Answering
<1> QED
  BY <1>1, <1>5, <1>6, Moves, DeliveryType

LEMMA TaskRead ==
  ASSUME ChatInv, NEW d \in Deliveries, ReadTask(d)
  PROVE  ChatInv'
<1> DEFINE s == [delivery[d] EXCEPT !.pc = "session", !.seen = task.state]
<1>1. /\ delivery' = [delivery EXCEPT ![d] = s]
      /\ UNCHANGED <<receipt, lock, task, ready, feedback, events>>
      /\ At(d, "task")
  BY DeliveryType DEF ReadTask, contextVars
<1>2. task.state \in TaskState /\ delivery[d] \in Delivery
  BY DeliveryType DEF Task
<1>3. /\ s \in Delivery /\ s.pc = "session" /\ s.seen = task.state
      /\ s.ctx = delivery[d].ctx /\ s.began = delivery[d].began
  BY <1>2 DEF Delivery, Stages
<1> HIDE DEF s
<1>4. PICK r \in Delivery : /\ r = s /\ r.pc = "session" /\ r.seen = task.state
                            /\ r.ctx = delivery[d].ctx /\ r.began = delivery[d].began
  BY <1>3
<1>5. delivery' = [delivery EXCEPT ![d] = r]
  BY <1>1, <1>4
<1>6. Suits(d, r)'
  BY <1>1, <1>4, DeliveryType DEF Suits, Asking, Answering, At, HasAnswer
<1> QED
  BY <1>1, <1>5, <1>6, Moves, DeliveryType

LEMMA SessionChecked ==
  ASSUME ChatInv, SessionInv, NEW d \in Deliveries, CheckSession(d)
  PROVE  ChatInv'
<1>1. CASE Refuse(d)
  BY <1>1, RefusedFits DEF CheckSession
<1>2. CASE delivery' = [delivery EXCEPT ![d].pc = "user", ![d].gen = session.gen] /\ UNCHANGED lock
  <2> DEFINE g == session.gen
             s == [delivery[d] EXCEPT !.pc = "user", !.gen = g]
  <2>1. /\ delivery' = [delivery EXCEPT ![d] = s]
        /\ UNCHANGED <<receipt, lock, task, ready, feedback, events>>
        /\ At(d, "session")
    BY <1>2, DeliveryType DEF CheckSession
  <2>2. g \in Nat /\ delivery[d] \in Delivery
    BY DeliveryType, SessionParts DEF SessionInv
  <2> HIDE DEF g
  <2>3. /\ s \in Delivery /\ s.pc = "user" /\ s.seen = delivery[d].seen
        /\ s.ctx = delivery[d].ctx /\ s.began = delivery[d].began
    BY <2>2 DEF Delivery, Stages
  <2> HIDE DEF s
  <2>4. PICK r \in Delivery : /\ r = s /\ r.pc = "user" /\ r.seen = delivery[d].seen
                              /\ r.ctx = delivery[d].ctx /\ r.began = delivery[d].began
    BY <2>3
  <2>5. delivery' = [delivery EXCEPT ![d] = r]
    BY <2>1, <2>4
  <2>6. Suits(d, r)'
    BY <2>1, <2>4, DeliveryType DEF Suits, Asking, Answering, At, HasAnswer, Bound
  <2> QED
    BY <2>1, <2>5, <2>6, Moves, DeliveryType
<1> QED
  BY <1>1, <1>2 DEF CheckSession

LEMMA ContextLoaded ==
  ASSUME ChatInv, NEW d \in Deliveries, LoadContext(d)
  PROVE  ChatInv'
<1>1. CASE Refuse(d)
  BY <1>1, RefusedFits DEF LoadContext, contextVars
<1>2. CASE Proceed(d, AfterContext(d))
  <2>1. PICK r \in Delivery :
           /\ delivery' = [delivery EXCEPT ![d] = r]
           /\ r.pc = AfterContext(d) /\ r.seen = delivery[d].seen /\ r.ctx = delivery[d].ctx
           /\ r.answer = delivery[d].answer /\ r.began = delivery[d].began
    BY <1>2, StepIs DEF Proceed, AfterContext, Stages
  <2>2. /\ UNCHANGED <<receipt, lock, task, ready, feedback, events>>
        /\ At(d, "context") /\ r.ctx # None /\ r.pc \in {"create", "run"}
    BY <1>2, <2>1 DEF LoadContext, Proceed, contextVars, AfterContext
  <2>3. EventOf("user")' = EventOf("user")
    BY <2>2 DEF EventOf, Numbers
  <2>4. Suits(d, r)'
    BY <2>1, <2>2, <2>3, DeliveryType DEF Suits, Asking, Answering, At, HasAnswer, Bound
  <2> QED
    BY <2>1, <2>2, <2>4, Moves, DeliveryType
<1> QED
  BY <1>1, <1>2 DEF LoadContext

LEMMA ContextBuilt ==
  ASSUME ChatInv, NEW d \in Deliveries, BuildContext(d)
  PROVE  ChatInv'
<1>1. PICK docs \in SUBSET ready :
        delivery' = [delivery EXCEPT ![d].pc = "save", ![d].ctx = [docs |-> docs, by |-> d]]
  BY DEF BuildContext
<1>2. /\ UNCHANGED <<receipt, lock, task, ready, feedback, events>> /\ At(d, "context")
  BY DEF BuildContext, contextVars
<1> DEFINE c == [docs |-> docs, by |-> d]
<1>3. c \in Context /\ c # None /\ delivery[d] \in Delivery
  BY DeliveryType, NoneIsNoContext DEF Context
<1> HIDE DEF c
<1> DEFINE s == [delivery[d] EXCEPT !.pc = "save", !.ctx = c]
<1>4. /\ s \in Delivery /\ s.pc = "save" /\ s.seen = delivery[d].seen
      /\ s.ctx = c /\ s.began = delivery[d].began
  BY <1>3 DEF Delivery, Stages
<1>5. delivery' = [delivery EXCEPT ![d] = s]
  BY <1>1, DeliveryType DEF c
<1> HIDE DEF s
<1>6. PICK r \in Delivery : /\ r = s /\ r.pc = "save" /\ r.seen = delivery[d].seen
                            /\ r.ctx = c /\ r.began = delivery[d].began
  BY <1>4
<1>7. delivery' = [delivery EXCEPT ![d] = r]
  BY <1>5, <1>6
<1>8. EventOf("user")' = EventOf("user")
  BY <1>2 DEF EventOf, Numbers
<1>9. Suits(d, r)'
  BY <1>2, <1>3, <1>6, <1>8, DeliveryType DEF Suits, Asking, Answering, At, HasAnswer, Bound
<1> QED
  BY <1>2, <1>7, <1>9, Moves, DeliveryType

LEMMA ContextSaved ==
  ASSUME ChatInv, NEW d \in Deliveries, SaveContext(d)
  PROVE  ChatInv'
<1>1. CASE Refuse(d) /\ UNCHANGED receipt
  BY <1>1, RefusedFits DEF SaveContext, contextVars
<1>2. CASE /\ receipt.ctx = None /\ receipt' = [receipt EXCEPT !.ctx = delivery[d].ctx]
           /\ Proceed(d, AfterContext(d))
  <2>1. PICK r \in Delivery :
           /\ delivery' = [delivery EXCEPT ![d] = r]
           /\ r.pc = AfterContext(d) /\ r.seen = delivery[d].seen /\ r.ctx = delivery[d].ctx
           /\ r.answer = delivery[d].answer /\ r.began = delivery[d].began
    BY <1>2, StepIs DEF Proceed, AfterContext, Stages
  <2>2. /\ UNCHANGED <<lock, task, ready, feedback, events>>
        /\ At(d, "save") /\ r.pc \in {"create", "run"}
    BY <1>2, <2>1 DEF SaveContext, Proceed, contextVars, AfterContext
  <2>3. EventOf("user")' = EventOf("user")
    BY <2>2 DEF EventOf, Numbers
  <2>4. receipt \in Receipt /\ r.ctx \in Context /\ r.ctx # None
    BY <2>1, <2>2, DeliveryType DEF Suits, At, Delivery
  <2>5. receipt' \in Receipt /\ receipt' # None /\ receipt'.ctx = r.ctx /\ ~Bound
    BY <1>2, <2>1, <2>4, NoneIsNoContext DEF Receipt, Bound
  <2>6. Suits(d, r)'
    BY <2>1, <2>2, <2>3, <2>4, <2>5, DeliveryType DEF Suits, Asking, Answering, At, HasAnswer, Bound
  <2> QED
    BY <2>1, <2>2, <2>5, <2>6, Moves, DeliveryType
<1> QED
  BY <1>1, <1>2 DEF SaveContext

(* Nothing has been answered before the task has.                          *)
LEMMA NoAnswerYet ==
  ASSUME ChatInv, task.state # "succeeded"
  PROVE  EventOf("assistant") = {}
  BY DEF ChatInv, LogInv

LEMMA LogAsBefore ==
  ASSUME ChatInv, task.state # "succeeded", UNCHANGED events
  PROVE  LogInv'
<1>1. \A id : EventOf(id)' = EventOf(id)
  BY DEF EventOf, Numbers
<1> QED
  BY <1>1, NoAnswerYet DEF ChatInv, LogInv

LEMMA TaskCreated ==
  ASSUME ChatInv, NEW d \in Deliveries, CreateTask(d)
  PROVE  ChatInv'
<1>1. CASE Refuse(d) /\ UNCHANGED task
  BY <1>1, RefusedFits DEF CreateTask, contextVars
<1>2. CASE /\ task.state = "none"
           /\ task' = [NoTask EXCEPT !.state = "queued", !.ctx = delivery[d].ctx]
           /\ Proceed(d, "run")
  <2>1. PICK r \in Delivery :
           /\ delivery' = [delivery EXCEPT ![d] = r]
           /\ r.pc = "run" /\ r.seen = delivery[d].seen /\ r.ctx = delivery[d].ctx
           /\ r.answer = delivery[d].answer /\ r.began = delivery[d].began
    BY <1>2, StepIs DEF Proceed, Stages
  <2>2. /\ UNCHANGED <<lock, receipt, ready, feedback, events>> /\ At(d, "create")
    BY <1>2 DEF CreateTask, Proceed, contextVars
  <2>3. \A id : EventOf(id)' = EventOf(id)
    BY <2>2 DEF EventOf, Numbers
  <2>4. r.ctx \in Context \cup {None}
    BY DEF Delivery
  <2>5. task' \in Task /\ task'.state = "queued" /\ task'.ctx = r.ctx
    BY <1>2, <2>1, <2>4 DEF NoTask, Task, TaskState
  <2>6. Bound /\ r.ctx = receipt.ctx
    BY <2>1, <2>2, DeliveryType DEF Suits, At
  <2>7. Grows
    BY <1>2, <2>2, <2>3, <2>5 DEF Grows, HasAnswer, Bound
  <2>8. TaskInv' /\ LogInv'
    BY <1>2, <2>2, <2>5, <2>6, LogAsBefore DEF TaskInv, Bound, HasAnswer
  <2>9. Suits(d, r)'
    BY <2>1, <2>2, <2>3, <2>5, DeliveryType DEF Suits, Asking, Answering, At, HasAnswer, Bound
  <2>10. ChatTyped' /\ delivery'[d] = r /\ \A e \in Deliveries : e # d => delivery'[e] = delivery[e]
    BY <2>1, <2>2, <2>5 DEF ChatInv, ChatTyped
  <2> QED
    BY <1>2, <2>7, <2>8, <2>9, <2>10, DeliveryMoves
<1> QED
  BY <1>1, <1>2 DEF CreateTask

LEMMA TaskTaken ==
  ASSUME ChatInv, NEW d \in Deliveries, TakeTask(d)
  PROVE  ChatInv'
<1>1. CASE UNCHANGED task /\ Step(d, "respond")
  <2>1. PICK r \in Delivery :
           /\ delivery' = [delivery EXCEPT ![d] = r]
           /\ r.pc = "respond" /\ r.seen = delivery[d].seen /\ r.ctx = delivery[d].ctx
           /\ r.answer = delivery[d].answer /\ r.began = delivery[d].began
    BY <1>1, StepIs DEF Stages
  <2>2. UNCHANGED <<receipt, lock, task, ready, feedback, events>> /\ At(d, "run")
    BY <1>1 DEF TakeTask, contextVars
  <2>3. EventOf("user")' = EventOf("user")
    BY <2>2 DEF EventOf, Numbers
  <2>4. Suits(d, r)'
    BY <2>1, <2>2, <2>3, DeliveryType DEF Suits, Asking, Answering, At, HasAnswer, Bound
  <2> QED
    BY <2>1, <2>2, <2>4, Moves, DeliveryType
<1>2. CASE /\ task.state = "queued" /\ task.runner = None
           /\ task' = [task EXCEPT !.runner = d] /\ Step(d, "running")
  <2>1. PICK r \in Delivery :
           /\ delivery' = [delivery EXCEPT ![d] = r]
           /\ r.pc = "running" /\ r.seen = delivery[d].seen /\ r.ctx = delivery[d].ctx
           /\ r.answer = delivery[d].answer /\ r.began = delivery[d].began
    BY <1>2, StepIs DEF Stages
  <2>2. UNCHANGED <<receipt, lock, ready, feedback, events>> /\ At(d, "run")
    BY DEF TakeTask, contextVars
  <2>3. \A id : EventOf(id)' = EventOf(id)
    BY <2>2 DEF EventOf, Numbers
  <2>4. /\ task' \in Task /\ task'.state = "queued" /\ task'.runner = d
        /\ task'.ctx = task.ctx /\ task'.answer = task.answer
    BY <1>2, DeliveryType DEF Task
  <2>5. Grows
    BY <1>2, <2>2, <2>3, <2>4 DEF Grows, HasAnswer, Bound
  <2>6. TaskInv' /\ LogInv'
    BY <1>2, <2>2, <2>4, LogAsBefore DEF ChatInv, TaskInv, Bound, HasAnswer
  <2>7. Suits(d, r)'
    BY <2>1, <2>2, <2>3, <2>4, DeliveryType DEF Suits, Asking, Answering, At, HasAnswer, Bound
  <2>8. ChatTyped' /\ delivery'[d] = r /\ \A e \in Deliveries : e # d => delivery'[e] = delivery[e]
    BY <2>1, <2>2, <2>4 DEF ChatInv, ChatTyped
  <2> QED
    BY <1>2, <2>5, <2>6, <2>7, <2>8, DeliveryMoves
<1> QED
  BY <1>1, <1>2 DEF TakeTask

LEMMA TaskRun ==
  ASSUME ChatInv, NEW d \in Deliveries, RunTask(d)
  PROVE  ChatInv'
<1>1. PICK r \in Delivery :
         /\ delivery' = [delivery EXCEPT ![d] = r]
         /\ r.pc = "respond" /\ r.seen = delivery[d].seen /\ r.ctx = delivery[d].ctx
         /\ r.answer = delivery[d].answer /\ r.began = delivery[d].began
  BY StepIs DEF RunTask, Stages
<1>2. /\ UNCHANGED <<receipt, lock, ready, feedback, events>> /\ At(d, "running")
      /\ task.state = "queued" /\ task.runner = d
  BY DeliveryType DEF RunTask, contextVars, At, Suits
<1>3. /\ task' \in Task /\ task'.ctx = task.ctx
      /\ \/ /\ task'.state \in {"succeeded", "evidence_pending"} /\ task'.answer \in Answers
            /\ task.ctx.docs \subseteq ready
         \/ task'.state = "failed"
  <2>1. CASE task' = [task EXCEPT !.state = "failed", !.runner = None]
    BY <2>1, DeliveryType DEF Task, TaskState
  <2>2. ASSUME NEW a \in Answers, Authorized(task.ctx.docs),
               NEW s \in {"succeeded", "evidence_pending"},
               task' = [task EXCEPT !.state = s, !.answer = a, !.runner = None]
        PROVE  /\ task' \in Task /\ task'.ctx = task.ctx
               /\ task'.state = s /\ task'.answer = a /\ task.ctx.docs \subseteq ready
    BY <2>2, DeliveryType DEF Task, TaskState, Authorized
  <2> QED
    BY <2>1, <2>2 DEF RunTask
<1>4. \A id : EventOf(id)' = EventOf(id)
  BY <1>2 DEF EventOf, Numbers
<1>5. Grows
  BY <1>2, <1>3, <1>4 DEF Grows, HasAnswer, Bound
<1>6. TaskInv' /\ LogInv'
  BY <1>2, <1>3, LogAsBefore DEF ChatInv, TaskInv, Bound, HasAnswer
<1>7. Suits(d, r)'
  BY <1>1, <1>2, <1>3, <1>4, DeliveryType DEF Suits, Asking, Answering, At, HasAnswer, Bound
<1>8. ChatTyped' /\ delivery'[d] = r /\ \A e \in Deliveries : e # d => delivery'[e] = delivery[e]
  BY <1>1, <1>2, <1>3 DEF ChatInv, ChatTyped
<1> QED
  BY <1>2, <1>5, <1>6, <1>7, <1>8, DeliveryMoves

LEMMA Responded ==
  ASSUME ChatInv, NEW d \in Deliveries, Respond(d)
  PROVE  ChatInv'
<1>1. CASE Refuse(d)
  BY <1>1, RefusedFits DEF Respond, contextVars
<1>2. CASE /\ task.state = "succeeded"
           /\ delivery[d].seen # "none" => Authorized(task.ctx.docs)
           /\ delivery' = [delivery EXCEPT ![d].pc = "assistant", ![d].answer = task.answer]
           /\ UNCHANGED lock
  <2> DEFINE s == [delivery[d] EXCEPT !.pc = "assistant", !.answer = task.answer]
  <2>1. /\ delivery' = [delivery EXCEPT ![d] = s]
        /\ UNCHANGED <<receipt, lock, task, ready, feedback, events>> /\ At(d, "respond")
    BY <1>2, DeliveryType DEF Respond, contextVars
  <2>2. task.answer \in Answers \cup {None} /\ delivery[d] \in Delivery
    BY DeliveryType DEF Task
  <2>3. /\ s \in Delivery /\ s.pc = "assistant" /\ s.seen = delivery[d].seen
        /\ s.ctx = delivery[d].ctx /\ s.began = delivery[d].began /\ s.answer = task.answer
    BY <2>2 DEF Delivery, Stages
  <2> HIDE DEF s
  <2>4. PICK r \in Delivery : /\ r = s /\ r.pc = "assistant" /\ r.seen = delivery[d].seen
                              /\ r.ctx = delivery[d].ctx /\ r.began = delivery[d].began
                              /\ r.answer = task.answer
    BY <2>3
  <2>5. delivery' = [delivery EXCEPT ![d] = r]
    BY <2>1, <2>4
  <2>6. EventOf("user")' = EventOf("user")
    BY <2>1 DEF EventOf, Numbers
  <2>7. task.ctx.docs \subseteq delivery[d].began
    BY <1>2, <2>1, DeliveryType DEF Suits, At, HasAnswer, Authorized
  <2>8. Suits(d, r)'
    BY <1>2, <2>1, <2>4, <2>6, <2>7, DeliveryType
    DEF Suits, Asking, Answering, At, HasAnswer, Bound
  <2> QED
    BY <2>1, <2>5, <2>8, Moves, DeliveryType
<1> QED
  BY <1>1, <1>2 DEF Respond

LEMMA FeedbackSaved ==
  ASSUME ChatInv, NEW d \in Deliveries, SaveFeedback(d)
  PROVE  ChatInv'
<1>1. CASE Refuse(d) /\ UNCHANGED feedback
  BY <1>1, RefusedFits DEF SaveFeedback, contextVars
<1>2. CASE /\ feedback' = [answer |-> delivery[d].answer, ctx |-> delivery[d].ctx]
           /\ Proceed(d, "return")
  <2>1. PICK r \in Delivery :
           /\ delivery' = [delivery EXCEPT ![d] = r]
           /\ r.pc = "return" /\ r.seen = delivery[d].seen /\ r.ctx = delivery[d].ctx
           /\ r.answer = delivery[d].answer /\ r.began = delivery[d].began
    BY <1>2, StepIs DEF Proceed, Stages
  <2>2. UNCHANGED <<receipt, lock, task, ready, events>> /\ At(d, "feedback")
    BY <1>2 DEF SaveFeedback, Proceed, contextVars
  <2>3. \A id : EventOf(id)' = EventOf(id)
    BY <2>2 DEF EventOf, Numbers
  <2>4. /\ task.state = "succeeded" /\ Bound /\ task.ctx = receipt.ctx /\ task.answer \in Answers
        /\ delivery[d].answer = task.answer /\ delivery[d].ctx = task.ctx
    BY <2>2, DeliveryType DEF Suits, At, Answering, ChatInv, TaskInv, HasAnswer
  <2>5. feedback' = [answer |-> task.answer, ctx |-> task.ctx]
    BY <1>2, <2>4
  <2>6. task.ctx \in Context
    BY <2>4, DeliveryType DEF Bound, Receipt
  <2>7. Grows
    BY <2>2, <2>3, <2>5 DEF Grows, HasAnswer, Bound
  <2>8. TaskInv' /\ LogInv'
    BY <2>2, <2>3 DEF ChatInv, TaskInv, LogInv, Bound, HasAnswer
  <2>9. Suits(d, r)'
    BY <2>1, <2>2, <2>3, <2>5, DeliveryType DEF Suits, Asking, Answering, At, HasAnswer, Bound
  <2>10. ChatTyped' /\ delivery'[d] = r /\ \A e \in Deliveries : e # d => delivery'[e] = delivery[e]
    BY <2>1, <2>2, <2>4, <2>5, <2>6 DEF ChatInv, ChatTyped
  <2> QED
    BY <2>2, <2>7, <2>8, <2>9, <2>10, DeliveryMoves
<1> QED
  BY <1>1, <1>2 DEF SaveFeedback

LEMMA Returned ==
  ASSUME ChatInv, NEW d \in Deliveries, Return(d)
  PROVE  ChatInv'
<1>1. CASE Refuse(d)
  BY <1>1, RefusedFits DEF Return, contextVars
<1>2. CASE Step(d, "answered") /\ lock' = None
  <2>1. PICK r \in Delivery :
           /\ delivery' = [delivery EXCEPT ![d] = r]
           /\ r.pc = "answered" /\ r.seen = delivery[d].seen /\ r.ctx = delivery[d].ctx
           /\ r.answer = delivery[d].answer /\ r.began = delivery[d].began
    BY <1>2, StepIs DEF Stages
  <2>2. UNCHANGED <<receipt, task, ready, feedback, events>> /\ At(d, "return")
    BY DEF Return, contextVars
  <2>3. \A id : EventOf(id)' = EventOf(id)
    BY <2>2 DEF EventOf, Numbers
  <2>4. Suits(d, r)'
    BY <2>1, <2>2, <2>3, DeliveryType DEF Suits, Asking, Answering, At, HasAnswer, Bound
  <2> QED
    BY <1>2, <2>1, <2>2, <2>4, Moves, DeliveryType
<1> QED
  BY <1>1, <1>2 DEF Return

LEMMA DeliveryCrashed ==
  ASSUME ChatInv, NEW d \in Deliveries, CrashDelivery(d)
  PROVE  ChatInv'
<1>1. /\ UNCHANGED <<receipt, ready, feedback, events>> /\ Refuse(d)
      /\ task' = IF task.runner = d THEN [task EXCEPT !.runner = None] ELSE task
  BY DEF CrashDelivery, contextVars
<1>2. \A id : EventOf(id)' = EventOf(id)
  BY <1>1 DEF EventOf, Numbers
<1>3. /\ task' \in Task /\ task'.state = task.state /\ task'.ctx = task.ctx
      /\ task'.answer = task.answer
      /\ UNCHANGED task \/ task.runner = d
  <2>1. CASE task.runner = d
    BY <1>1, <2>1, DeliveryType DEF Task
  <2>2. CASE task.runner # d
    BY <1>1, <2>2, DeliveryType DEF Task
  <2> QED
    BY <2>1, <2>2
<1>4. Grows
  BY <1>1, <1>2, <1>3 DEF Grows, HasAnswer, Bound
<1>5. TaskInv'
  BY <1>1, <1>3 DEF ChatInv, TaskInv, Bound, HasAnswer
<1>6. LogInv'
  BY <1>1, <1>2, <1>3 DEF ChatInv, LogInv
<1>7. /\ delivery' \in [Deliveries -> Delivery] /\ lock' \in Deliveries \cup {None}
      /\ \A e \in Deliveries : e # d => delivery'[e] = delivery[e]
      /\ delivery'[d] = Unsent /\ Suits(d, Unsent)'
  BY <1>1, Refused DEF ChatInv, ChatTyped
<1>8. ChatTyped'
  BY <1>1, <1>3, <1>7 DEF ChatInv, ChatTyped
<1> QED
  BY <1>3, <1>4, <1>5, <1>6, <1>7, <1>8, DeliveryMoves

LEMMA Reconciled ==
  ASSUME ChatInv, Reconcile
  PROVE  ChatInv'
<1>1. /\ UNCHANGED <<receipt, lock, ready, feedback, delivery, events>>
      /\ task.state = "evidence_pending"
  BY DEF Reconcile, contextVars
<1>2. PICK s \in {"succeeded", "failed"} : task' = [task EXCEPT !.state = s]
  BY DEF Reconcile
<1>3. task' \in Task /\ task'.state = s /\ task'.ctx = task.ctx /\ task'.answer = task.answer
  BY <1>2, DeliveryType DEF Task, TaskState
<1>4. \A id : EventOf(id)' = EventOf(id)
  BY <1>1 DEF EventOf, Numbers
<1>5. Grows
  BY <1>1, <1>3, <1>4 DEF Grows, HasAnswer, Bound
<1>6. TaskInv' /\ LogInv'
  BY <1>1, <1>3, LogAsBefore DEF ChatInv, TaskInv, Bound, HasAnswer
<1>7. ChatTyped'
  BY <1>1, <1>3 DEF ChatInv, ChatTyped
<1> QED
  BY <1>1, <1>5, <1>6, <1>7, NobodyMoves

(* A lock is lost, or a document revoked. *)
LEMMA LostOrRevoked ==
  ASSUME ChatInv, UNCHANGED <<receipt, task, feedback, delivery, events>>,
         ready' \subseteq ready, lock' \in Deliveries \cup {None}
  PROVE  ChatInv'
<1>1. Grows /\ (TaskInv /\ LogInv)'
  BY SameRequest
<1>2. ChatTyped'
  BY DEF ChatInv, ChatTyped
<1> QED
  BY <1>1, <1>2, NobodyMoves

LEMMA LogAppended ==
  ASSUME SessionInv, SessionInv', NEW e, events' = Append(events, e)
  PROVE  \E n \in Nat : /\ \A i \in Numbers : i < n /\ events'[i] = events[i]
                        /\ \A id : id # e.id => EventOf(id)' = EventOf(id)
                        /\ EventOf(e.id)' = EventOf(e.id) \cup {n}
                        /\ events'[n] = e
<1> DEFINE n == Len(events) + 1
<1>1. /\ events \in Seq(Event) /\ events' \in Seq(Event)
      /\ Numbers = 1..Len(events) /\ Numbers' = 1..Len(events') /\ Len(events) \in Nat
  BY SessionParts, LenProperties DEF SessionInv, SessionTyped, Numbers
<1>2. events \in Seq(Event \cup {e})
  BY <1>1
<1>3. /\ Len(events') = n /\ \A i \in 1..Len(events) : events'[i] = events[i]
      /\ events'[n] = e
  BY <1>2, AppendProperties
<1>4. n \in Nat /\ Numbers' = Numbers \cup {n} /\ \A i \in Numbers : i < n
  BY <1>1, <1>3
<1> HIDE DEF n
<1>5. \A id : EventOf(id)' = {i \in Numbers' : events'[i].id = id}
  BY DEF EventOf
<1>6. \A id : id # e.id => EventOf(id)' = EventOf(id)
  BY <1>1, <1>3, <1>4, <1>5 DEF EventOf
<1>7. EventOf(e.id)' = EventOf(e.id) \cup {n}
  BY <1>1, <1>3, <1>4, <1>5 DEF EventOf
<1> QED
  BY <1>1, <1>3, <1>4, <1>6, <1>7

(* What the session records beside the request. *)
LEMMA RecordedBeside ==
  ASSUME ChatInv, SessionInv, SessionInv', UNCHANGED chatVars,
         UNCHANGED events \/ \E e : events' = Append(events, e) /\ e.id = None
  PROVE  ChatInv'
<1>0. UNCHANGED <<receipt, lock, task, ready, feedback, delivery>>
  BY DEF chatVars
<1>1. CASE UNCHANGED events
  BY <1>0, <1>1, LostOrRevoked, DeliveryType
<1>2. ASSUME NEW e, events' = Append(events, e), e.id = None
      PROVE  ChatInv'
  <2>1. \A id \in {"user", "assistant"} :
          EventOf(id)' = EventOf(id) /\ \A i \in EventOf(id) : events'[i] = events[i]
    <3>1. PICK n \in Nat : /\ \A i \in Numbers : i < n /\ events'[i] = events[i]
                           /\ \A id : id # None => EventOf(id)' = EventOf(id)
      BY <1>2, LogAppended
    <3>2. \A id : EventOf(id) \subseteq Numbers
      BY DEF EventOf
    <3> QED
      BY <3>1, <3>2, ContextAssumption
  <2>2. Grows
    BY <1>0, <2>1 DEF Grows, HasAnswer, Bound
  <2>3. TaskInv' /\ LogInv'
    BY <1>0, <2>1 DEF ChatInv, TaskInv, LogInv, HasAnswer, Bound
  <2>4. ChatTyped'
    BY <1>0 DEF ChatInv, ChatTyped
  <2> QED
    BY <1>0, <2>2, <2>3, <2>4, NobodyMoves
<1> QED
  BY <1>1, <1>2

LEMMA UserAppended ==
  ASSUME ChatInv, SessionInv, SessionInv', NEW d \in Deliveries, AppendUser(d)
  PROVE  ChatInv'
<1>0. UNCHANGED <<receipt, task, ready, feedback>> /\ At(d, "user")
  BY DEF AppendUser
<1>1. CASE UNCHANGED events /\ Refuse(d)
  BY <1>0, <1>1, RefusedFits
<1>2. CASE EventOf("user") # {} /\ UNCHANGED events /\ Proceed(d, "context")
  <2>1. PICK r \in Delivery :
           /\ delivery' = [delivery EXCEPT ![d] = r]
           /\ r.pc = "context" /\ r.seen = delivery[d].seen /\ r.ctx = delivery[d].ctx
           /\ r.answer = delivery[d].answer /\ r.began = delivery[d].began
    BY <1>2, StepIs DEF Proceed, Stages
  <2>2. UNCHANGED lock /\ EventOf("user")' = EventOf("user")
    BY <1>2 DEF Proceed, EventOf, Numbers
  <2>3. Suits(d, r)'
    BY <1>0, <1>2, <2>1, <2>2, DeliveryType DEF Suits, Asking, Answering, At, HasAnswer, Bound
  <2> QED
    BY <1>0, <1>2, <2>1, <2>2, <2>3, Moves, DeliveryType
<1>3. ASSUME EventOf("user") = {}, AppendEvent("user_message", "user", None)
      PROVE  /\ Grows /\ TaskInv' /\ LogInv' /\ EventOf("user")' # {}
  <2> DEFINE e == [type |-> "user_message", gen |-> session.gen, id |-> "user", says |-> None]
  <2>1. events' = Append(events, e) /\ e.id = "user"
    BY <1>3 DEF AppendEvent
  <2> HIDE DEF e
  <2>2. PICK n \in Nat : EventOf("user")' = {n} /\ EventOf("assistant")' = EventOf("assistant")
    BY <1>3, <2>1, LogAppended
  <2>3. EventOf("assistant") = {}
    BY <1>3 DEF ChatInv, LogInv
  <2>4. LogInv'
    BY <2>2, <2>3 DEF LogInv
  <2>5. TaskInv'
    BY <1>0 DEF ChatInv, TaskInv, HasAnswer, Bound
  <2>6. Grows
    BY <1>0, <2>2 DEF Grows, HasAnswer, Bound
  <2> QED
    BY <2>2, <2>4, <2>5, <2>6
<1>4. ASSUME EventOf("user") = {}, AppendEvent("user_message", "user", None), Refuse(d)
      PROVE  ChatInv'
  <2>1. /\ delivery' \in [Deliveries -> Delivery] /\ lock' \in Deliveries \cup {None}
        /\ \A e \in Deliveries : e # d => delivery'[e] = delivery[e]
        /\ delivery'[d] = Unsent /\ Suits(d, Unsent)'
    BY <1>0, <1>4, Refused DEF ChatInv, ChatTyped
  <2>2. ChatTyped'
    BY <1>0, <2>1 DEF ChatInv, ChatTyped
  <2> QED
    BY <1>0, <1>3, <1>4, <2>1, <2>2, DeliveryMoves
<1>5. ASSUME EventOf("user") = {}, AppendEvent("user_message", "user", None), Proceed(d, "context")
      PROVE  ChatInv'
  <2>1. PICK r \in Delivery :
           /\ delivery' = [delivery EXCEPT ![d] = r]
           /\ r.pc = "context" /\ r.seen = delivery[d].seen /\ r.ctx = delivery[d].ctx
           /\ r.answer = delivery[d].answer /\ r.began = delivery[d].began
    BY <1>5, StepIs DEF Proceed, Stages
  <2>2. UNCHANGED lock
    BY <1>5 DEF Proceed
  <2>3. Suits(d, r)'
    BY <1>0, <1>3, <1>5, <2>1, <2>2, DeliveryType
    DEF Suits, Asking, Answering, At, HasAnswer, Bound
  <2>4. ChatTyped' /\ delivery'[d] = r /\ \A e \in Deliveries : e # d => delivery'[e] = delivery[e]
    BY <1>0, <2>1, <2>2 DEF ChatInv, ChatTyped
  <2> QED
    BY <1>0, <1>3, <1>5, <2>3, <2>4, DeliveryMoves
<1> QED
  BY <1>1, <1>2, <1>4, <1>5 DEF AppendUser

LEMMA AssistantAppended ==
  ASSUME ChatInv, SessionInv, SessionInv', NEW d \in Deliveries, AppendAssistant(d)
  PROVE  ChatInv'
<1>0. UNCHANGED <<receipt, task, ready, feedback>> /\ At(d, "assistant")
  BY DEF AppendAssistant
<1>1. CASE UNCHANGED events /\ Refuse(d)
  BY <1>0, <1>1, RefusedFits
<1>2. CASE EventOf("assistant") # {} /\ UNCHANGED events /\ Proceed(d, "feedback")
  <2>1. PICK r \in Delivery :
           /\ delivery' = [delivery EXCEPT ![d] = r]
           /\ r.pc = "feedback" /\ r.seen = delivery[d].seen /\ r.ctx = delivery[d].ctx
           /\ r.answer = delivery[d].answer /\ r.began = delivery[d].began
    BY <1>2, StepIs DEF Proceed, Stages
  <2>2. UNCHANGED lock /\ \A id : EventOf(id)' = EventOf(id)
    BY <1>2 DEF Proceed, EventOf, Numbers
  <2>3. Suits(d, r)'
    BY <1>0, <1>2, <2>1, <2>2, DeliveryType DEF Suits, Asking, Answering, At, HasAnswer, Bound
  <2> QED
    BY <1>0, <1>2, <2>1, <2>2, <2>3, Moves, DeliveryType
<1>3. CASE /\ EventOf("assistant") = {}
           /\ AppendEvent("assistant_message", "assistant", delivery[d].answer)
           /\ Proceed(d, "feedback")
  <2> DEFINE e == [type |-> "assistant_message", gen |-> session.gen, id |-> "assistant",
                   says |-> delivery[d].answer]
  <2>1. events' = Append(events, e) /\ e.id = "assistant" /\ e.says = delivery[d].answer
    BY <1>3 DEF AppendEvent
  <2> HIDE DEF e
  <2>2. PICK n \in Nat : /\ \A i \in Numbers : i < n /\ events'[i] = events[i]
                         /\ EventOf("user")' = EventOf("user")
                         /\ EventOf("assistant")' = {n}
                         /\ events'[n] = e
    BY <1>3, <2>1, LogAppended
  <2>3. /\ task.state = "succeeded" /\ delivery[d].answer = task.answer
        /\ EventOf("user") # {}
    BY <1>0, DeliveryType DEF Suits, At, Asking, Answering
  <2>4. LogInv'
    <3>1. PICK i \in EventOf("user") : i < n
      BY <2>2, <2>3 DEF EventOf
    <3> QED
      BY <1>0, <2>1, <2>2, <2>3, <3>1 DEF ChatInv, LogInv
  <2>5. TaskInv'
    BY <1>0 DEF ChatInv, TaskInv, HasAnswer, Bound
  <2>6. Grows
    BY <1>0, <2>2 DEF Grows, HasAnswer, Bound
  <2>7. PICK r \in Delivery :
           /\ delivery' = [delivery EXCEPT ![d] = r]
           /\ r.pc = "feedback" /\ r.seen = delivery[d].seen /\ r.ctx = delivery[d].ctx
           /\ r.answer = delivery[d].answer /\ r.began = delivery[d].began
    BY <1>3, StepIs DEF Proceed, Stages
  <2>8. UNCHANGED lock
    BY <1>3 DEF Proceed
  <2>9. Suits(d, r)'
    BY <1>0, <2>2, <2>3, <2>7, <2>8, DeliveryType
    DEF Suits, Asking, Answering, At, HasAnswer, Bound
  <2>10. ChatTyped' /\ delivery'[d] = r /\ \A f \in Deliveries : f # d => delivery'[f] = delivery[f]
    BY <1>0, <2>7, <2>8 DEF ChatInv, ChatTyped
  <2> QED
    BY <1>0, <2>4, <2>5, <2>6, <2>9, <2>10, DeliveryMoves
<1> QED
  BY <1>1, <1>2, <1>3 DEF AppendAssistant
-----------------------------------------------------------------------------
(* A delivery keeps the request's invariant, and its part of the session's. *)
LEMMA DeliveryFits ==
  ASSUME ChatInv, SessionInv, SessionInv', NEW d \in Deliveries,
         Send(d) \/ DeliveryStep(d) \/ CrashDelivery(d)
  PROVE  ChatInv'
<1>1. CASE Send(d) \/ Claim(d) \/ ReadReceipt(d) \/ ReadTask(d) \/ CheckSession(d)
  BY <1>1, SendFits, ClaimFits, ReceiptRead, TaskRead, SessionChecked
<1>2. CASE AppendUser(d) \/ LoadContext(d) \/ BuildContext(d) \/ SaveContext(d) \/ CreateTask(d)
  BY <1>2, UserAppended, ContextLoaded, ContextBuilt, ContextSaved, TaskCreated
<1>3. CASE TakeTask(d) \/ RunTask(d) \/ Respond(d) \/ AppendAssistant(d) \/ SaveFeedback(d)
  BY <1>3, TaskTaken, TaskRun, Responded, AssistantAppended, FeedbackSaved
<1>4. CASE Return(d) \/ CrashDelivery(d)
  BY <1>4, Returned, DeliveryCrashed
<1> QED
  BY <1>1, <1>2, <1>3, <1>4 DEF DeliveryStep

LEMMA DeliverySession ==
  ASSUME ChatInv, SessionInv, NEW d \in Deliveries,
         Send(d) \/ DeliveryStep(d) \/ CrashDelivery(d)
  PROVE  /\ SessionInv' /\ EventsKept /\ UNCHANGED call
         /\ UNCHANGED events \/ \E e : events' = Append(events, e)
<1>0. session \in Session
  BY DEF SessionInv, SessionTyped
<1>1. CASE UNCHANGED contextVars
  BY <1>1, SessionKept DEF contextVars, EventsKept
<1>2. CASE CheckSession(d)
  <2>1. /\ session' = session \/ session' = [session EXCEPT !.state = "active"]
        /\ session.state \in {"closed", "active"} => session' = session
        /\ UNCHANGED <<events, checkpoints, call>>
    BY <1>2 DEF CheckSession
  <2>2. session' \in Session /\ session'.gen = session.gen /\ session'.version >= session.version
    BY <1>0, <2>1, OneVersion
  <2>3. call \in [Calls -> Request]
    BY DEF SessionInv, SessionTyped
  <2>4. EventsKept
    BY <1>0, <2>1 DEF EventsKept, Session
  <2> QED
    BY <2>1, <2>2, <2>3, <2>4, RowChanges
<1>3. CASE AppendUser(d) \/ AppendAssistant(d)
  <2>1. UNCHANGED <<checkpoints, call>>
    BY <1>3 DEF AppendUser, AppendAssistant
  <2>2. CASE UNCHANGED <<events, session>>
    BY <2>1, <2>2, SessionKept DEF contextVars, EventsKept
  <2>3. ASSUME session.state = "active",
               NEW type \in {"user_message", "assistant_message"},
               NEW id \in {"user", "assistant"}, NEW says \in Answers \cup {None},
               AppendEvent(type, id, says)
        PROVE  /\ SessionInv' /\ EventsKept
               /\ \E e : events' = Append(events, e)
    <3>1. session' = [session EXCEPT !.version = @ + 1] /\ \E e : events' = Append(events, e)
      BY <2>3 DEF AppendEvent
    <3>2. session'.state = "active"
      BY <1>0, <2>3, <3>1 DEF Session
    <3> QED
      BY <2>1, <2>3, <3>1, <3>2, SaidInv DEF EventsKept
  <2>4. delivery[d].answer \in Answers \cup {None}
    BY DeliveryType DEF Delivery
  <2>5. \/ UNCHANGED <<events, session>>
        \/ session.state = "active" /\ AppendEvent("user_message", "user", None)
        \/ /\ session.state = "active"
           /\ AppendEvent("assistant_message", "assistant", delivery[d].answer)
    BY <1>3 DEF AppendUser, AppendAssistant
  <2> QED
    BY <2>1, <2>2, <2>3, <2>4, <2>5 DEF contextVars
<1> QED
  BY <1>1, <1>2, <1>3
  DEF Send, DeliveryStep, CrashDelivery, Claim, ReadReceipt, ReadTask, LoadContext, BuildContext,
      SaveContext, CreateTask, TakeTask, RunTask, Respond, SaveFeedback, Return
-----------------------------------------------------------------------------
(* All of it together: what each part needs of the others is that the log  *)
(* only grows, that a closed session stays closed, and that rows stay.     *)
ConversationInv == MemoryInv /\ MemoryTyped /\ SessionInv /\ DistilInv /\ ChatInv

LEMMA NoMemory ==
  UNCHANGED memoryVars /\ MemoryTyped => MemoryTyped' /\ UNCHANGED op /\ Rows \subseteq Rows'
  BY DEF MemoryTyped, MemoryTypeOK, memoryVars, Rows

LEMMA NoContext ==
  ASSUME SessionInv, DistilInv, UNCHANGED <<contextVars, focus>>
  PROVE  SessionInv' /\ EventsKept /\ CallsKept /\ OnlyAsked'
<1>1. SessionInv' /\ EventsKept /\ CallsKept
  BY SessionKept DEF contextVars, EventsKept, CallsKept
<1>2. OnlyAsked'
  BY <1>1, OnlyAskedKept DEF contextVars, DistilInv
<1> QED
  BY <1>1, <1>2

LEMMA NoChat == ChatInv /\ UNCHANGED <<chatVars, events>> => ChatInv'
<1> SUFFICES ASSUME ChatInv, UNCHANGED <<chatVars, events>> PROVE ChatInv'
  OBVIOUS
<1> QED
  BY LostOrRevoked, DeliveryType DEF chatVars

(* What the session records of itself has no id. *)
LEMMA SessionRecords ==
  ASSUME NEW p, NEW says, NEW kind, SessionStep(p) \/ UserSays(says) \/ Begin(p, kind)
  PROVE  UNCHANGED events \/ \E e : events' = Append(events, e) /\ e.id = None
<1>1. CASE AppendMarker(p)
  BY <1>1 DEF AppendMarker, AppendEvent
<1>2. CASE UserSays(says)
  BY <1>2 DEF UserSays, AppendEvent
<1> QED
  BY <1>1, <1>2 DEF SessionStep, ReadEvents, WriteCheckpoint, Advance, CopyCheckpoint,
                    CloseSession, CrashCall, Begin

LEMMA ADeliveryIsOne == ADelivery \in Deliveries
  BY ChatAssumption DEF ADelivery

LEMMA ChatStepKeeps ==
  ASSUME ConversationInv, focus # "distil", UNCHANGED <<focus, memoryVars>>,
         \/ \E d \in Deliveries : Send(d) \/ DeliveryStep(d) \/ CrashDelivery(d)
         \/ Reconcile \/ LoseLock
         \/ \E x \in Documents : RevokeDocument(x)
  PROVE  (MemoryTyped /\ SessionInv /\ DistilInv /\ ChatInv)'
<1>0. MemoryTyped' /\ UNCHANGED op /\ Rows \subseteq Rows'
  BY NoMemory DEF ConversationInv
<1>1. ASSUME NEW d \in Deliveries, Send(d) \/ DeliveryStep(d) \/ CrashDelivery(d)
      PROVE  (SessionInv /\ DistilInv /\ ChatInv)'
  <2>1. SessionInv' /\ EventsKept /\ CallsKept
    BY <1>1, DeliverySession DEF ConversationInv, CallsKept
  <2>2. OnlyAsked'
    BY DEF OnlyAsked
  <2> QED
    BY <1>0, <1>1, <2>1, <2>2, DeliveryFits, DistilKept DEF ConversationInv
<1>2. CASE Reconcile \/ LoseLock \/ \E x \in Documents : RevokeDocument(x)
  <2>1. UNCHANGED contextVars
    BY <1>2 DEF Reconcile, LoseLock, RevokeDocument
  <2>2. CASE LoseLock \/ \E x \in Documents : RevokeDocument(x)
    <3>1. /\ UNCHANGED <<receipt, task, feedback, delivery, events>>
          /\ ready' \subseteq ready /\ (lock' = None \/ lock' = lock)
      BY <2>2 DEF LoseLock, RevokeDocument, contextVars
    <3> QED
      BY <1>0, <2>1, <3>1, NoContext, DistilKept, LostOrRevoked, DeliveryType DEF ConversationInv
  <2>3. CASE Reconcile
    BY <1>0, <2>1, <2>3, NoContext, DistilKept, Reconciled DEF ConversationInv
  <2> QED
    BY <1>2, <2>2, <2>3
<1> QED
  BY <1>0, <1>1, <1>2

LEMMA NextConversation ==
  ASSUME ConversationInv, [Next]_conversationVars
  PROVE  ConversationInv'
<1>0. MemoryInv'
  BY NextMemory DEF ConversationInv
<1>1. CASE focus = "chat" /\ DuringChat /\ UNCHANGED focus
  BY <1>0, <1>1, ChatStepKeeps DEF DuringChat, ConversationInv
<1>2. CASE focus = "turn" /\ DuringTurn /\ UNCHANGED focus
  <2>1. MemoryTyped' /\ UNCHANGED op /\ Rows \subseteq Rows' /\ UNCHANGED memoryVars
    BY <1>2, NoMemory DEF ConversationInv, DuringTurn
  <2>2. ASSUME UNCHANGED chatVars,
               Begin(ACall, "reset") \/ Begin(ACall, "close") \/ SessionStep(ACall)
        PROVE  (SessionInv /\ DistilInv /\ ChatInv)'
    <3>1. SessionInv'
      BY <2>2, ACallIsOne, BeginInv, SessionStepInv DEF ConversationInv
    <3>2. EventsKept /\ CallsKept /\ OnlyAsked'
      BY <1>2, <2>2, <3>1, ACallIsOne, BeginKeeps, SessionStepKeeps DEF ConversationInv
    <3>3. UNCHANGED events \/ \E e : events' = Append(events, e) /\ e.id = None
      BY <2>2, SessionRecords
    <3> QED
      BY <1>2, <2>1, <2>2, <3>1, <3>2, <3>3, DistilKept, RecordedBeside DEF ConversationInv
  <2> QED
    BY <1>0, <1>2, <2>1, <2>2, ChatStepKeeps, ADeliveryIsOne DEF DuringTurn, ConversationInv
<1>3. CASE focus = "session" /\ DuringSession /\ UNCHANGED focus
  <2>1. MemoryTyped' /\ UNCHANGED chatVars
    BY <1>3, NoMemory DEF ConversationInv, DuringSession
  <2>2. SessionInv' /\ DistilInv'
    BY <1>3, DuringSessionInv, DuringSessionDistil DEF ConversationInv
  <2>3. UNCHANGED events \/ \E e : events' = Append(events, e) /\ e.id = None
    BY <1>3, SessionRecords DEF DuringSession, CreateSession, SetAutoMemory
  <2> QED
    BY <1>0, <2>1, <2>2, <2>3, RecordedBeside DEF ConversationInv
<1>4. CASE focus = "distil" /\ DuringDistil /\ UNCHANGED focus
  <2>1. UNCHANGED chatVars /\ SessionInv' /\ MemoryTyped' /\ DistilInv'
    BY <1>4, DuringDistilInv, DuringDistilKeeps DEF ConversationInv, DuringDistil
  <2>2. UNCHANGED events \/ \E e : events' = Append(events, e) /\ e.id = None
    BY <1>4, SessionRecords
    DEF DuringDistil, Distil, ReadCandidates, DistilNext, BeginDistil, contextVars
  <2> QED
    BY <1>0, <2>1, <2>2, RecordedBeside DEF ConversationInv
<1>5. CASE focus = "memory" /\ DuringMemory /\ UNCHANGED focus
  <2>1. UNCHANGED <<contextVars, chatVars, events>>
    BY <1>5 DEF DuringMemory, contextVars
  <2>2. SessionInv' /\ EventsKept /\ CallsKept /\ OnlyAsked' /\ ChatInv'
    BY <1>5, <2>1, NoContext, NoChat DEF ConversationInv
  <2>3. MemoryTyped'
    BY <1>5, DecideTyped, RememberTyped DEF DuringMemory, ConversationInv
  <2>4. DistilInv'
    <3>1. \A p \in Calls : call[p].pc \notin {"create", "done"} /\ call'[p] = call[p]
      BY <1>5, <2>1 DEF ConversationInv, DistilInv, Distilling, contextVars
    <3> QED
      BY <1>5, <2>1, <2>2, <3>1 DEF ConversationInv, DistilInv, Distilling, Closing, contextVars
  <2> QED
    BY <1>0, <2>2, <2>3, <2>4 DEF ConversationInv
<1>6. CASE UNCHANGED conversationVars
  <2>1. UNCHANGED <<focus, memoryVars, contextVars, chatVars, events>>
    BY <1>6 DEF conversationVars, contextVars
  <2>2. SessionInv' /\ EventsKept /\ CallsKept /\ OnlyAsked' /\ ChatInv'
    BY <2>1, NoContext, NoChat DEF ConversationInv
  <2>3. MemoryTyped' /\ DistilInv'
    BY <2>1, <2>2, NoMemory, DistilKept DEF ConversationInv
  <2> QED
    BY <1>0, <2>2, <2>3 DEF ConversationInv
<1> QED
  BY <1>1, <1>2, <1>3, <1>4, <1>5, <1>6 DEF Next

LEMMA InitConversation == Init => ConversationInv
<1> SUFFICES ASSUME Init PROVE ConversationInv
  OBVIOUS
<1>1. MemoryInv
  BY InitMemory DEF Init
<1>2. MemoryTyped
  BY IdleTyped DEF Init, MemoryInit, MemoryTyped, MemoryTypeOK, OpType, Idle, Rows
<1>3. /\ session \in Session /\ events = <<>> /\ checkpoints = <<>>
      /\ call = [p \in Calls |-> Quiet]
      /\ DOMAIN checkpoints = {} /\ Numbers = {}
  BY DEF Init, ContextInit, Session, Numbers
<1>4. SessionInv
  <2>1. SessionTyped
    BY <1>3, QuietKept DEF SessionTyped
  <2>2. Ordered /\ Handoffs /\ OneActive
    BY <1>3 DEF Ordered, Handoffs, OneActive
  <2>3. \A p \in Calls : Compacts(p)
    BY <1>3, QuietKept DEF Compacts, UpToDate, Handing
  <2> QED
    BY <2>1, <2>2, <2>3 DEF SessionInv
<1>5. DistilInv
  <2>1. Quiet.pc = "idle"
    BY DEF Quiet
  <2> QED
    BY <1>3, <2>1 DEF DistilInv, OnlyAsked, Distilling, Closing
<1>6. ChatInv
  <2>1. /\ receipt = None /\ lock = None /\ task = NoTask /\ ready = Documents
        /\ feedback = None /\ delivery = [d \in Deliveries |-> Unsent]
    BY DEF Init, ChatInit
  <2>2. Unsent \in Delivery /\ Unsent.pc = "idle" /\ Unsent.began = Documents
    BY DEF Unsent, Delivery, Stages, TaskState
  <2>3. NoTask \in Task /\ NoTask.state = "none"
    BY DEF NoTask, Task, TaskState
  <2>4. EventOf("user") = {} /\ EventOf("assistant") = {}
    BY <1>3 DEF EventOf
  <2>5. ChatTyped /\ TaskInv /\ LogInv
    BY <2>1, <2>2, <2>3, <2>4 DEF ChatTyped, TaskInv, LogInv, HasAnswer
  <2>6. \A d \in Deliveries : Suits(d, delivery[d])
    BY <2>1, <2>2 DEF Suits, Asking, Answering
  <2> QED
    BY <2>5, <2>6 DEF ChatInv
<1> QED
  BY <1>1, <1>2, <1>4, <1>5, <1>6 DEF ConversationInv

(* Whatever the clients, the sessions and the memories do, all parts of the invariant hold. *)
THEOREM ConversationInvariant == Spec => []ConversationInv
<1>1. ConversationInv /\ [Next]_conversationVars => ConversationInv'
  BY NextConversation
<1> QED
  BY <1>1, InitConversation, PTL DEF Spec

LEMMA FocusKept == Spec => [](focus \in Foci)
<1>1. Init => focus \in Foci
  BY DEF Init
<1>2. focus \in Foci /\ [Next]_conversationVars => (focus \in Foci)'
  BY DEF Next, conversationVars
<1> QED
  BY <1>1, <1>2, PTL DEF Spec

(* Every part of the conversation side has its type, whatever the constants, *)
(* and the generations follow one another in the log of the session.         *)
THEOREM ConversationsTyped == Spec => []ConversationsTypeOK
<1>1. focus \in Foci /\ ConversationInv => ConversationsTypeOK
  <2> SUFFICES ASSUME focus \in Foci, ConversationInv PROVE ConversationsTypeOK
    OBVIOUS
  <2>1. MemoryTypeOK
    BY DEF ConversationInv, MemoryTyped
  <2>2. ContextTypeOK
    <3>1. /\ session \in Session /\ \A i \in Numbers : events[i] \in Event
          /\ \A k \in DOMAIN checkpoints : checkpoints[k] \in Checkpoint
          /\ \A p \in Calls : call[p] \in Request
          /\ Ordered
      BY SessionParts DEF ConversationInv, SessionInv
    <3>2. \A k \in DOMAIN checkpoints :
            checkpoints[k].read \subseteq Numbers /\ checkpoints[k].copyOf \in 0..(k - 1)
      BY DEF ConversationInv, SessionInv, Handoffs, Whole
    <3> QED
      BY <3>1, <3>2 DEF ContextTypeOK, Session, Checkpoint, Request
  <2>3. ChatTypeOK
    BY DEF ConversationInv, ChatInv, ChatTyped, ChatTypeOK, Task, TaskState, Delivery, Receipt
  <2> QED
    BY <2>1, <2>2, <2>3 DEF ConversationsTypeOK
<1> QED
  BY <1>1, FocusKept, ConversationInvariant, PTL

(* No checkpoint is ever found corrupt, a generation has one active         *)
(* checkpoint, and what reset hands over covers the generation it ended.   *)
THEOREM HandoffComplete == Spec => []HandoffIsComplete
<1>1. SessionInv => HandoffIsComplete
  <2> SUFFICES ASSUME SessionInv, NEW k \in DOMAIN checkpoints
               PROVE  /\ ~Corrupt(k)
                      /\ k \in ActiveOf(checkpoints[k].gen) => ActiveOf(checkpoints[k].gen) = {k}
                      /\ checkpoints[k].copyOf # 0 =>
                           OfGeneration(checkpoints[k].gen - 1) \subseteq checkpoints[k].read
    BY DEF HandoffIsComplete
  <2>1. /\ Whole(checkpoints[k].read) /\ Numbers \subseteq Nat
        /\ checkpoints[k].copyOf # 0 => Covers(checkpoints[k].gen, checkpoints[k].read)
    BY SessionParts DEF SessionInv, Handoffs
  <2>2. ~Corrupt(k)
    <3>1. checkpoints[k].read \subseteq Numbers /\ \A i \in Nat : i <= i
      BY <2>1 DEF Whole
    <3>2. Covered(checkpoints[k].read) \subseteq checkpoints[k].read
      BY <2>1 DEF Covered, Whole
    <3>3. checkpoints[k].read \subseteq Covered(checkpoints[k].read)
      BY <2>1, <3>1 DEF Covered
    <3> QED
      BY <3>2, <3>3 DEF Corrupt
  <2>3. k \in ActiveOf(checkpoints[k].gen) => ActiveOf(checkpoints[k].gen) = {k}
    BY DEF SessionInv, OneActive, ActiveOf
  <2> QED
    BY <2>1, <2>2, <2>3 DEF Covers
<1> QED
  BY <1>1, ConversationInvariant, PTL DEF ConversationInv

(* What was asked to be remembered is in the table once close has reported  *)
(* the session closed.                                                     *)
THEOREM ClosedDistilled == Spec => []ClosedIsDistilled
<1>1. ConversationInv => ClosedIsDistilled
  <2> SUFFICES ASSUME ConversationInv, NEW p \in Calls, call[p].pc = "done",
                      NEW i \in Numbers, events[i].says \in Contents
               PROVE  events[i].says \in Rows
    BY DEF ClosedIsDistilled
  <2>1. focus = "distil" /\ (Asked(i) => events[i].says \in Rows)
    BY DEF ConversationInv, DistilInv, Distilling
  <2> QED
    BY <2>1, MemoryAssumption DEF ConversationInv, DistilInv, OnlyAsked
<1> QED
  BY <1>1, ConversationInvariant, PTL

(* Every delivery that returns an answer returns the same one, and the log, *)
(* the feedback and the receipt tell of it.                                *)
THEOREM OneAnswer == Spec => []OneAnswerPerRequest
<1>1. ChatInv => OneAnswerPerRequest
  <2> SUFFICES ASSUME ChatInv, NEW d \in Deliveries, Answered(d)
               PROVE  /\ delivery[d].answer = task.answer
                      /\ feedback = [answer |-> task.answer, ctx |-> task.ctx]
                      /\ receipt.ctx = task.ctx
                      /\ \E i, j \in Numbers : /\ i < j
                                               /\ EventOf("user") = {i} /\ EventOf("assistant") = {j}
                                               /\ events[j].says = task.answer
    BY DEF OneAnswerPerRequest
  <2>1. /\ task.state = "succeeded" /\ delivery[d].answer = task.answer
        /\ feedback = [answer |-> task.answer, ctx |-> task.ctx]
        /\ EventOf("assistant") # {}
    BY DeliveryType DEF Suits, Answered, At, Answering
  <2>2. receipt.ctx = task.ctx
    BY <2>1 DEF ChatInv, TaskInv
  <2>3. PICK j \in EventOf("assistant") : events[j].says = task.answer
    BY <2>1 DEF ChatInv, LogInv
  <2>4. PICK i \in EventOf("user") : i < j
    BY DEF ChatInv, LogInv
  <2>5. /\ EventOf("user") = {i} /\ EventOf("assistant") = {j} /\ i \in Numbers /\ j \in Numbers
    BY DEF ChatInv, LogInv, EventOf
  <2> QED
    BY <2>1, <2>2, <2>3, <2>4, <2>5
<1> QED
  BY <1>1, ConversationInvariant, PTL DEF ConversationInv

(* What was revoked before the client sent a delivery is not among what its *)
(* answer rests on.                                                        *)
THEOREM NoRevoked == Spec => []NoRevokedAnswers
<1>1. ChatInv => NoRevokedAnswers
  BY DeliveryType DEF Suits, NoRevokedAnswers, Answered, At, Answering
<1> QED
  BY <1>1, ConversationInvariant, PTL DEF ConversationInv
=============================================================================
