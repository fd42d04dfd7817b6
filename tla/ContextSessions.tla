-------------------------- MODULE ContextSessions --------------------------
(***************************************************************************)
(* One conversation session: src/memory/context.py and the session routes  *)
(* of webui/routes/chat_tasks.py. Events are immutable, so an event is     *)
(* named by its sequence number and the digest of a checkpoint is the set  *)
(* of the sequence numbers it was computed from.                           *)
(*                                                                         *)
(* compact, reset and close read the session, then the events, then write  *)
(* the checkpoint, and go on in up to three more transactions; each one is *)
(* an action. Only reset compares the version it was given: when it starts *)
(* and again, under the row lock, when it advances the generation.         *)
(***************************************************************************)
EXTENDS MemoryGovernance, Sequences

CONSTANTS
  Owner,           \* whose session it is
  Secrets,         \* contents that name a credential
  Answers,         \* what a model can answer
  MaxEvents,       \* bound on the events and versions at which the user stops
  MaxCheckpoints   \* bound on the checkpoints at which requests stop coming

\* The claim under which extract_candidates files what the user asks to be remembered.
Preference == "user.preference"

ASSUME ContextAssumption ==
  /\ Owner \in Users
  /\ Secrets \subseteq Contents
  /\ Preference \in Claims
  /\ Calls # {}
  /\ None \notin {"user", "assistant"}
  /\ 1..MaxEvents \subseteq Events
  /\ MaxEvents \in Nat /\ MaxCheckpoints \in Nat

VARIABLES
  session,         \* the row of conversation_sessions
  events,          \* conversation_events, by sequence number
  checkpoints,     \* context_checkpoints, in the order of their inserts
  call             \* compact, reset, close and distil requests in flight

contextVars == <<session, events, checkpoints, call>>

Event == [type : {"user_message", "assistant_message", "session_closed", "context_reset"},
          gen : Nat, id : {"user", "assistant", None}, says : Contents \cup Answers \cup {None}]

Checkpoint == [gen : Nat, read : SUBSET Nat, status : {"active", "superseded"}, copyOf : Nat]

Quiet == [pc |-> "idle", kind |-> None, gen |-> 0, version |-> 0, read |-> {}, wrote |-> 0,
          auto |-> FALSE, todo |-> {}]

ContextInit ==
  /\ session \in [state : {"absent", "active"}, gen : {1}, version : {1}, auto : BOOLEAN]
  /\ events = <<>>
  /\ checkpoints = <<>>
  /\ call = [p \in Calls |-> Quiet]

Numbers == DOMAIN events

Resting(p) == call[p].pc \in {"idle", "done"}

Goto(p, pc) == call' = [call EXCEPT ![p].pc = pc]

\* The request is over, and it has not reported success.
Leave(p) == call' = [call EXCEPT ![p] = Quiet]

\* append_event, once it holds the row of an active session and found no event of the id.
AppendEvent(type, id, says) ==
  /\ events' = Append(events, [type |-> type, gen |-> session.gen, id |-> id, says |-> says])
  /\ session' = [session EXCEPT !.version = @ + 1]

---------------------------------------------------------------------------
CreateSession(auto) ==
  /\ session.state = "absent"
  /\ session' = [session EXCEPT !.state = "active", !.auto = auto]
  /\ UNCHANGED <<events, checkpoints, call>>

\* set_auto_memory compares the version in its UPDATE; the user passes the one he has seen.
SetAutoMemory(auto) ==
  /\ session.state = "active" /\ session.auto # auto
  /\ session.version <= MaxEvents
  /\ session' = [session EXCEPT !.auto = auto, !.version = @ + 1]
  /\ UNCHANGED <<events, checkpoints, call>>

\* A message that is not part of a chat request of ChatRequests.
UserSays(says) ==
  /\ session.state = "active" /\ Len(events) < MaxEvents
  /\ AppendEvent("user_message", None, says)
  /\ UNCHANGED <<checkpoints, call>>

\* compact, reset and close all begin by reading the session; reset has compared its version to
\* the one the caller gives, so it goes on with the version it has read.
Begin(p, kind) ==
  /\ Resting(p) /\ Len(checkpoints) < MaxCheckpoints
  /\ session.state # "absent"
  /\ call' = [call EXCEPT ![p] = [Quiet EXCEPT !.pc = "read", !.kind = kind, !.gen = session.gen,
                                               !.version = session.version]]
  /\ UNCHANGED <<session, events, checkpoints>>

OfGeneration(g) == {i \in Numbers : events[i].gen = g}

ReadEvents(p) ==
  /\ call[p].pc = "read"
  /\ IF OfGeneration(call[p].gen) = {} THEN Leave(p)
     ELSE call' = [call EXCEPT ![p].pc = "write", ![p].read = OfGeneration(call[p].gen)]
  /\ UNCHANGED <<session, events, checkpoints>>

\* A partial unique index admits one active checkpoint of a generation.
ActiveOf(g) == {k \in DOMAIN checkpoints : checkpoints[k].gen = g /\ checkpoints[k].status = "active"}

\* UPDATE and INSERT of one transaction. Two writers of a generation that overlap have not seen
\* each other's row, and the second meets the index.
WriteCheckpoint(p) ==
  LET c == call[p]
  IN /\ c.pc = "write"
     /\ \/ /\ checkpoints' = Append([k \in DOMAIN checkpoints |->
                                IF k \in ActiveOf(c.gen)
                                THEN [checkpoints[k] EXCEPT !.status = "superseded"]
                                ELSE checkpoints[k]],
                                [gen |-> c.gen, read |-> c.read, status |-> "active", copyOf |-> 0])
           /\ IF c.kind = "compact" THEN Leave(p)
              ELSE call' = [call EXCEPT ![p].pc = IF c.kind = "reset" THEN "advance" ELSE "append",
                                        ![p].wrote = Len(checkpoints) + 1]
        \/ /\ \E q \in Calls \ {p} : call[q].pc = "write" /\ call[q].gen = c.gen
           /\ Leave(p)
           /\ UNCHANGED checkpoints
     /\ UNCHANGED <<session, events>>

\* Defect: the version is compared only when the reset starts.
AnyVersion(p) == session.version >= call[p].version

\* reset, under the row lock.
SameVersion(p) == session.version = call[p].version

Advance(p) ==
  /\ call[p].pc = "advance"
  /\ IF SameVersion(p)
     THEN /\ session' = [session EXCEPT !.gen = @ + 1, !.version = @ + 1]
          /\ call' = [call EXCEPT ![p].pc = "append", ![p].gen = session.gen + 1]
     ELSE Leave(p) /\ UNCHANGED session
  /\ UNCHANGED <<events, checkpoints>>

\* Defect: the event gets the generation that the request has read, as its checkpoint does.
AppendMarkerOfCall(p) ==
  /\ call[p].pc = "append"
  /\ IF session.state = "active"
     THEN /\ events' = Append(events,
               [type |-> IF call[p].kind = "reset" THEN "context_reset" ELSE "session_closed",
                gen |-> call[p].gen, id |-> None, says |-> None])
          /\ session' = [session EXCEPT !.version = @ + 1]
          /\ Goto(p, IF call[p].kind = "reset" THEN "copy" ELSE "close")
     ELSE Leave(p) /\ UNCHANGED <<session, events>>
  /\ UNCHANGED checkpoints

\* reset and close record themselves as an event, of the generation they find.
AppendMarker(p) ==
  /\ call[p].pc = "append"
  /\ IF session.state = "active"
     THEN /\ AppendEvent(IF call[p].kind = "reset" THEN "context_reset" ELSE "session_closed",
                         None, None)
          /\ Goto(p, IF call[p].kind = "reset" THEN "copy" ELSE "close")
     ELSE Leave(p) /\ UNCHANGED <<session, events>>
  /\ UNCHANGED checkpoints

\* reset hands the checkpoint over to the generation it has opened, unless someone has compacted
\* that one in the meantime.
CopyCheckpoint(p) ==
  /\ call[p].pc = "copy"
  /\ checkpoints' = IF ActiveOf(call[p].gen) = {}
       THEN Append(checkpoints, [checkpoints[call[p].wrote] EXCEPT
                     !.gen = call[p].gen, !.status = "active", !.copyOf = call[p].wrote])
       ELSE checkpoints
  /\ Leave(p)
  /\ UNCHANGED <<session, events>>

CloseSession(p) ==
  /\ call[p].pc = "close"
  /\ session' = IF session.state = "active"
                THEN [session EXCEPT !.state = "closed", !.version = @ + 1] ELSE session
  /\ call' = [call EXCEPT ![p] = [Quiet EXCEPT !.pc = "distil", !.kind = "close"]]
  /\ UNCHANGED <<events, checkpoints>>

BeginDistil(p) ==
  /\ Resting(p) /\ session.state # "absent"
  /\ call' = [call EXCEPT ![p] = [Quiet EXCEPT !.pc = "distil", !.kind = "distil"]]
  /\ UNCHANGED <<session, events, checkpoints>>

\* A request dies between two of its transactions.
CrashCall(p) ==
  /\ ~Resting(p)
  /\ Leave(p)
  /\ UNCHANGED <<session, events, checkpoints>>

---------------------------------------------------------------------------
\* Defect: only what the last checkpoint covers is looked at.
CandidatesOfCheckpoint ==
  {i \in Numbers : /\ events[i].type = "user_message" /\ events[i].says # None
                   /\ \E k \in ActiveOf(session.gen) : i \in checkpoints[k].read}

\* extract_candidates: the user messages that ask for something to be remembered.
Candidates == {i \in Numbers : events[i].type = "user_message" /\ events[i].says # None}

\* _distill_session reads the session, then its events.
ReadCandidates(p) ==
  /\ call[p].pc = "distil"
  /\ call' = [call EXCEPT ![p].pc = "create", ![p].auto = session.auto, ![p].todo = Candidates]
  /\ op' = [op EXCEPT ![p] = Idle]
  /\ UNCHANGED <<session, events, checkpoints, memory, replaces, expiry>>

\* What escapes the loop: a unique index that refuses the insert, not a refused candidate.
Escapes(p) == op[p].pc = "raised"

\* One candidate after the other, in their order, goes through create_governed_candidate.
DistilNext(p) ==
  /\ call[p].pc = "create"
  /\ \/ /\ op[p].pc = "insert"
        /\ InsertMemory(p)
        /\ UNCHANGED call
     \/ /\ Free(p) /\ Escapes(p)
        /\ Leave(p)
        /\ UNCHANGED memoryVars
     \/ /\ Free(p) /\ ~Escapes(p) /\ call[p].todo = {}
        /\ call' = [call EXCEPT ![p] = IF @.kind = "close" THEN [Quiet EXCEPT !.pc = "done"] ELSE Quiet]
        /\ UNCHANGED memoryVars
     \/ /\ Free(p) /\ ~Escapes(p)
        /\ \E i \in call[p].todo :
             /\ \A j \in call[p].todo : i <= j
             /\ CreateGoverned(p, Owner, events[i].says, "personal", Preference,
                               IF events[i].says \in Secrets THEN "prohibited" ELSE "low",
                               {i}, call[p].auto)
             /\ call' = [call EXCEPT ![p].todo = @ \ {i}]
  /\ UNCHANGED <<session, events, checkpoints>>

---------------------------------------------------------------------------
\* The log is one of generations that follow one another, whichever requests reset the session and
\* whichever append to it meanwhile: what a checkpoint of a generation covers has no events of another
\* between its first and its last.
Ordered ==
  /\ \A i, j \in Numbers : i <= j => events[i].gen <= events[j].gen
  /\ \A i \in Numbers : events[i].gen <= session.gen

ContextTypeOK ==
  /\ session.state \in {"absent", "active", "closed"}
  /\ session.gen \in Nat /\ session.version \in Nat /\ session.auto \in BOOLEAN
  /\ (\A i \in Numbers : events[i] \in Event) /\ Ordered
  /\ \A k \in DOMAIN checkpoints : /\ checkpoints[k].gen \in Nat
                                   /\ checkpoints[k].read \subseteq Numbers
                                   /\ checkpoints[k].status \in {"active", "superseded"}
                                   /\ checkpoints[k].copyOf \in 0..(k - 1)
  /\ \A p \in Calls : call[p].pc \in {"idle", "read", "write", "advance", "append", "copy", "close",
                                      "distil", "create", "done"}

\* resume recomputes the digest over the events between the first and the last one covered,
\* whatever their generation.
Covered(read) == {i \in Numbers : \E j, k \in read : j <= i /\ i <= k}

Corrupt(k) == Covered(checkpoints[k].read) # checkpoints[k].read

\* A handoff says everything it stands for: no checkpoint is ever found corrupt by resume, a
\* generation has one active checkpoint, and the one that reset hands over to a new generation
\* covers every event of the generation it ended, whatever was said or compacted between the
\* transactions of the reset.
HandoffIsComplete ==
  \A k \in DOMAIN checkpoints :
    /\ ~Corrupt(k)
    /\ k \in ActiveOf(checkpoints[k].gen) => ActiveOf(checkpoints[k].gen) = {k}
    /\ checkpoints[k].copyOf # 0 => OfGeneration(checkpoints[k].gen - 1) \subseteq checkpoints[k].read

\* A session that close reported as closed has been distilled: what its user asked to be remembered
\* before the end of it is in the table, even if another distillation of the same session, a
\* decision about one of the memories or a reset came between the transactions.
ClosedIsDistilled ==
  \A p \in Calls :
    call[p].pc = "done" =>
      \A i \in Numbers : events[i].says \in Contents => events[i].says \in Rows
============================================================================
