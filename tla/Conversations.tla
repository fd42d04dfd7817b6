--------------------------- MODULE Conversations ---------------------------
(***************************************************************************)
(* The conversation side of the service: a chat request, the session it is *)
(* part of, and the memories that the session leaves. The three share the  *)
(* session and its events, and the table of memories. `focus' says whose   *)
(* concurrency a behaviour is about, so that the interleavings of the      *)
(* parts add up instead of multiplying:                                    *)
(*   chat      overlapping deliveries of one request                       *)
(*   turn      one client, against a reset or a close of the session       *)
(*   session   compactions, resets and closes of a session                 *)
(*   distil    closes and distillations, against the owner's deletions     *)
(*   memory    creations, revisions and decisions about memories           *)
(***************************************************************************)
EXTENDS ChatRequests

VARIABLE focus

conversationVars == <<focus, memoryVars, contextVars, chatVars>>

Foci == {"chat", "turn", "session", "distil", "memory"}

Init ==
  /\ focus \in Foci
  /\ MemoryInit /\ ContextInit /\ ChatInit
  /\ focus # "distil" => ~session.auto
  /\ focus = "memory" => session.state = "absent"
  /\ focus = "distil" => session.state = "active"

\* The one client and the one caller of a turn.
ADelivery == CHOOSE d \in Deliveries : TRUE
ACall == CHOOSE p \in Calls : TRUE

SessionStep(p) ==
  \/ ReadEvents(p) \/ WriteCheckpoint(p) \/ Advance(p) \/ AppendMarker(p)
  \/ CopyCheckpoint(p) \/ CloseSession(p) \/ CrashCall(p)

Distil(p) == ReadCandidates(p) \/ DistilNext(p)

\* A decision of the user or of an administrator about a memory.
Decide ==
  \/ \E u \in Users, c \in Contents :
       Approve(u, c) \/ Reject(u, c) \/ Delete(u, c) \/ ResolveConflict(u, c)
  \/ \E c \in Contents : TimePasses(c) \/ RevertExpiry(c)
  \/ ExpireDue
  \/ RevokeSources(Events)

Remember(p) ==
  \/ \E c \in Contents :
       \/ \E scope \in {"personal", "shared"}, claim \in Claims, label \in {"low", "prohibited"} :
            CreateGoverned(p, Owner, c, scope, claim, label, Events, TRUE)
       \/ \E until \in {"never", "later"} : CreateCandidate(p, Owner, c, until)
       \/ \E old \in Contents : Revise(p, Owner, old, c, Events)
  \/ InsertMemory(p) \/ Link(p) \/ CrashOp(p)

DuringChat ==
  /\ \/ \E d \in Deliveries : Send(d) \/ DeliveryStep(d) \/ CrashDelivery(d)
     \/ Reconcile \/ LoseLock
     \/ \E x \in Documents : RevokeDocument(x)
  /\ UNCHANGED memoryVars

DuringTurn ==
  /\ \/ LET d == ADelivery IN Send(d) \/ DeliveryStep(d) \/ CrashDelivery(d)
     \/ Reconcile
     \/ /\ Begin(ACall, "reset") \/ Begin(ACall, "close") \/ SessionStep(ACall)
        /\ UNCHANGED chatVars
  /\ UNCHANGED memoryVars

DuringSession ==
  /\ \/ \E auto \in BOOLEAN : CreateSession(auto) \/ SetAutoMemory(auto)
     \/ UserSays(None)
     \/ \E p \in Calls : \/ \E kind \in {"compact", "reset", "close"} : Begin(p, kind)
                         \/ SessionStep(p)
  /\ UNCHANGED <<memoryVars, chatVars>>

DuringDistil ==
  /\ \/ /\ \/ \E c \in Contents : UserSays(c)
           \/ \E p \in Calls : \/ checkpoints = <<>> /\ Begin(p, "close")
                               \/ SessionStep(p)
           \/ BeginDistil(ACall)
        /\ UNCHANGED memoryVars
     \/ \E p \in Calls : Distil(p)
     \/ \E c \in Contents : Delete(Owner, c) /\ UNCHANGED contextVars
  /\ UNCHANGED chatVars

DuringMemory ==
  /\ Decide \/ \E p \in Calls : Remember(p)
  /\ UNCHANGED <<contextVars, chatVars>>

Next ==
  /\ UNCHANGED focus
  /\ \/ focus = "chat" /\ DuringChat
     \/ focus = "turn" /\ DuringTurn
     \/ focus = "session" /\ DuringSession
     \/ focus = "distil" /\ DuringDistil
     \/ focus = "memory" /\ DuringMemory

Spec == Init /\ [][Next]_conversationVars

\* A handler that has begun goes on, a client that was refused sends the request again, and an
\* operator reconciles what waits for its evidence.
LiveSpec ==
  /\ Spec
  /\ WF_conversationVars(focus \in {"chat", "turn"} /\ Reconcile /\ UNCHANGED <<focus, memoryVars>>)
  /\ \A d \in Deliveries :
       WF_conversationVars(/\ focus = "chat" \/ (focus = "turn" /\ d = ADelivery)
                           /\ Send(d) \/ DeliveryStep(d)
                           /\ UNCHANGED <<focus, memoryVars>>)

---------------------------------------------------------------------------
\* The types of all three parts; and whoever resets, closes or writes to a session, no event of an earlier
\* generation comes behind one of a later (Ordered).
ConversationsTypeOK ==
  /\ focus \in Foci
  /\ MemoryTypeOK /\ ContextTypeOK /\ ChatTypeOK
=============================================================================
