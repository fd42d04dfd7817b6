---------------------------- MODULE ChatRequests ----------------------------
(***************************************************************************)
(* One chat request that its client may send any number of times:          *)
(* webui/chat_requests.py, _run_chat of webui/routes/chat_tasks.py, the    *)
(* context and result objects of webui/state.py and src/feedback.py. A     *)
(* delivery is one execution of the handler; deliveries exclude each other *)
(* with an advisory lock held by an open transaction, which is gone when   *)
(* the connection is, while the handler goes on.                           *)
(*                                                                         *)
(* The task is an AgentRuntime task of one step (AgentRuntime.tla has the  *)
(* detail): here it is created once, runs under a lease, and ends as       *)
(* succeeded or failed or with its evidence pending.                       *)
(***************************************************************************)
EXTENDS ContextSessions

CONSTANTS
  Deliveries,   \* times the client sends the request
  Documents,    \* documents that answers can cite
  MaxFaults     \* bound on lost locks and crashes together

ASSUME ChatAssumption ==
  None \notin Answers \cup Deliveries /\ MaxFaults \in Nat /\ Deliveries # {}

VARIABLES
  receipt,      \* the row of chat_requests
  lock,         \* the delivery that holds the advisory lock
  task,         \* the task of the request
  ready,        \* documents in state 'ready' that the user may read
  feedback,     \* the feedback object of the request
  delivery,     \* the executions of the handler
  faults        \* lost locks and crashes so far

chatVars == <<receipt, lock, task, ready, feedback, delivery, faults>>

\* A context envelope: the documents it quotes, and who built it, since every build has a snapshot
\* id of its own.
Context == [docs : SUBSET Documents, by : Deliveries]

ASSUME NoneIsNoContext == None \notin Context \cup [ctx : Context \cup {None}]

NoTask == [state |-> "none", ctx |-> None, answer |-> None, runner |-> None]

\* `seen' is the state of the task when the delivery began, `ctx' the context it works with, `gen'
\* the generation of the session it has read. `began' is history: the documents that were ready
\* when the client sent the request this time.
Unsent == [pc |-> "idle", seen |-> "none", ctx |-> None, gen |-> 0, answer |-> None,
           began |-> Documents]

ChatInit ==
  /\ receipt = None
  /\ lock = None
  /\ task = NoTask
  /\ ready = Documents
  /\ feedback = None
  /\ delivery = [d \in Deliveries |-> Unsent]
  /\ faults = 0

At(d, pc) == delivery[d].pc = pc

Step(d, pc) == delivery' = [delivery EXCEPT ![d].pc = pc]

\* Defect: the claim is not left when the handler raises.
RefuseAndKeepLock(d) == delivery' = [delivery EXCEPT ![d] = Unsent] /\ UNCHANGED lock

\* An HTTP error leaves the claim: its transaction rolls back and the lock is free.
Refuse(d) ==
  /\ delivery' = [delivery EXCEPT ![d] = Unsent]
  /\ lock' = IF lock = d THEN None ELSE lock

Proceed(d, pc) == Step(d, pc) /\ UNCHANGED lock

Send(d) ==
  /\ At(d, "idle")
  /\ delivery' = [delivery EXCEPT ![d] = [Unsent EXCEPT !.pc = "claim", !.began = ready]]
  /\ UNCHANGED <<receipt, lock, task, ready, feedback, faults, contextVars>>

\* claim: try the lock, insert the receipt unless it is there.
Claim(d) ==
  /\ At(d, "claim")
  /\ \/ /\ lock = None
        /\ lock' = d
        /\ receipt' = IF receipt = None THEN [ctx |-> None] ELSE receipt
        /\ Step(d, "receipt")
     \/ /\ lock # None
        /\ Refuse(d)
        /\ UNCHANGED receipt
  /\ UNCHANGED <<task, ready, feedback, faults, contextVars>>

ReadReceipt(d) ==
  /\ At(d, "receipt")
  /\ delivery' = [delivery EXCEPT ![d].pc = "task", ![d].ctx = receipt.ctx]
  /\ UNCHANGED <<receipt, lock, task, ready, feedback, faults, contextVars>>

ReadTask(d) ==
  /\ At(d, "task")
  /\ delivery' = [delivery EXCEPT ![d].pc = "session", ![d].seen = task.state]
  /\ UNCHANGED <<receipt, lock, task, ready, feedback, faults, contextVars>>

\* A request without a session creates the one its receipt names; a session that is no longer
\* active only serves a request that has been answered.
CheckSession(d) ==
  /\ At(d, "session")
  /\ session' = IF session.state = "absent" THEN [session EXCEPT !.state = "active"] ELSE session
  /\ IF session'.state = "active" \/ delivery[d].seen = "succeeded"
     THEN /\ delivery' = [delivery EXCEPT ![d].pc = "user", ![d].gen = session.gen]
          /\ UNCHANGED lock
     ELSE Refuse(d)
  /\ UNCHANGED <<receipt, task, ready, feedback, faults, events, checkpoints, call>>

\* append_event with an id derived from the run: an event that is there is returned as it is.
EventOf(id) == {i \in Numbers : events[i].id = id}

\* The question, in the generation in which it was first asked.
AppendUser(d) ==
  /\ At(d, "user")
  /\ \/ /\ EventOf("user") # {}
        /\ IF \A i \in EventOf("user") : events[i].gen = delivery[d].gen
           THEN Proceed(d, "context") ELSE Refuse(d)
        /\ UNCHANGED <<events, session>>
     \/ /\ EventOf("user") = {} /\ session.state = "active"
        /\ AppendEvent("user_message", "user", None)
        /\ IF session.gen = delivery[d].gen THEN Proceed(d, "context") ELSE Refuse(d)
     \/ /\ EventOf("user") = {} /\ session.state # "active"
        /\ Refuse(d)
        /\ UNCHANGED <<events, session>>
  /\ UNCHANGED <<receipt, task, ready, feedback, faults, checkpoints, call>>

\* Defect: a context that was authorized once stays so.
AuthorizedOnce(docs) == TRUE

\* The documents are all there and ready, read with the rights of the user at this moment.
Authorized(docs) == docs \subseteq ready

AfterContext(d) == IF delivery[d].seen = "none" THEN "create" ELSE "run"

LoadContext(d) ==
  /\ At(d, "context") /\ delivery[d].ctx # None
  /\ IF Authorized(delivery[d].ctx.docs) THEN Proceed(d, AfterContext(d)) ELSE Refuse(d)
  /\ UNCHANGED <<receipt, task, ready, feedback, faults, contextVars>>

BuildContext(d) ==
  /\ At(d, "context") /\ delivery[d].ctx = None
  /\ \E docs \in SUBSET ready :
       delivery' = [delivery EXCEPT ![d].pc = "save", ![d].ctx = [docs |-> docs, by |-> d]]
  /\ UNCHANGED <<receipt, lock, task, ready, feedback, faults, contextVars>>

\* Defect: the UPDATE does not ask for an unbound receipt.
OverwriteContext(d) ==
  /\ At(d, "save")
  /\ receipt' = [receipt EXCEPT !.ctx = delivery[d].ctx]
  /\ Proceed(d, AfterContext(d))
  /\ UNCHANGED <<task, ready, feedback, faults, contextVars>>

\* The context is bound to the receipt once.
SaveContext(d) ==
  /\ At(d, "save")
  /\ IF receipt.ctx = None
     THEN /\ receipt' = [receipt EXCEPT !.ctx = delivery[d].ctx]
          /\ Proceed(d, AfterContext(d))
     ELSE Refuse(d) /\ UNCHANGED receipt
  /\ UNCHANGED <<task, ready, feedback, faults, contextVars>>

\* The id of the task is the receipt's: a second insert is refused.
CreateTask(d) ==
  /\ At(d, "create")
  /\ IF task.state = "none"
     THEN /\ task' = [NoTask EXCEPT !.state = "queued", !.ctx = delivery[d].ctx]
          /\ Proceed(d, "run")
     ELSE Refuse(d) /\ UNCHANGED task
  /\ UNCHANGED <<receipt, ready, feedback, faults, contextVars>>

\* AgentRuntime.run takes the lease, or returns a task it cannot take as it is.
TakeTask(d) ==
  /\ At(d, "run")
  /\ IF delivery[d].seen # "succeeded" /\ task.state = "queued" /\ task.runner = None
     THEN task' = [task EXCEPT !.runner = d] /\ Step(d, "running")
     ELSE UNCHANGED task /\ Step(d, "respond")
  /\ UNCHANGED <<receipt, lock, ready, feedback, faults, contextVars>>

\* The step has a verifier that reads the documents; success waits for the evidence if it cannot
\* be published at once.
RunTask(d) ==
  /\ At(d, "running")
  /\ \/ \E a \in Answers :
          /\ Authorized(task.ctx.docs)
          /\ \E s \in {"succeeded", "evidence_pending"} :
               task' = [task EXCEPT !.state = s, !.answer = a, !.runner = None]
     \/ task' = [task EXCEPT !.state = "failed", !.runner = None]
  /\ Step(d, "respond")
  /\ UNCHANGED <<receipt, lock, ready, feedback, faults, contextVars>>

\* reconcile_evidence, by an operator.
Reconcile ==
  /\ task.state = "evidence_pending"
  /\ \E s \in {"succeeded", "failed"} : task' = [task EXCEPT !.state = s]
  /\ UNCHANGED <<receipt, lock, ready, feedback, delivery, faults, contextVars>>

\* The result is read back from its object; for a task that was there before this delivery the
\* documents are verified again.
Respond(d) ==
  /\ At(d, "respond")
  /\ IF /\ task.state = "succeeded"
        /\ delivery[d].seen # "none" => Authorized(task.ctx.docs)
     THEN /\ delivery' = [delivery EXCEPT ![d].pc = "assistant", ![d].answer = task.answer]
          /\ UNCHANGED lock
     ELSE Refuse(d)
  /\ UNCHANGED <<receipt, task, ready, feedback, faults, contextVars>>

AppendAssistant(d) ==
  /\ At(d, "assistant")
  /\ \/ /\ EventOf("assistant") # {}
        /\ IF \A i \in EventOf("assistant") : events[i].says = delivery[d].answer
           THEN Proceed(d, "feedback") ELSE Refuse(d)
        /\ UNCHANGED <<events, session>>
     \/ /\ EventOf("assistant") = {} /\ session.state = "active"
        /\ AppendEvent("assistant_message", "assistant", delivery[d].answer)
        /\ Proceed(d, "feedback")
     \/ /\ EventOf("assistant") = {} /\ session.state # "active"
        /\ Refuse(d)
        /\ UNCHANGED <<events, session>>
  /\ UNCHANGED <<receipt, task, ready, feedback, faults, checkpoints, call>>

\* save_feedback under the id of the run: the same bytes are accepted again, others are not.
SaveFeedback(d) ==
  /\ At(d, "feedback")
  /\ IF feedback \in {None, [answer |-> delivery[d].answer, ctx |-> delivery[d].ctx]}
     THEN /\ feedback' = [answer |-> delivery[d].answer, ctx |-> delivery[d].ctx]
          /\ Proceed(d, "return")
     ELSE Refuse(d) /\ UNCHANGED feedback
  /\ UNCHANGED <<receipt, task, ready, faults, contextVars>>

\* Leaving the claim commits the transaction of the lock, if its connection is still there.
Return(d) ==
  /\ At(d, "return")
  /\ IF lock = d THEN Step(d, "answered") /\ lock' = None ELSE Refuse(d)
  /\ UNCHANGED <<receipt, task, ready, feedback, faults, contextVars>>

---------------------------------------------------------------------------
LoseLock ==
  /\ lock # None /\ faults < MaxFaults
  /\ lock' = None
  /\ faults' = faults + 1
  /\ UNCHANGED <<receipt, task, ready, feedback, delivery, contextVars>>

\* The process of a delivery dies; the lease of a task it was running expires.
CrashDelivery(d) ==
  /\ delivery[d].pc \notin {"idle", "answered"} /\ faults < MaxFaults
  /\ Refuse(d)
  /\ task' = IF task.runner = d THEN [task EXCEPT !.runner = None] ELSE task
  /\ faults' = faults + 1
  /\ UNCHANGED <<receipt, ready, feedback, contextVars>>

RevokeDocument(x) ==
  /\ x \in ready
  /\ ready' = ready \ {x}
  /\ UNCHANGED <<receipt, lock, task, feedback, delivery, faults, contextVars>>

DeliveryStep(d) ==
  \/ Claim(d) \/ ReadReceipt(d) \/ ReadTask(d) \/ CheckSession(d) \/ AppendUser(d)
  \/ LoadContext(d) \/ BuildContext(d) \/ SaveContext(d) \/ CreateTask(d) \/ TakeTask(d)
  \/ RunTask(d) \/ Respond(d) \/ AppendAssistant(d) \/ SaveFeedback(d) \/ Return(d)

ChatStep ==
  \/ \E d \in Deliveries : Send(d) \/ DeliveryStep(d) \/ CrashDelivery(d)
  \/ Reconcile \/ LoseLock
  \/ \E x \in Documents : RevokeDocument(x)

---------------------------------------------------------------------------
ChatTypeOK ==
  /\ receipt \in {None} \cup [ctx : Context \cup {None}]
  /\ lock \in Deliveries \cup {None}
  /\ task.state \in {"none", "queued", "evidence_pending", "succeeded", "failed"}
  /\ task.ctx \in Context \cup {None} /\ task.answer \in Answers \cup {None}
  /\ ready \subseteq Documents
  /\ feedback \in {None} \cup [answer : Answers, ctx : Context]
  /\ \A d \in Deliveries : delivery[d].ctx \in Context \cup {None}

Answered(d) == At(d, "answered")

\* One request has one answer: every delivery that returns one returns the same, the conversation
\* has one question and one answer of it, in that order, and the feedback object and the receipt
\* tell of the context the answer was made from. That must survive deliveries that overlap because
\* a lock was lost, and a crash between any two of the handler's transactions.
OneAnswerPerRequest ==
  \A d \in Deliveries : Answered(d) =>
    /\ delivery[d].answer = task.answer
    /\ feedback = [answer |-> task.answer, ctx |-> task.ctx]
    /\ receipt.ctx = task.ctx
    /\ \E i, j \in Numbers : /\ i < j
                             /\ EventOf("user") = {i} /\ EventOf("assistant") = {j}
                             /\ events[j].says = task.answer

\* A delivery never hands out what was revoked before the client sent it: a document that was no
\* longer ready then is not among those its answer rests on, replayed answers included.
NoRevokedAnswers == \A d \in Deliveries : Answered(d) => task.ctx.docs \subseteq delivery[d].began

\* What can keep a request from ever being answered.
Blocked ==
  \/ task.state = "failed"
  \/ session.state = "closed"
  \/ \E i \in EventOf("user") : events[i].gen # session.gen
  \/ receipt # None /\ receipt.ctx # None /\ ~Authorized(receipt.ctx.docs)

\* A client that keeps asking gets its answer, whatever crashed and whichever lock was lost on the
\* way, unless the task has failed, the session was closed or reset, or a document was revoked.
RequestSettles == (receipt # None) ~> (Blocked \/ \E d \in Deliveries : Answered(d))
=============================================================================
