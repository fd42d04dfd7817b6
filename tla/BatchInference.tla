--------------------------- MODULE BatchInference ---------------------------
(***************************************************************************)
(* The batching of prompts on one event loop: BatchInferenceEngine of      *)
(* src/inference/batch_engine.py, the exact cache of inference/cache.py    *)
(* that it asks first, and predict_async, which calls it. An action runs   *)
(* from one await to the next; only the model itself runs in a thread.     *)
(***************************************************************************)
EXTENDS Integers, Sequences, SequencesExt

CONSTANTS
  Requests,     \* calls of generate()
  Settings,     \* values of generation_kwargs
  MaxBatch,     \* max_batch_size
  MaxShutdowns  \* bound on shutdowns of the engine

ASSUME BatchAssumption == MaxBatch \in Nat \ {0} /\ MaxShutdowns \in Nat

VARIABLES
  request,      \* the calls and their futures
  queue,        \* the deque
  processor,    \* the task _processor_task, the batch it took out of the deque and what is left to run of it
  shutdown,     \* the call of shutdown()
  abandoned     \* history: requests that a shutdown took from under the processor

batchVars == <<request, queue, processor, shutdown, abandoned>>

Unasked == [pc |-> "idle", future |-> "none", setting |-> "none"]

BatchInit ==
  /\ request = [r \in Requests |-> Unasked]
  /\ queue = <<>>
  /\ processor = [pc |-> "none", batch |-> <<>>, left |-> {}]
  /\ shutdown = [pc |-> "idle", count |-> 0]
  /\ abandoned = {}

Now(r, pc) == request[r].pc = pc

\* generate() returns or raises; its future, if it has one, is set or cancelled.
Return(r) == request' = [request EXCEPT ![r].pc = "ended", ![r].future = "none"]

\* The future of a request is set once, and not when the client has gone away.
Resolved(S, outcome) ==
  [r \in Requests |-> IF r \in S /\ request[r].future = "pending"
                      THEN [request[r] EXCEPT !.future = outcome] ELSE request[r]]

Running == processor.pc \in {"filling", "executing"}

Ask(r) ==
  /\ Now(r, "idle")
  /\ \E s \in Settings : request' = [request EXCEPT ![r] = [Unasked EXCEPT !.pc = "lookup", !.setting = s]]
  /\ UNCHANGED <<queue, processor, shutdown, abandoned>>

\* The exact entry of the caller's scope, or an error of Redis, which goes to the caller.
AnswerFromCache(r) ==
  /\ Now(r, "lookup")
  /\ Return(r)
  /\ UNCHANGED <<queue, processor, shutdown, abandoned>>

Filling == [pc |-> "filling", batch |-> <<>>, left |-> {}]
Stopped == [pc |-> "ended", batch |-> <<>>, left |-> {}]

\* Defect: a processor that has ended is not started again.
StartOnce == IF processor.pc = "none" THEN Filling ELSE processor

StartProcessor == IF Running THEN processor ELSE Filling

\* A miss. There is no await between the append and the look at the task.
Enqueue(r) ==
  /\ Now(r, "lookup")
  /\ request' = [request EXCEPT ![r].pc = "waiting", ![r].future = "pending"]
  /\ queue' = Append(queue, r)
  /\ processor' = StartProcessor
  /\ UNCHANGED <<shutdown, abandoned>>

\* _process_queue takes a full batch, or what there is when the wait is over; a deque that a shutdown
\* has emptied ends it.
TakeBatch ==
  /\ processor.pc = "filling"
  /\ LET n == IF Len(queue) < MaxBatch THEN Len(queue) ELSE MaxBatch
         batch == SubSeq(queue, 1, n)
     IN  /\ processor' = IF n = 0 THEN Stopped
                         ELSE [pc |-> "executing", batch |-> batch, left |-> Range(batch)]
         /\ queue' = SubSeq(queue, n + 1, Len(queue))
  /\ UNCHANGED <<request, shutdown, abandoned>>

\* The next group of the batch: all its requests with the setting of the first that is left.
FirstLeft ==
  CHOOSE i \in DOMAIN processor.batch :
    /\ processor.batch[i] \in processor.left
    /\ \A j \in 1..(i - 1) : processor.batch[j] \notin processor.left

Group ==
  {r \in processor.left : request[r].setting = request[processor.batch[FirstLeft]].setting}

\* The model answers a group or raises; the futures are set, and after the last group the processor looks
\* at the deque before anything else can run. The model gives one text for each prompt of the group, so
\* the zip of requests and results leaves no request of it out.
RunGroup ==
  /\ processor.pc = "executing"
  /\ processor' = IF processor.left # Group
                  THEN [processor EXCEPT !.left = @ \ Group]
                  ELSE IF queue # <<>> THEN Filling ELSE Stopped
  /\ \E outcome \in {"result", "error"} : request' = Resolved(Group, outcome)
  /\ UNCHANGED <<queue, shutdown, abandoned>>

\* generate() goes on when its future is set: an error or a cancellation ends it, a result is stored in
\* the cache before it is returned.
Wake(r) ==
  /\ Now(r, "waiting")
  /\ \/ request[r].future \in {"error", "cancelled"} /\ Return(r)
     \/ request[r].future = "result" /\ request' = [request EXCEPT ![r].pc = "store"]
  /\ UNCHANGED <<queue, processor, shutdown, abandoned>>

\* The store may raise.
StoreResult(r) ==
  /\ Now(r, "store")
  /\ Return(r)
  /\ UNCHANGED <<queue, processor, shutdown, abandoned>>

\* The client goes away: the task is cancelled at its await, its future with it, and the request stays
\* where it is.
Disconnect(r) ==
  /\ request[r].pc \in {"lookup", "waiting", "store"}
  /\ Return(r)
  /\ UNCHANGED <<queue, processor, shutdown, abandoned>>

\* shutdown cancels the processor. CancelledError is no Exception: the futures of the batch stay pending.
BeginShutdown ==
  /\ shutdown.pc = "idle" /\ shutdown.count < MaxShutdowns
  /\ shutdown' = [pc |-> "clear", count |-> shutdown.count + 1]
  /\ IF Running
     THEN /\ processor' = Stopped
          /\ abandoned' = abandoned \cup processor.left
     ELSE UNCHANGED <<processor, abandoned>>
  /\ UNCHANGED <<request, queue>>

\* What came in while it waited for the processor is cancelled as well.
ClearQueue ==
  /\ shutdown.pc = "clear"
  /\ shutdown' = [shutdown EXCEPT !.pc = "idle"]
  /\ request' = Resolved(Range(queue), "cancelled")
  /\ queue' = <<>>
  /\ UNCHANGED <<processor, abandoned>>

BatchStep ==
  \/ \E r \in Requests :
       Ask(r) \/ AnswerFromCache(r) \/ Enqueue(r) \/ Wake(r) \/ StoreResult(r) \/ Disconnect(r)
  \/ TakeBatch \/ RunGroup \/ BeginShutdown \/ ClearQueue

---------------------------------------------------------------------------
BatchTypeOK ==
  /\ \A r \in Requests : request[r].future \in {"none", "pending", "result", "error", "cancelled"}
  /\ queue \in Seq(Requests) /\ IsInjective(queue)
  /\ Len(processor.batch) <= MaxBatch
  /\ abandoned \subseteq Requests

\* No call of generate() is left waiting: a future that is not set is in the deque or with the processor,
\* and what is in the deque has a processor that will take it or a shutdown that will cancel it, whichever
\* clients go away, whichever batch fails and whenever the processor runs out of work. Only what a
\* shutdown took from a processor in the middle of a batch waits for ever.
WaitingIsServed ==
  /\ \A r \in Requests :
       request[r].future = "pending" =>
         r \in Range(queue) \cup processor.left \cup abandoned
  /\ queue # <<>> => Running \/ shutdown.pc = "clear"
  /\ processor.left # {} => processor.pc = "executing"
=============================================================================
