# A TLA+ verification of DataAlchemy

DataAlchemy (`src/`) is an agent platform: an HTTP API creates tasks, an agent
runtime executes their plans step by step through registered tools, and a set of
governed stores (evidence, jobs, releases, training lineage, memories) record what
was done and what may be used. All durable state is in PostgreSQL; long-running
work runs as Kubernetes jobs; objects live in an S3 store. Several API
processes serve one database, so every operation can interleave with every other
one, and a process can die between any two statements.

Paths below are relative to the repository, so `core/agent_runtime.py` is
`src/src/core/agent_runtime.py` of this working directory.

## 1. Inventory

| Component | State it keeps | Operations | Hard behaviour |
|---|---|---|---|
| Agent runtime, `core/agent_runtime.py` | `agent_tasks` (state, plan, checkpoint, approval, requests, lease, version), `agent_tool_runs`, `agent_step_verifications`, `agent_task_events` | `create_task`, `run`, `pause`, `cancel`, `resume`, `retry`, `retry_verification`, `approve`, `replan`, `reconcile_evidence`, `reconcile_job` | leases that expire under a working process, takeovers, retries of side effects, requests racing a running tool, replans of a half-executed plan |
| Evidence service, `core/evidence.py` | `agent_run_manifests`, outbox rows, objects | `request`, `snapshot`, `publish`, `reconcile`, `delete_manifest` | object written, database not yet; a crash inside `publish`; two reconcilers |
| Job service, `core/jobs.py` | `agent_jobs`, outbox rows, Kubernetes jobs | `request`, `submit`, `observe`, `request_cancel`, `reconcile`, `for_task` | an unconditional write decided on an old read; cancel racing submit; job lost |
| Release governance, `release/governance.py` | `release_records`, release events | `create_candidate`, `advance`, `observe`, `status` | a decision taken before the lock; dependencies checked once |
| Training lineage, `harness/evaluation.py` | campaigns, trials, annotations, snapshots, adapters | create, register, finish, complete, review, snapshot, approve, verify, revoke | a revocation racing a promotion that has already read its inputs |
| Attempt controller, `harness/attempts.py`, and `scripts/run_h5_pdf_cycle.py` | `h5_attempts` with a lease | `create_or_load`, `acquire`, `renew`, `state`, `refs`, `gate`; a script that creates or resumes | a stale owner that renews or moves the state |
| Qualification, `harness/qualification.py` | qualification rows | `create`, `approve_data`, `mark_calibrated`, `mark_pilot_ready`, `revoke` | cascades of a revocation |
| Memory governance, `memory/orchestrator.py`, `memory/governance.py` | `memories` with their versions, sources and policy events | create, approve, reject, delete, revise, expire and its reversion, revoke sources, resolve a conflict | operations of several transactions; conflicting approvals |
| Context sessions, `memory/context.py` | sessions, conversation events, checkpoints | append, compact, reset, close, resume, distil | calls of up to five transactions that meet each other and a user who goes on talking |
| Inference, `inference/*.py` | deque of requests, futures, exact cache, loaded adapter | `generate`, the processor, `shutdown`, reload | a future nobody resolves; an adapter revoked while loaded |
| Git connector, `connectors/git.py` | cursor, documents | `sync`, `revoke_source` | two syncs and a force push; partial failure |
| Chat requests, `webui/chat_requests.py`, `webui/routes/chat_tasks.py` | receipts, an advisory lock, context and feedback objects | the handler of a chat request | duplicated delivery, a lock lost with its connection, a crash between claim and answer |
| Job runner, `harness/job_runner.py` | adapter files, manifest rows, transcripts, result objects | the program inside a Kubernetes job | two pods of one input, a pod that dies between two writes |
| Experience compiler, `harness/experience.py`, `compiler.py`, `model_migration.py`, and their scripts | immutable objects named by digest, campaigns, annotations | publish a suite, rerollout, gap report, experience, label, review, compile, decide | scripts of different people and times whose objects are put together; a script that dies half way |
| Run assets, operator | a pointer, a custom resource | publish, reconcile | partial failure |
| Verifiers, tool handlers, RAG, ETL, synthesis, training script, rehearsals | none, or a report | read-only checks, ranking, text cleaning | numeric edges at most |

How they interact. The web routes call the runtime; the runtime calls tool handlers,
which call the services; the runtime hands a run to the evidence service when it
ends, and a long step to the job service, and is called back by
`reconcile_evidence` and `reconcile_job`. Releases refer to
snapshots and adapters by id; the adapter runtime reads the promoted release. A
revocation starts at a source (document, memory) and must reach everything derived
from it. `PROJECT.json` lists every component and the hazards of each, at the line
where they bite.

## 2. Modules

| Module | Models | Checked by |
|---|---|---|
| `AgentRuntime` | one task of the runtime built without evidence and job service, all workers and all control operations | `MCAgentRuntime` with four `AgentRuntime*.cfg` |
| `ExecutionLog` | the abstract promise of a task: each step answered once, only answered steps executed, nothing taken back | refined by `AgentRuntimeLog` |
| `AgentRuntimeLog` | the view of task and ledger under which `AgentRuntime` implements `ExecutionLog` | `MCAgentRuntime` |
| `AgentRuntimeProofs`, `ExecutionLogProofs` | the inductive invariant and the theorems about `AgentRuntime`; the refinement | `tlapm` |
| `EvidenceService` | the manifest of one run, its outbox rows and objects, and the concurrent calls | `MCEvidenceService` with `EvidencePublication.cfg` |
| `EvidenceServiceProofs` | the theorems about `EvidenceService` | `tlapm` |
| `AgentRuntimeEvidence` | `AgentRuntime` with an `EvidenceService` | `MCAgentRuntimeEvidence` with `EvidenceOfSuccess.cfg` |
| `AgentRuntimeEvidenceProofs` | the theorems about `AgentRuntimeEvidence`, which use those about `EvidenceService` | `tlapm` |
| `JobService` | the jobs of one task, the Kubernetes jobs and result objects behind them, the calls of `reconcile` | through `AgentRuntimeJobs` |
| `AgentRuntimeJobs` | `AgentRuntime` with a `JobService` | `MCAgentRuntimeJobs` with `AgentRuntimeJobs*.cfg` |
| `AgentRuntimeJobsProofs` | the theorems about `AgentRuntimeJobs`; that it implements `JobService` | `tlapm` |
| `TrainingLineage` | annotations, snapshots, adapters, campaigns, trials and the open transactions of one tenant | through `ReleaseGovernance` |
| `ReleaseGovernance` | `TrainingLineage` with releases and qualifications, and the adapter a release lets serve | `MCReleaseGovernance` with `Release*.cfg` |
| `ReleaseGovernanceProofs` | the theorems about `ReleaseGovernance` | `tlapm` |
| `MemoryGovernance` | the memories of one tenant and kind | through `Conversations` |
| `ContextSessions` | one session, its events and checkpoints; distillation into `MemoryGovernance` | through `Conversations` |
| `ChatRequests` | one chat request, delivered any number of times, over `ContextSessions` | through `Conversations` |
| `Conversations` | the three together | `MCConversations` with `Conversations.cfg` |
| `ConversationsProofs` | the theorems about `Conversations`, by one invariant with a part for each component | `tlapm` |
| `AttemptController` | the attempts of one run and the processes of the cycle script | through `Services` |
| `JobRunner` | the pods of one training input and of the evaluation of its adapter | through `Services` |
| `BatchInference` | the batching engine on its event loop | through `Services` |
| `GitConnector` | the syncs of one repository and the documents they keep | through `Services` |
| `LearningPipeline` | the scripts from an evaluated suite to a training set and its decision | through `Services` |
| `Services` | these five, one at a time | `MCServices` with `Services.cfg` |
| `ServicesProofs` | the theorems about the attempts, the job runner, the batched inference, the Git connector and the learning pipeline of `Services` | `tlapm` |

### AgentRuntime

`Workers` are concurrent `run()` calls in any process. `pc[w]` is where a call is in
`run()`; `snap[w]` is the row it last read (the dictionary `task` of the code) and
`att[w]` counts the attempts of the present `_call_tool`. `task` is the row;
`ledger` the rows of `agent_tool_runs` (their unique index is on the step);
`passed` the passed rows of `agent_step_verifications`; `granted` is
the part of the event log the approval property needs.

Each SQL transaction is one action, and so is each handler call; between any two
of them other workers, control operations, lease expiry, crashes and exceptions
interleave. The `version` column is only ever compared for equality with a version read
earlier, so the model keeps the set `fresh` of workers whose version is current
instead of a number: this makes the state space finite without a bound on versions.
`wasLeased` records that the current version was visible with a lease, because
`pause` and `cancel` decide by the `lease_owner` they read, and releasing a lease does not
bump the version.

| Code | Action |
|---|---|
| `_acquire_lease`, `_heartbeat`, `_release_lease` | `Acquire`, `Heartbeat`, `LeaseExpires`, `Release` |
| head of the loop, `_safe_control` | `Loop`, `SafeControl` |
| deadline, step contract, rate window | `Refuse` |
| plan completed, `_verify_final`, success | `PlanCompleted`, `VerifyFinal`, `Succeed` |
| approval gate | `Gate` |
| `_call_tool`, `_reserve_tool_run`, `_start_attempt`, `_finish_tool_run` | `Reserve`, `Rearm`, `Condemn`, `StartAttempt`, `RetryAttempt`, `CallSucceeds`, `CallFails`, `ResultTooLarge`, `ToolRaises` |
| exception handlers of `run` with `_fail` and `_transition` | `Reread`, `Fail`, `RequireReconciliation` |
| `_verify_step`, `_record_verification` | `VerifyStep` |
| the checkpoint transaction | `Checkpoint` |
| `pause`, `cancel`, `resume`, `retry`, `retry_verification`, `approve`, `replan` | actions of the same names |
| death of the process, an exception out of `run` | `Crash`, `Interrupt` |

Abstractions. A tool result is its status. A verdict is arbitrary: the registered
verifier decides, the runtime does not. A step id is fresh (a UUID: the plan version
that introduced the step and its position) or, in a replan, one the caller read from
the plan. Only required criteria are kept, optional ones decide nothing. Recording
the verifications of a step and the state change that follows are one action (the
code stops at the first required criterion that does not pass, so any proper subset may have
been recorded). The reads inside a control operation and its guarded `UPDATE` are one
action because the `UPDATE` repeats the version. A caller-supplied step id equal to the
id of the final verification is not modelled.

### EvidenceService and AgentRuntimeEvidence

`call[c]` is where a concurrent call is in `reconcile`, `publish` or `delete_manifest`, and
the digest it works with. Every transaction, every access to the store and every read-back is an action
of its own (`Claim`, `Lookup`, `Snapshot`, `Stage`, `MarkStaged`, `Verify`, `Copy`, `Publish`,
`Block`, `BeginDelete`, `DeleteObject`, `Tombstone`), and a call can raise (`Escape`) or die
(`CrashCall`) between any two. `Rejected` is the database trigger on published rows; `Put`
is a write of the store, which may store something else than it was given.

The composition keeps `AgentRuntime` as it is and adds `tail[w]`: what thread `w` still has to
do about the evidence after the last transaction of `run()`, or inside `reconcile_evidence`
and `delete_evidence`. `RequestSuccess`, `EvidencePending`, `ReadBack`, `Recheck` and `Commit` are the
way of a strict task from its final verification to `succeeded`; `FailRun`,
`RequestFailure`, `ReconcileFailure` are `_fail`. They replace `Succeed` and `Fail` of
`AgentRuntime`; all other steps are taken over.

### JobService and AgentRuntimeJobs

The name of a Kubernetes job and the key of its result are functions of the row, so `job`,
`cluster` and `result` are kept per step. `call[c]` holds the row a call has read: `reconcile`
decides by it, asks the cluster, and then writes without comparing, which is
`Read`, then `Submit`, `Delete` or `Observe`, `ReadResult`, and `Record`. The cluster (pods that
write, end and are removed) is external.

In the composition a tool with `execution = "kubernetes_job"` leaves the inline path of
`run()`: `ReserveJob`, `StartAttempt`, `RequestJob`, `WaitForJob`, with `JobRefused` for a
`RuntimeError` and `JobInterrupt` for any other exception. `reconcile_job` is `ClientReconcilesJob`,
`LookupJob`, the steps of `JobService`, and then `SettleJob`, or `MaterializeResult` and
`ContinueRun`; `cancel` of a waiting task is `CancelWaiting`, `CancelReads`, `CancelJob`.

### TrainingLineage and ReleaseGovernance

PostgreSQL runs every transaction at READ COMMITTED, so what one reads without a lock can be
gone when it writes. A transaction that locks its row `FOR UPDATE` and then writes is one action
(`ReviewAnnotation`, `ApproveSnapshot`, `VerifyAdapter`, `Advance`, ...). The others take one action
per statement, and `tx[s]` is transaction `s` with the rows it has read `FOR SHARE` (`shared`), the
rows it has updated or locked (`held`) and what it will write; `Writable`, `Readable` and `Unlocked` are
the row locks. Updates become visible at the commit, and `Abort` drops a transaction anywhere.

| Code | Action |
|---|---|
| `review_annotation`, `approve_snapshot`, `verify_adapter`, `verify_adapter_for_release` | `ReviewAnnotation`, `ApproveSnapshot`, `VerifyAdapter`, `VerifyAdapterForRelease` |
| `create_snapshot` | `ReadSources`, `InsertSnapshot` |
| `create_adapter_candidate` | `ReadSnapshot`, `InsertAdapter` |
| `create_campaign`, `register_trial`, `finish_trial`, `complete_campaign` | `CreateCampaign`, `RegisterTrial`, `FinishTrial`, `CompleteCampaign` |
| `revoke_source`, `revoke_snapshot` | `RevokeSource` or `RevokeSnapshot`, then `RevokeSnapshots`, `RevokeAdapters`, `RollBackReleases`, `CommitRevocation` |
| `create_candidate` | `ReadDependencies`, `InsertRelease`; `CreateUngoverned` for a manifest of an earlier harness version |
| `advance`, `observe` | `AdvanceRelease`; `Observe`, `ActOnObservation` |
| `create`, `approve_data`, `mark_calibrated`, `revoke` of a qualification | `CreateQualification`, `ApproveData`, `MarkCalibrated`, `RevokeQualification` |
| `_promoted_adapter` | the operator `Resolved`, over `promotions`, the order of `updated_at` |

Annotations exist from the start and are not yet reviewed; everything else is created. Hashes, keys,
reports and metrics are abstracted: whether gates pass, what a trial measures and how a canary does are
choices. A campaign is bound to one adapter (`subject`) or to something else (`None`).
`mark_pilot_ready` has no action (section 6). The transaction of `RevokeQualification` is a single
action although it has several statements: all it writes follows from one campaign, which has
one adapter. `single_tenant_lora` is the only release scope the code accepts.

### MemoryGovernance, ContextSessions, ChatRequests and Conversations

A memory is named by its content: the table admits one row per tenant, kind and content hash,
deleted rows included; `NoRow` stands for a content without a row. `create_governed_candidate` reads
the claim and inserts under READ COMMITTED without a lock, so `CreateGoverned` and `InsertMemory`
are two actions, and `revise` is three (`Revise`, `InsertMemory`, `Link`); `op[p]` is where such a
call is. `Approve`, `Reject`, `Delete`, `ExpireDue`, `RevertExpiry`, `RevokeSources` and
`ResolveConflict` lock their rows or decide in the `UPDATE`, and are one action. `IndexAllows` is
the partial unique index on the approved claim.

A session's events are immutable and numbered, so a checkpoint is the set of numbers it was computed
from. `compact`, `reset` and `close` are calls in `call[p]`: `ReadEvents`, `WriteCheckpoint`,
`Advance`, `AppendMarker`, `CopyCheckpoint`, `CloseSession`, then distillation with `ReadCandidates`
and `DistilNext`, which goes through `CreateGoverned`. Only `reset` compares a version.

A delivery is one execution of the chat handler: `Send`, `Claim`, `ReadReceipt`, `ReadTask`,
`CheckSession`, `AppendUser`, `LoadContext` or `BuildContext` and `SaveContext`, `CreateTask` or
`TakeTask`, `RunTask`, `Respond`, `AppendAssistant`, `SaveFeedback`, `Return`. The advisory lock
belongs to an open transaction, so `LoseLock` frees it while the handler goes on. The task is an
`AgentRuntime` task of one step, reduced to what the handler sees of it.

The composition shares the session, its events and the memories. `focus` says whose concurrency a behaviour
is about (overlapping deliveries; one client against resets and closes; calls on the session;
distillations against deletions; operations on memories), so that the interleavings of the
parts add up instead of multiplying.

### AttemptController, JobRunner, BatchInference, GitConnector, LearningPipeline and Services

- `AttemptController`: a script is a process with a fresh lease owner, so a lease it leaves behind
  belongs to nobody (`Gone`). `CreateOrLoad`, `AcquireAttempt`, `MarkRunning`, `FindSnapshot`,
  `CheckApproval`, `PrepareBase`, `Renew`, `EndBase` follow the script; `IndexHolds` is the unique
  index on the active attempt. Its way on from a training is dead code (`run_job` refuses
  `lora_train`) and is not modelled, but earlier versions took it: `Inherited` is what they can have
  left of the oldest attempt (any state, a snapshot, a release, a configuration that no script of
  today computes). `Resume` leaves out an attempt whose release is promoted or that has passed
  (`OnlyPrinted`): the script prints its receipt and returns. `DecideSnapshot` and
  `DecideRelease` are what other people do to the snapshot and the release meanwhile.
- `JobRunner`: a pod checks, trains, and publishes file by file with conditional puts
  (`PublishFile`), then inserts the manifest (`CreateAdapterCandidate`) and its result; an
  evaluation writes a transcript and finishes a trial per case. An object is the pod whose bytes it
  has.
- `BatchInference`: an action runs from one `await` to the next, only the model runs in a thread.
  `TakeBatch`, `RunGroup` are the processor, `Ask`, `Enqueue`, `Wake`, `StoreResult` a call of
  `generate`; clients `Disconnect`; `BeginShutdown` and `ClearQueue` are `shutdown`. `clear_cache`
  only makes a later `Ask` miss, which it may anyway.
- `GitConnector`: `ListCommits`, `FetchCommit`, `IndexRevision`, `PruneOthers`, `SaveCursor` are the
  requests and transactions of a sync; a commit is its number, which stands for its date and its
  sha.
- `LearningPipeline`: everything published is immutable and named by its digest, so an object is its
  kind, what it says and what it names. A script is `author[p]`: the objects still to write, what
  comes then, and what it has read; it prints a reference, which another script may be given, only
  when the verifier passes. The verifiers of gap reports, experiences, compile manifests and
  decisions are operators (`GapVerifies`, `ExperienceVerifies`, `ManifestVerifies`,
  `DecisionVerifies`, ...). `MigrationDecisions` are the decisions that the outcomes of the trials
  leave possible: the costs, the latencies and the number of critical cases that a policy also asks
  for are left open.

The five meet only through what other components guard (a job, an adapter, a document), so a behaviour of
`Services` is about one of them (`focus`), and the state spaces add up.

## 3. Runs

Bounds: one or two workers (every race in this code is between two holders of one
row; three calls for the evidence service, where a third can meet what two left behind), one or two
tools, one or two steps, at most two plan versions (one revision is
enough to put an old step, approval or result under a new plan), one criterion of
each phase. `MaxAttempt` saturates the attempt column above every retry budget (at 0 in `revision`, where no
property looks at it).
`MaxSnapshots` is the number of snapshots after which the store no longer refuses or spoils
anything: three, one for each place a publication can go wrong at, so that a fault also meets a
publication that was already put back. `Sessions` is the number of transactions of several statements
open at once: two, since each race here is between one that has read and one that writes.
`Revocable` keeps revocations out of the instances whose property is not about them. Most
runs set `CHECK_DEADLOCK FALSE` because a succeeded or cancelled task really stops.

`Conversations.cfg` has two contents under one claim (a rival is enough), an owner and an
administrator, two calls, sessions of two events and two checkpoints (one before and one after a
reset), two deliveries, one document, and one fault (a lost lock or a crash), which already makes
two deliveries overlap. `Services.cfg` has two scripts and attempts; three pods, since a third can
meet an evaluation next to two trainings; three requests of two settings with batches of two, so
that a batch can be full, mixed and followed by another; two syncs, one file and three commits with
pages of two, so that a page can be missed; three cases in suites with the second one apart, in the
same document, or held out, two labels, two reviews, and one author of the scripts (with two,
interleaved, there are more than 3.5 million states; a single author still has others' reviews
between any two of his steps).

| Run | Instance | Shows |
|---|---|---|
| `takeover` | 2 workers, a read-only and a side-effecting tool, replan | `TypeOK`, `SideEffectBudget`, `LeaseHolderWorksOnPlan`, `NoStaleRequest`, `ImplementsLog` |
| `revision` | 1 worker, 2 steps, 2 tools, approval, criteria, replan with old ids | `SucceededMeansVerified`, `ApprovalBinding`, `PrefixImmutable`, `ImplementsLog` |
| `settles` | 2 workers, one retry, fairness | `RunSettles` |
| `evidence_publication` | 3 calls, two outcomes, store faults, crashes, fairness | `OnePublisher`, `PublishedIsIntact`, `DeletedIsGone`, `EventuallyPublished` |
| `evidence_of_success` | 2 threads, a strict task, crashes | `SucceededIsPublished`, `OnlyPendingSucceeds` |
| `jobs` | 2 threads, one side-effecting job step, crashes | `JobResultBacked`, `JobAttemptedOnce` |
| `jobs_progress` | 1 thread, plans of two job steps, fairness | `WaitingHasJob`, `WaitEnds` |
| `release_lineage` | 2 transactions, 2 annotations, 1 snapshot, 2 adapters, 2 releases, 2 users; verification by decision | `SnapshotsAreClean`, `AdaptersFollowSnapshots`, `ResolvedIsClean`, `RolledBackStays` |
| `release_qualification` | 2 campaigns, 1 trial, 1 adapter, 1 release, 1 qualification; no revocation of sources | `VerifiedIsMeasured`, `QualifiedIsMeasured` |
| `conversations` | as above, five foci, fairness; 1.4 million states | `ConversationsTypeOK`, `OneApprovedPerClaim`, `DecisionsAreFinal`, `HandoffIsComplete`, `ClosedIsDistilled`, `OneAnswerPerRequest`, `NoRevokedAnswers`, `RequestSettles` |
| `services` | as above, five foci, fairness; 1.01 million states | `ServicesTypeOK`, `AttemptSettles`, `RegisteredIsOneRun`, `WaitingIsServed`, `OneRevisionPerFile`, `LearningIsGrounded` |
| `failed_result` | smallest instance that shows it | a statement of a design document which the code does not keep (section 6) |

Each property of a passing run is broken by a mutant of the code listed in `PROJECT.json`: a dropped
index, guard or lock, a swapped order, a missing retry. Some mutated forms stand in the modules
beside what they mutate (`NoClaimIndex`, `OverwriteFile`, ...), marked as defects; nothing else uses
them.

Workers, threads and calls are interchangeable, and the safety runs with several of them use that
symmetry; no symmetry is used with liveness.

Fairness.

- `RunSettles` assumes weak fairness of `RunStep(w)` (tools and verifiers run
  under a timeout, so a `run()` call always continues), of `Acquire` by some worker
  (somebody calls `run()` on a task left runnable: the API itself does so only when the
  client resumes, retries or replays the request), and of the expiry of the lease of a
  worker that is gone. It promises something only once crashes, stalls and control
  requests have ended.
- `EventuallyPublished` assumes that calls go on and that somebody reconciles while nothing is
  published (the client of a run that stays `evidence_pending`). It promises something once calls
  have stopped dying, and except for a claim that was lost before, which nobody takes over
  (section 6).
- `WaitEnds` assumes that threads and pods go on, that a client reconciles a task that
  waits and runs one that is runnable, and that time passes. Client calls are strongly
  fair: the one thread of the instance also serves other calls, but the server has no bound on threads that
  would keep a client out for ever. It too is promised once crashes, errors and
  requests have ended.
- `RequestSettles` assumes that a handler that has begun goes on and that a client that was refused
  or cut off sends the request again (weak fairness of `Send` and `DeliveryStep` of each delivery),
  and that an operator reconciles a task that waits for its evidence. Faults are bounded, so they
  end.
- `AttemptSettles` assumes that a script goes on and its base evaluation ends within its time limit,
  that the lease of a process that has gone lapses, and that an operator resumes an attempt that has
  not ended (strongly fair: a process is free again and again, not for ever). It is promised of each
  attempt, except one that is held up (`HeldUp`): its annotations are no longer approved, its snapshot
  is not approved, its release is promoted, or its configuration cannot be put together again. No
  script can end such an attempt (section 6).

## 4. What is proved

`AgentRuntimeProofs` proves, for every set of workers, tools and criteria and every
bound, type correctness and the safety properties of the runs `takeover` and `revision`:
`TypeCorrect`, `SucceededVerified`, `ApprovalBound`, `SideEffectBounded`,
`LeaseHolderPlan`, `RequestsFresh`, `PrefixStays`, and `CheckpointBacked` (every step behind the
checkpoint has a result of its own tool).
They use the named assumptions of `AgentRuntime`: side-effecting and approval tools are
registered tools, bounds are natural numbers with the attempt column wider than the
retry budget, and `None` is no worker.

None of the properties is inductive alone. The inductive invariant is
`IInv == Typed /\ RowInv /\ CopyInv /\ LedgerInv`:

- `RowInv` is about the row by itself: the checkpoint is inside the plan (`StepBound`, which
  makes `TypeOK` of `Typed`), the plan
  references every criterion, the steps behind the checkpoint are verified (or the task is
  not strict), an approval is of the step after the checkpoint, a request is
  pending only in a state that can honour it.
- `CopyInv` relates each worker's copy to the row: a copy with the current version agrees
  with the row, the owner of the lease works on the row's plan, and what a worker
  decided (approval passed, step verified) holds of its copy. This is what makes the compare-and-set
  on the version, and the checkpoint's comparison of lease and step, sufficient.
- `LedgerInv` relates the ledger to workers: who is inside a step has its row, a result
  is written once, a read-only row is the only one re-armed, at most one attempt
  of a side effect is open, and the attempts counted by that worker are those of the row.

`StepIInv` has one step per action; `SpecIInv` combines it with `InitIInv`; each theorem
follows from it.

`ExecutionLogProofs` proves `Implements`: `Spec => ImplementsLog`. From `IInv` and the
frames of the ledger and the plan each step answers one step (`AnswersFrame`: only
`_finish_tool_run` does, and only where no result was), commits the step at the checkpoint
(`ExecutedFrame`, `CommitsAnswered`), or changes neither view. A replan keeps the executed
prefix, hence the log.

`EvidenceServiceProofs` proves `SinglePublisher`, `PublishedIntact` and `DeletedGone` for any
number of calls, snapshots and faults. The argument is the claim of the outbox row: a call that
publishes has made the row `processing`; only publishing completes it, and a completed row is never
claimed again. So there is one publisher, none once the row has a key, and nobody writes under a key
that was published or deleted. The trigger on published rows is not needed for that.

`ReleaseGovernanceProofs` proves every property of the two release runs, for any number of sources,
snapshots, adapters, campaigns, releases, users and open transactions. `LineageAssumption` and
`RowsAssumption` say that the sets of ids are disjoint and the trials finite. Each invariant rests
on the ones before it:

- `Typed`: type correctness with what a transaction that waits between two statements has in hand (`TxInv`).
- `MeasuredInv` gives `VerifiedIsMeasured` and `QualifiedIsMeasured`: a passed campaign is
  `Measured`, which counts its finished valid trials, and no later trial or completion takes one
  away (`FiniteSetTheorems` for the count).
- `LockInv`: nobody else has read or updated a row that a transaction holds. `CleanInv` uses it for
  `SnapshotsAreClean`: while a snapshot is being built its sources are locked shared and approved,
  so a revocation that holds a source has found every snapshot of it.
- `PendingInv`: a row waiting to be inserted is absent, and a revocation holds rows that are in use;
  hence `RolledBackStays`, because `observe`, the one operation that decides by an old read, writes
  through `advance`'s own check.
- `FollowInv` does for snapshots and adapters what `CleanInv` does for sources and snapshots:
  `AdaptersFollowSnapshots`, and with `CleanInv` `ResolvedIsClean`, although a release itself can be
  inserted behind a revocation.

`AgentRuntimeEvidenceProofs` proves `SucceededPublished` and `OnlyPending` for any threads, tools, plans,
snapshots and faults, and `EvidenceImplemented`: the composition implements `EvidenceService`
(`RuntimeDrives`: each of its steps is one of the service or leaves its state alone), so the invariant
of `EvidenceServiceProofs` holds in it. `EInv` adds three facts. A copy has the mode of the row
(`CopiedMode`), since no `UPDATE` writes that column. A thread about to commit success that still has
the present version works on a row that is `evidence_pending` (`CommitsPending`), since any
`UPDATE` would have taken that version away. And a succeeded strict task is published, since the
commit follows a read-back, and nothing takes a published key away.

`AgentRuntimeJobsProofs` proves `JobBacked`, `AttemptedOnce` and `WaitingBacked` for any threads, tools,
plans and clusters, and `JobsImplemented`: the composition implements `JobService`. Of `IInv` the part
that a result in the ledger rests on still holds with jobs (`Kernel`); the rest of it is about
inline calls. `JobInv` adds what follows three rows through the composition:

- The ledger row of a job is `JobRow`: it never fails, because a job that goes wrong ends the task and
  not the row. So nobody rearms it, whoever made the row starts it (`StartsOnce`), and it starts once.
- A thread that goes by a job that `succeeded` has seen a valid result of it (`SaysWhatItSaw`):
  only `_read_result` says so of a job in the cluster, and the thread goes by its own job (`Follows`).
  A valid result stays (`JobGrows`), so the one in the ledger is backed, and with it the checkpoint.
  What a row of `agent_jobs` says is not evidence, because `Record` writes blindly.
- A task goes to `waiting_job` only under the version its thread read, which by `FreshOwner` is
  that of the last thread that took the lease. So no thread that could still move the checkpoint
  is left at work on the task while it waits (`WaitsStill`), and the requested job, whose row is
  never removed, stays the one of the current step.

The inductive invariant was first checked with TLC: two workers with one job step, then
with a replan and with a second, inline tool.

`ConversationsProofs` proves every safety property of the run `conversations`, for any contents, claims,
users, documents, answers, calls and deliveries, and any bounds. `ContextAssumption`,
`ChatAssumption` and `NoneIsNoContext` say that `None` is none of the values it stands beside, and that
there is a call and a delivery. The inductive invariant is
`ConversationInv == MemoryInv /\ MemoryTyped /\ SessionInv /\ DistilInv /\ ChatInv`:

- `MemoryInv` gives `OneApproved` and `DecisionsFinal`. `ApprovedApart` (two approved rows of one claim
  are one row, retrievable or not) is inductive with the shape of rows and calls, for three reasons, one
  per way a row gets approved: an approval finds its rivals under the lock, an insert and a
  reverted expiry meet the index, and a conflict decision retires every other active row of the
  claim. `RowsMove` reduces each decision to those two statements about its new statuses.
- `SessionInv` gives `HandoffComplete`. The generations of the events are `Ordered`, so what a
  request reads of one has no gaps. A request that has the present version has seen the present
  generation with all of its events (`UpToDate`), because whoever appends an event makes a new version;
  hence the compare-and-set of a reset lets only a checkpoint of the whole generation through,
  and what it copies into the next one `Covers` the one that has ended.
- `DistilInv` gives `ClosedDistilled`. While a close distils, each content that was asked for is still to
  be looked at, or on its way into the table, or there (`Filed`). The log of a closed session does
  not change, and rows are never removed, so the second and the third stay.
- `ChatInv` gives `OneAnswer` and `NoRevoked`. `Suits(d, r)` says for each stage of a delivery what it has
  found; `Grows` says that what it can have found stays: the context of a bound receipt, an
  answer that has been given, an event in the log. Together they replace the advisory lock, which a
  handler may lose.
- `MemoryTyped` and the types in the other parts give `ConversationsTyped`. That the generations in a
  log follow one another (`Ordered`) holds because an event gets the generation of the session at its
  own transaction, not the one that its request has read; it is also why what a checkpoint covers
  has no gaps.

`ServicesProofs` proves five properties of `Services`, each for any values of the constants. A part
stays as it is while another takes a step.

- `RegisteredOneRun`: `RunnerInv` says of every pod that what it has published so far is still its own
  (`Trains`, `Evaluates`); it holds because files, manifests, verdicts and result objects are written
  once (`OthersKeep`), by a conditional put or a row that must not be there yet.
- `WaitingServed`: `WaitingIsServed` is inductive with the types. Whatever moves a request (the
  deque, what a batch has left) puts it in the next place before it leaves the last; a
  processor ends when both are empty, or is stopped by a shutdown, which drops its batch.
- `OneRevisionReady`: between two ready revisions of a file there is always a sync that is going to prune
  one of the two (`PairsEnd`), so there are none when no sync is at work; a sync that fails sets
  `broken`.
- `LearningGrounded`: each script writes what an object names before the object (`InOrder`), so
  the bucket stays closed under references (`Foundations`); and whatever a compiler writes is permitted
  by the suite, the report and the reviews (`Permits`), which its reading and its
  authorization have found so and nothing immutable takes back. `ScriptInv` says for each stage of a
  script what it has written or read by then. That no two scripts measure one campaign is a
  bound of the model (`BeginRerollout`).
- `ServicesTyped`: the types of all five parts. `AttemptInv` has at most one active attempt of a run
  (`AtMostOne`): one is created only when none is active, and every write that could make
  a second one active is held to the unique index (`Marked`); a script past its loading knows its
  attempt (`Knows`). A call is in the deque once because it never goes back to where it may join it
  (`AskedStays`); a sync keeps a commit once because what it has found is off its list (`ListsOnce`);
  a pod in front of a file or case has one to write (`PodsCount`).

Only model-checked: what holds under fairness (`RunSettles`, `EventuallyPublished`, `WaitEnds`,
`RequestSettles`, `AttemptSettles`), which is outside the prover's reach.

## 5. Not modelled

Left out for good: ranking, text cleaning, report builders, the training script, the drivers of
rehearsals and pilots, and authentication, which are sequential computations or external services;
the audit log, which nothing reads back; and logging.

Left out although it has state:

- Run asset publication (`storage/run_assets.py`): one manifest under an exclusive run id and a
  pointer replaced by a rename; two calls share no more than the temporary file of the pointer.
- The Kubernetes operator (`deploy/operator/main.py`): one handler that creates or patches each
  resource in turn and goes on after a failure; the cluster reconciles the rest.
- Loading an adapter (`inference/model_manager.py`, `/v1/reload`): what may be loaded is `Resolved`; the
  download and the swap of weights are calls of a model library.
- Agent runtime: the handler thread that goes on after `wait_for` has given it up
  (`core/agent_runtime.py:1456`), since what a tool does outside is not part of the state.
- Compiler: `--include-reviewed-successes`, `--reuse-compile-manifest`, and the branch for a passed
  target policy, which `compile_sft_experiences.py` never takes.
- Attempts: the script beyond the approval of its snapshot, which is dead code; what it left behind
  when it was not is in `Inherited`.

## 6. Divergences

One run has `expect: violation`; its property states what a document says.

1. `failed_result`: a retry is answered with the failed result and the step is checkpointed; the H1
   design says a task must not advance past it.

Met while modelling, and visible in the modules, without a run of their own:

Agent runtime and evidence:

- A call that dies after its claim leaves the outbox row `processing` for ever
  (`core/evidence.py:347`); the H2 design (`docs/harness/H2_EVIDENCE_RECOVERY_DESIGN.md:307`) lets
  another reconciler take over when the lease has timed out.
- The exception path of `run` writes the state without a lease check and under a version it has just
  read (`Reread`), so a worker that lost its lease can fail the task of the new holder.
- A read-only step whose worker died while it was reserved or running is never attempted again
  (`ReserveOutcome`); the task fails on every retry.
- A cancel that meets a tool error ends as `failed`, and a later retry drops the request.
- A replacement step of a replan may carry the id of an executed step (`ReplanIds`).
- No code removes the staging object of a manifest, also not when the manifest is deleted.

Jobs:

- A task that crashes between the reservation of a job step and `waiting_job` fails on the next
  `run()` instead of observing its job (`JobReserveOutcome`).
- `Record` overwrites `cancel_requested` with an older observation; the cancel is made up for only
  when the job ends.
- A finished job is observed again by every `reconcile_job`; after its removal from the cluster it
  is `orphaned`, although its result was valid, and a submit by an old `requested` row starts it
  again.

Runs and their evidence:

- A task that failed, published its manifest, and succeeded after a retry keeps the manifest of the
  failure: `request` inserts with `ON CONFLICT DO NOTHING` (H2 design, section 2: the manifest shows
  the final conclusion).
- A second `cancel` ends a task in `cancelling` at once, because a waiting task has no lease, while
  its job runs on (H2 design, section 9.3: `cancelled` only after the job has ended).

Release and lineage:

- Revoking a qualification revokes the adapter its candidate campaign judged, and leaves the release
  of that adapter live unless an administrator revokes it and the manifest names the qualification
  (`harness/qualification.py:544`); the H6 and H5 designs (`docs/harness/H6_PILOT_GA_DESIGN.md:164`,
  `H5_EVALUATION_RELEASE_DESIGN.md:262-267`) let it set off the same propagation as any revocation.
- `create_candidate` reads its dependencies without a lock, so a release can be inserted behind a
  revocation and even be promoted; `_promoted_adapter` then serves no adapter, not the previous
  release (`ResolvedIsClean` says that nothing revoked is served).
- `create_candidate` accepts any passed campaign, not only one about its adapter, and `advance`
  promotes a canary that was never observed. The rollback target is checked at creation and never
  read again.
- `mark_pilot_ready` wants the candidate's manifest to name the id of the release itself, which is
  made up after the manifest was given, so no release of `create_candidate` can satisfy it.
- Nothing writes `training_snapshots.qualification_id`, so three of the updates of a qualification's
  `revoke` find no row. Other adapters of a snapshot that `revoke` reaches through the campaign stay
  as they are.
- Releases are visible to the role `admin` only, so `_promoted_adapter` finds none for any other user.
- A review with status `revoked` takes the permission from its annotation and reaches no snapshot.
- A campaign that is completed again has the later result, also after an adapter was verified by the
  earlier one.

Memories, sessions and chat:

- A prohibited candidate whose claim has another value becomes `conflicted`, not `rejected`, and
  `resolve_conflict` can approve it (H4 design, section 9.3). A conflicting candidate leaves the
  approved one in retrieval (section 10.2).
- The revision of a legacy memory supersedes the old row before the replacement is approved (section
  10.3). The revision of a governed one always fails in its last transaction, because its decision
  event must be an agent event, and leaves an orphan behind.
- One row per content hash over all statuses: distilling again words that were deleted or rejected
  raises, and ends the distillation of the candidates after them.
- `resolve_conflict` gives no access rights to the winner, and lets an administrator decide about a
  memory of his own. A reverted expiry can bring back a legacy memory that was superseded by a
  replacement.
- A `reset` followed by `compact` drops the handoff of the generation before; a crash or a
  compaction between the steps of `reset` loses it.
- A chat task that succeeded, but whose assistant event is missing, can never be answered once the
  session is closed; a reset between two deliveries makes the request a conflict for ever
  (`Blocked`).

Attempts and job runner:

- A worker that finds its lease taken over marks the attempt of the new owner failed, and `state`
  asks neither for the owner nor for an active attempt, so a stale script can reactivate a failed
  one.
- A fresh attempt always fails, because the direct snapshot is disabled, and nothing sets
  `h5_attempts.snapshot_id` any more. Revoked annotations leave an attempt active for ever.
- An attempt that waits for the promotion of its release (`scripts/run_h5_pdf_cycle.py:907`) stays
  active for ever once the release is promoted: the receipt says `rerun with --resume`, and the resume
  prints `passed` and returns without `attempts.state` (`scripts/run_h5_pdf_cycle.py:423`). Since it
  is active, no other attempt of the run can be created.
- So does an attempt whose configuration an earlier version recorded with other fields, or without a
  retention: `--resume` and `create_or_load` refuse it before the handler knows of it, and a new
  attempt finds it active (`h5_active_attempt_config_mismatch`).
- Each resume makes a new campaign and so a new job key; the docstring calls the key retry-stable
  (`scripts/run_h5_pdf_cycle.py:60`).
- The put of a transcript is unconditional: a second pod overwrites the transcript of a finished
  trial, whose digest no longer matches. The comment at `harness/job_runner.py:36` promises
  write-once only for training.

Inference and the Git connector:

- A shutdown in the middle of a batch leaves its futures pending (`abandoned`).
- `/v1/reload` runs in a thread beside the event loop, and two of them share one staging directory;
  a failed reload has unloaded the old adapter and still names it; a failure to load LoRA weights is
  swallowed; the adapter of a release that was rolled back stays loaded, and cached answers outlive
  it.
- Commits are processed newest first and the cursor is inclusive: two revisions of one file in a
  sync revoke each other, so that the file is gone for good. A file modified and removed within one
  sync is indexed after its revocation; commits beyond the first page are skipped; concurrent syncs
  overwrite the cursor; a rejected revision leaves the old one ready. `OneRevisionPerFile` promises
  at most one, not exactly one.

Experience compiler:

- The split of a label is not compared with that of the task bundle, and a judge's label takes split
  and group from whichever suite file it was given; only `evaluation_holdout` is kept out.
- The verifier of a decision recompiles without the options of the compilation, so one that used
  them never verifies.

## 7. Plan

What is left, in the order of how much rests on it.

1. Two authors in `LearningPipeline` at once, with smaller suites.
2. Loading of adapters over `Resolved`: a reload that races a rollback, the staging directory.
3. Run assets and the operator, if they get state worth the name.
