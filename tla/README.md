# StrategyOS: TLA+ models, checks and proofs

StrategyOS turns governed source packs into reviewed executive deliverables, runs
specialist agents and digital twins next to them, and keeps the records that
executives act on. API threads, Hatchet workers, a dispatcher and a reconciler,
reviewers, operators and browsers work on one Postgres database or on the files of
a deployment without one. None of them holds a transaction or a lock over a whole
operation: what each one read earlier may be stale when it acts, any of them may
die between two steps, and the Hatchet queue may deliver late, again, or not at
all. The modules here model those protocols step by step; arithmetic, parsing and
text generation are left out.

Paths below are relative to `src/strategyos_mvp/` unless they begin with `src/`.
`PROJECT.json` maps every definition to the lines it models.

## 1. Inventory

| Component | State | Operations | What is hard |
| --- | --- | --- | --- |
| **Specialist tasks** `agent_runtime/` (repository, coordinator, workflows, events) | task, attempt and event rows | post a message (create and route a task), dispatch, execute, reconcile | threads race on one row; a status is read in one transaction and used in a later one; a thread outlives its timeout; the pool runs dry |
| **Handoffs** `agent_runtime/workflows.py`, `policy.py` | child task, handoff row | propose, budget, create, queue, link | five transactions after the success they follow from |
| **Tool effects** `agent_runtime/tools.py`, `repository.py` | tool-invocation row, artifact link | reserve, apply, record | a crash or a missing connection between any two |
| **Specialist event stream** `agent_runtime/streaming.py` | cursor of a connection, the client's `Last-Event-ID` | connect, poll, yield, reconnect | commits are not in the order of stamps; polls have a limit |
| **Strategy-run jobs** `run_executor.py`, `hatchet_runtime.py`, `state_store.py` | `strategyos_run_jobs` | submit, enqueue, execute, record | the submitter's confirm races the worker; the enqueue answer may be lost |
| **Source intake** `source_pack.py`, `ingestion.py` | overrides file, two dataset roots and their run context | validate, confirm a mapping, resolve, load | requests delete and refill a root that a run is reading |
| **Findings** `workflow.py`, `agents/`, `quality.py` | findings, the audit's rounds, evidence on disk | draft, challenge, answer, lock, gate, write | rounds change a status others decide by; evidence changes during review |
| **Review gate** `runtime_governance.py`, `run_poc.py`, `reviewer_runtime.py`, `api.py`, `state_store.py` | run row, checkpoints, approvals, `run_summary.json`, receipts | reach the gate, claim, decide, resume, release | the run is reviewable while its worker still writes; a decision and a resume are several transactions each |
| **Local runs** `run_registry.py`, local branches of `api.py` and `reviewer_runtime.py` | run directories, summary files, pointer file | allocate, save, claim, decide, release | everything is read-modify-write of files without a lock |
| **Projections** `state_store.py`, `neo4j_store.py`, `vector_store.py`, `source_search.py` | Postgres rows, graph, vector points | persist, project, report status | deleted and rebuilt request by request |
| **Authority matrix** `authority_matrix.py` | versioned row and audit, file and audit | read, publish | one save may read the row and write the file |
| **Decision lifecycle** `decision_lifecycle.py` | append-only events | surface, decide, verify | retries and races; a client's key may be a server's |
| **Executive decisions** `state_store.py`, `api.py` | events under an effect key | record, retry | uniqueness by an advisory lock only |
| **Board memory** `board_memory.py`, `board_api.py` | one packet per meeting | close, read | the packet is composed over several requests' time |
| **Conversation workspace** `conversation_state.py`, `static/executive.js` | versioned threads per persona; the page's threads, scope, version and save chain | ask, switch persona, save, load | compare-and-set between devices; three variables of a page that change at different times |
| **Twins: messages** `twins/runtime.py`, `protocol.py` | inbox and request files | expire, consume, answer, ask, escalate | an inbox is emptied before its messages are handled |
| **Twins: records** `twins/execution.py`, `tools.py`, `store.py` | execution log, trace, routing log | run under an idempotency key, escalate a deadline, audit a message | look, then act, in two files |
| **Recovery ledger** `recovery_ledger.py` | receipts and reversals | reconcile | order, repetition, reversal before receipt |
| **Review files** `review_files.py` | vault, manifest | upload, list | two uploads append to one manifest |
| **Inference audit** `inference_audit.py` | audit rows of a day | reserve, settle | counting and reserving under concurrency and midnight |
| **Question answering** `api.py`, `llm_qa.py`, `assistants/orchestrator.py` | one question: route, results, draft answer, reply | ask governed sources, ask the model, repair, validate, compose | three surfaces and modes with routes of their own; a model answer may be said three times |
| Identity, enrichment, executive read models, KPI arithmetic, simulation, configuration | derived values | parse, compute, render | no concurrent state of their own; `PROJECT.json` gives the reason for each |

## 2. Modules

| Module | Models |
| --- | --- |
| `AgentModels` | `models.py`: statuses and transition tables of tasks, handoffs and approvals |
| `AgentTasks` | tasks, dispatcher, Hatchet queue, execution job, reconciler (extends `AgentModels`) |
| `TaskContract` | abstract: what the runtime promises about a task; `AgentTasks` implements it |
| `AgentHandoffs` | how a success becomes a child task and a handoff |
| `ToolEffects` | one effect of a tool, over several attempts of its task |
| `EventStream` | writers' transactions and one client of the event stream |
| `RunJobs` | submission and execution of strategy runs |
| `SourcePacks` | one staged pack: requests, runs, two dataset roots |
| `FindingReview` | the findings of one run, from the analyst to the writer |
| `ReviewGate` | the human-review gate of one run over Postgres |
| `LocalRuns` | several runs and their review over files only |
| `Projections` | the end of a run: Postgres, Neo4j, Qdrant |
| `ReviewFiles` | the vault of reviewed files |
| `AuthorityMatrix` | publication of a tenant's Authority Matrix over a row and a file |
| `DecisionLifecycle`, `ExecutiveDecisions`, `BoardMemory` | the records of decisions and meetings |
| `ConversationState` | the page and the server of the assistant's workspace |
| `TwinMessaging`, `TwinRecords` | requests between twins; what twins write down |
| `RecoveryLedger` | the fold over receipts and reversals |
| `InferenceAudit` | the daily budget of provider calls |
| `AnswerRouting` | one question to the assistant, from the request to the reply |
| `AgentTasksProofs`, `ReviewGateProofs`, `EventStreamProofs`, `AuthorityMatrixProofs`, `RecordProofs`, `PipelineProofs`, `LedgerProofs` | theorems about these |
| `TaskContractProofs` | theorem: `AgentTasks` implements `TaskContract` |
| `MCAgentTasks`, `MCRunJobs`, `MCReviewGate`, `MCEventStream`, `MCAuthorityMatrix`, `MCTwins` | instances of one module each for TLC |
| `MCComponents` | the sixteen small components in one instance |

How they are cut: two components share a module when they write the same rows or
files in an order that matters (`AgentTasks`, `ReviewGate`), and have modules of
their own when one hands the other a finished value. `AgentHandoffs` takes a run
of a task as one claim and one outcome, which is what `AgentTasks` proves of it
(`OneHolder`, `VerdictsAreFinal`); `ToolEffects` takes attempts that may overlap,
which is what `AgentTasks` allows after a timeout; `FindingReview` stands for the
stages around the gate that `ReviewGate` models as one step each.

Conventions. One database transaction, one locked file mutation or one file write
is one action. A process of several steps has a control variable and keeps what it
read in variables of its own; between two steps anything else may happen. A crash
drops the process's variables and leaves rows and files. A name in lower case
(`transition_task`, `record_approval`) is the function it models. Definitions with
capitals after an underscore (`transition_task_UNCHECKED`) are plausible bugs:
no specification uses them; each can be put in place of the definition of the same
name to see that a property notices.

### AgentTasks

| Model | Code |
| --- | --- |
| `status, version, failure_code, lapsed` | columns of `strategyos_agent_tasks`; `lapsed`: `started_at` is older than the lease |
| `events`, `attempts` | `strategyos_agent_events_v2` (task, version, to-status), `strategyos_agent_task_attempts` |
| `MissExisting`, `FindExisting`, `FindRouted`, `Insert`, `InsertConflict`, `Route`, `RouteRaises` | `process_conversation_message`: `create_task` (select, then insert) and routing by the status it returned and by the risk class of the request itself (`cneeds`) |
| `asked` | history: what the risk classes of the requests that named a key said about its approval; a key both said of is `Contested` |
| `SelectQueued`, `Enqueue`, `DispatcherCrash` | `dispatch_ready_tasks`: rows fetched once, published one by one |
| `queue`, `Consume`, `Redeliver`, `Crash`, `ExecutionTimeout` | Hatchet: at-least-once delivery with `retries`; an execution timeout redelivers while the old thread lives on |
| `Take` … `Return`, `Ignore`, `IgnoreUnread`, `LoseClaim` | `execute_agent_task_job` |
| `SelectOverdue`, `TimeOut`, `SkipSettled` | `reconcile_stuck_tasks` |
| `…Unrecorded` | `database_connection` finds no connection: the call returns a status dictionary and the caller carries on |

`transition_task` locks the row, checks the table, writes the row and appends the
event in one transaction; a disallowed transition raises, which ends the caller
as the code has it (a job that raises is redelivered, a reconciler skips the row).

The row of a request is found by its idempotency key, its target by its own body. Two
requests of one key that disagree about the approval can therefore queue a task that
waits for one, and can take a running task back to wait, after which it may be
released and claimed a second time while the first worker goes on. `OneHolder`,
`StatusIsBacked` and the counting of runs in `TaskContract` are promised for the tasks
whose requests agree; `EventLogMirrorsTask`, `VerdictsAreFinal` and
`ReleasedTasksSettle` for every task.

### AgentHandoffs and ToolEffects

`RecordSuccess` is `transition_task(SUCCEEDED)`; then, each a transaction,
`CheckBudget`, `CreateChild`, `QueueChild`, `create_handoff`, `AcceptHandoff`
(`_create_proposed_handoffs`). `WorkerDies` may come between any two. Where a missing
connection does not raise, the worker goes on: `RecordSuccessUnrecorded` proposes
handoffs of a task that is still running, `CheckBudget` may read nothing, and
`AcceptSkipped` leaves the handoff as proposed. Only the
cash-recovery specialist proposes handoffs, to evidence closure, which proposes
none, so a child has no children. In `ToolEffects` an attempt selects and inserts
the reservation (`reserve_tool_effect`), commits the link (`create_artifact_link`)
and records the result; each call may find no connection, and `ReserveSkipped` is
the status record that the tool then takes for a reservation.

### RunJobs, ReviewGate, EventStream, AuthorityMatrix

`create_run_job` selects and inserts under the advisory lock of the request hash;
the submitter then enqueues (`EnqueueReturns`, or `EnqueueRaises` with the run
published or not) and writes the outcome; the worker writes `running` and the
outcome. `update_run_job` compares nothing, and without a connection it writes
nothing and returns a status that its callers ignore: the confirm, the submitter's
failure, the start and the end of a run each have an `...Unrecorded` action. Requests
with different hashes share no state, so one request suffices for every property.

In `ReviewGate` the worker passes the gate (`ReachGate`) and then still writes:
`WriteSummary`, `PersistSummary`, `SyncSources`, `FinalWrite`. Reviewers claim,
unclaim and decide (`OpenDecision` reads the latest checkpoint, `record_approval`
is a later transaction, `SyncReviewState` writes the file). Operators resume by
`CheckApproval`, `ReadCheckpoint`, `WriteDeliverables`, `ReadApprover`,
`PersistWriter`, `UpdateSummary`, `PublishSummary`. Each store call may find no
connection, and its caller goes on: the gate's or the writer's checkpoint is missing,
a refused row is reported as a decision (`DecisionUnrecorded`, `TouchReviewState`),
the approver is taken for null (`ApproverUnread`, remembered in `unread`).
`MCReviewGate` identifies states that differ only in what no guard and no property
reads (`View`: the checkpoint an approval row names, which decision was early).

In `EventStream` a row is stamped `now()`, the time its transaction began, and is
visible once that commits. `Connect` takes the cursor from `Last-Event-ID` or,
without one, a boundary from the database clock; `events_after` is the query, and its
rows are the `batch`, yielded one by one in their order.

In `AuthorityMatrix` `get_authority_matrix` and the second half of
`save_authority_matrix` each take their own connection, and any such call may find
none: `Read`, `CheckVersion`, then `WriteRow` (upsert with its `where version =`
and audit row) or `WriteFile` and `AppendAudit` (the file under `flock`, then its
audit line). A save may also name no version, as the API allows.

### The run pipeline: SourcePacks, FindingReview, LocalRuns, Projections, ReviewFiles

- `SourcePacks`. `BeginRequest` starts a validation, a confirmation, a resolution or
  a run; `_payload_for` classifies what it finds, with `ClearNormalized` and
  `CopyNormalized` around it; `TruncateOverrides` and `WriteOverrides` are the two
  halves of a file write; `PassGate` is the readiness check with its confirmation
  of uncertain mappings. A file is current, restricted or historic by the directory
  it came in (`fits[f].at`): `_role_inventory` takes current files only,
  `_unconfirmed_roles` trusts restricted ones too. `_load_run_metadata`, `load_dataset` and
  `derive_source_finance_kpis` read the root at three different moments.
- `FindingReview`. `draft_findings`, `Challenge`, `respond_to_challenges`,
  `LockReady`, `verify_acceptance_coverage` are the analyst and the auditor's
  rounds; `EnterGate`, `ApproveFindings`, `ReloadBundle`, `write_all` lead through
  the gate to the case file; `EditSource` changes the files at any time.
- `LocalRuns`. `allocate_run_dir` and `MakeDirectory` are apart; `SaveSummary`,
  `PublishPointer`, `AttachCheckpoint`, `OpenSummary`/`RewriteSummary` are
  `run_poc`; `Claim`, `Unclaim`, `Decide` and the release each read `Latest` and
  write later (`OpenFile`, `WriteFile`); `torn` is a truncated file.
- `Projections`. Deletes, upserts of single nodes and edges, batches of points;
  `StoreFails` and `ProcessDies` at any point; `graph_status_for_run` at any time.
- `ReviewFiles`. The bytes, the manifest's read-append-write under its lock, a
  manifest that cannot be read and counts as empty.

### Records and twins

- `DecisionLifecycle`: a transaction takes its stamp when it begins (`BeginAppend`),
  the lock later (`LockDecision`), and ends in `Replay`, `Insert` or `Refuse`.
- `ExecutiveDecisions`: lock, select, insert; the answer to the insert may be lost.
- `BoardMemory`: `CheckExisting`, `CaptureContext`, `CaptureAuthority`,
  `close_meeting` (`on conflict do nothing`, then compare digests), while runs and
  matrix change.
- `ConversationState`: `page` holds what `executive.js` holds; `SendSave` and
  `ServeSave` are one PUT and the server's compare-and-set; answers may be lost.
- `InferenceAudit`: `CountUsed` and `InsertRow` under the lock, `FinishRow` after
  the provider; `Midnight` changes the day under a waiting transaction.
- `RecoveryLedger`: `reconcile` is the two passes over the rows as a function of a
  sequence; `Expected` is defined over the set of events.
- `TwinMessaging`: a cycle scans for expired messages (`ExpireMessage`,
  `SaveScanned`), empties the inbox (`Consume`), settles answers (`Reconcile`),
  decides, sends and records. `run_once` and `act` swallow exceptions: `CycleRaises`
  drops what the cycle holds, `SendRaises` one message, `GoesUnrecorded` the record of
  one. With a provider enabled its list replaces the twin's issues and decisions:
  `LetGo` drops a message, `Misaddress` answers another twin, `AskReplaced` a request
  that was made and not sent. `TwinRecords`: looks and writes of the three logs.

### AnswerRouting

| Model | Code |
| --- | --- |
| `question` | the surface (`/assistant/chat` signed in or public, `/qa`), the mode, whether a model is configured and a run is loaded |
| `route` | the sources not yet asked, in the order in which `_assistant_chat_response` and `data_qa` ask them |
| `found` | results kept for the orchestrator: in mode `llm` of `/qa`, and the packet of the public page |
| `JsonCall`, `TextCall`, `PlainCall`, `RepairCall`, `GeneralCall` | the calls of `answer_question` and `answer_general_question`; `Unreadable` is a body that is not JSON |
| `draft`, `Check`, `Repaired`, `DomainBoundary` | `parsed`, its two validations and the two governed repairs |
| `Precedence`, `Composed`, `Reply` | `compose_persona_answer` and the payload with its disclosure |

What a source finds and what the provider says is a choice; the text of an answer
is the four facts the code decides by: whether it matched, whether its quantities and
its citations are in the evidence, and whether it denies the calendar.

## 3. Runs

| Run | Instance | Result |
| --- | --- | --- |
| `agent_tasks` | 1 task, 2 request threads with its key and any risk class, 2 workers, 1 retry, 1 fault | `EventLogMirrorsTask`, `OneHolder`, `StatusIsBacked`, `VerdictsAreFinal`; implements `TaskContract` |
| `agent_live` | the same, fair | `ReleasedTasksSettle`, `ApprovalBeforeExecution` |
| `run_jobs` | 1 input, 3 submissions, 1 fault, fair | `DuplicateOnlyAfterLostAnswer`, `PublishedJobsFinish` |
| `review_gate` | reviewer and auditor, 2 operators, 2 decisions, 2 releases, 1 fault | `GateHonoured`, `ReleasesAreReviewed`, `SummaryCarriesDecision`, `ClaimsExclude` |
| `event_stream` | 2 writers, 3 rows, 1 row per poll, 2 connections, fair | `StampOrder`, `OnlyLateOrTiedSkipped`, `AheadArrives` |
| `authority_matrix` | 3 editors, 3 publications, 1 crash | `AuditMirrorsMatrix`, `SavesReplaceWhatWasLoaded` |
| `components` | sixteen components, see below | twenty-one properties, see below |
| `submit_race` | 2 requests | *violated*: `ResubmissionNeverRaises` |
| `persona_switch` | 1 device, 2 personas | *violated*: `ViewPreserved` |
| `effect_unreserved` | 2 attempts | *violated*: `EffectivelyOnce` |
| `twin_answers` | 2 twins, 1 escalation | *violated*: `AnswersEnd` |
| `undisclosed_answer` | 1 question, every surface and mode | *violated*: `ModelAnswersAreDisclosed` |

Every property of a passing run has a mutant: one definition changed as a
plausible bug would, under which TLC finds the property violated.

**`components`.** `MCComponents` extends sixteen modules that share no state. A
behaviour chooses a component in its first state and runs that one's next-state
relation; the others stay where they start. The reachable states are the sum, and
not the product, of the components' states, and each component is explored as in a
run of its own, with its own actors, crashes and failing stores.

| Component | Instance | Properties |
| --- | --- | --- |
| `ConversationState` | 2 personas, 2 devices, 2 messages, 2 switches, versions to 2, 2 loads, 1 queued save | `LostOnlyAcrossScopes`: a message is lost only to a save taken under another persona or scope |
| `DecisionLifecycle` | 2 callers, 2 choices, keys that collide | `OncePerKindInOrder`, `ToldWhatIsRecorded` |
| `BoardMemory` | 2 closers, 2 runs, 1 change of each source | `OneClosedPacket` |
| `ExecutiveDecisions` | 2 requests at a time, 2 keys, 2 contents, 3 events | `OneEventPerKey` |
| `InferenceAudit` | 3 calls of 1 or 2 units, quota 3, 2 requests, 2 days | `BudgetHeld` |
| `ToolEffects` | 3 attempts | `OneReservedEffect` |
| `AgentHandoffs` | 2 sources, the code's own budgets | `StartsAfterSource` |
| `FindingReview` | 2 findings, minimum 1, 3 rounds | `WeakAreChallenged`, `PublishedIsEvidenced` |
| `SourcePacks` | 2 files, 2 roles, 2 requests, 2 periods; fits that differ in what nothing reads (the period of a file that is not current, the columns of a historic one) once | `FullRunsAreComplete`, `LeftOutForCause` |
| `Projections` | 2 nodes and every edge between them, 2 batches | `ProjectionFollowsPostgres` |
| `LocalRuns` | 2 runs in one second, 2 actors, 4 requests | `OwnDirectory`, `ReleaseWasApproved`, `OnlyStaleWritersUndecide` |
| `ReviewFiles` | 2 uploads, 2 names, a list of 1, 1 misread | `LostOnlyToMisread` |
| `RecoveryLedger` | 3 events, 2 cases, amounts to 2, 3 rows | `ReconcilesTheSet` |
| `TwinRecords` | 2 submissions, 2 event jobs, 2 messages, 1 restart | `OnlyRacesRepeat` |
| `TwinMessaging` | 3 twins on one path, 1 gap, 2 processes, 4 cycles, 1 fault | `PendingIsSomewhere` |
| `AnswerRouting` | 1 question, every surface, mode and outcome of a call | `VettedBeforeShown` |
**Bounds.** Every property here speaks of two actors and what each has read, so
two of each competing process show every pairwise race, and a third is used where
the second's effect on a first must be seen by someone else (three editors, three
attempts, three submissions, three twins on an escalation path). Tasks meet only in
the queue's and the dispatcher's sets, so one task suffices: whether it needs approval
is a choice of each request. `MaxPending` caps what the dispatcher would repeat for ever;
one pending run and a second in a worker's hands are already a double delivery.
`Retries = 1` (2 in the code) allows a redelivery and its exhaustion. `MaxCrashes`
counts every fault of a behaviour of `AgentTasks`, whatever process it hits.
`EventStream` needs three rows to have one late, one tied and one punctual.
Its batches hold one row; a connection cut inside a longer batch is covered by the
theorem, which is for every `Limit`.
Three publications put two rows and a file, or the reverse, in one history.
Quota 3 with calls of 1 and 2 units makes the last call fit or not by one unit,
and a limit of 2 requests binds before it. Three rounds of two findings are more
than the audit needs, so its acceptance check is reached inside the bound. In
`TwinMessaging`, `MaxCounter = 1` bounds the requests of one process between two
restarts (a restart begins to count again, which is why ids repeat), `MaxChain = 3`
an escalated and answered answer, and `MaxCycles = 4` each twin's cycle and one
more. `MaxFaults = 1` is one restart, exception or replaced decision. `MaxClock = 0` leaves the stamps of decisions equal: the two properties do
not read them, and the instance for `StampsFollowRecord` uses 1. The theorems of
section 5 depend on none of these.

Deadlock is checked in the runs of `AgentTasks`, where the dispatcher and the
reconciler never stop; the other instances stop when their bounds are used up or
everything is recorded.

**Fairness.** `agent_live` assumes weak fairness of the dispatcher's and the
reconciler's steps (`dispatch_ready_tasks` and `reconcile_stuck_tasks` are called
by a schedule in production; `run_worker`, `hatchet_runtime.py:340-352`, does not
register it, so this is an assumption about the deployment), of delivery to a worker and of the steps of a
worker that lives, and that time passes (`Lapse`). Nothing obliges a client to
submit again, a thread to hang or a fault to happen. `run_jobs` assumes that a
request thread that is in `submit_hatchet_run` goes on, that Hatchet hands over
a run it has, and that a worker's run ends; crashes, schedule timeouts and a last
update without a connection are allowed for by name. `event_stream` assumes that `sse_event_stream` polls and
yields while its connection lasts; nobody is assumed to reconnect. `twin_answers`
and the other violated properties are safety properties and assume nothing.

## 4. What the runs found

1. `submit_race`: of two concurrent first requests with one idempotency key, one
   gets the unique violation, where the docstring of `create_task` promises the
   existing row.
2. `persona_switch`: the page saves the threads of the persona it shows under the
   scope it loaded last. When the load for a new persona is refused or slow, the
   old persona's threads are replaced, with a version that matches.
3. `effect_unreserved`: a reservation that found no connection is taken for one,
   so the effect is applied without a key and again by the next attempt.
4. `twin_answers`: an escalation is on record under the role that escalated it but
   answered to its first sender, and two twins answer each other's answers.
5. `undisclosed_answer`: an answer of the model to a general question that says it did
   not match is shown, when no persona pattern matches either, as a governed answer
   that needs no review.

Smaller disagreements are stated in their modules and not listed as runs. TLC finds
each violated when the property takes the place of the list of the configuration
named:

| Property | Module, configuration | What the code does |
| --- | --- | --- |
| `SuccessCarriesNoFailureCode` | `AgentTasks`, `MCAgentTasks` | a success keeps the code of an earlier failure (`models.py:61-63`) |
| `RetryIsExecuted` | `AgentTasks`, `MCAgentTasks` | a redelivered run of a dead worker is dropped (`workflows.py:18`) |
| `PublishedOnce` | `AgentTasks`, `MCAgentTasks` | a queued task is published again (`workflows.py:389`) |
| `FailedWaitsForRetryPolicy` | `AgentTasks`, `MCAgentTasks` | routing by a stale status requeues a failed task without a retry policy |
| `RiskyWorkWaits` | `AgentTasks`, `MCAgentTasks` | "higher-risk work creates an approval request" (`policy.py:7-8`): a second request with the key and a read-only body queues the task (`coordinator.py:235,262-271`) |
| `RunningIsNotRecalled` | `AgentTasks`, `MCAgentTasks` | a late routing takes a running task back to `waiting_for_approval`; its worker's success then raises |
| `NoDuplicateProcessing` | `RunJobs`, `MCRunJobs` | a lost enqueue answer admits a duplicate (`state_store.py:108`) |
| `FinishedJobsStayFinished` | `RunJobs`, `MCRunJobs` | `queued` is written over the outcome of a faster worker, or the outcome finds no connection and the job stays active for ever |
| `CompletedRunNamesApprover` | `ReviewGate`, `MCReviewGate` | a decision before the worker's summary, or a resume that cannot read the approver, loses it (`reviewer_runtime.py:114,138-142`) |
| `ApprovalNamesReviewedCheckpoint` | `ReviewGate`, `MCReviewGate` | an approval may name an earlier checkpoint |
| `WriterRunsOnce` | `ReviewGate`, `MCReviewGate` | two resumes release twice |
| `ReplaysEveryEvent` | `EventStream`, `MCEventStream` | a row that commits late is behind the cursor and never delivered |
| `StampsFollowRecord` | `DecisionLifecycle`, `MCComponents` | the stamp is the transaction's beginning, so a later event may carry an earlier one |
| `BlockedStaysBlocked` | `FindingReview`, `MCComponents` | `challenged` overwrites `blocked`, and the finding leaves the audit locked; the writer's own check still keeps it out of the case file |
| `DecidedOnce`, `StaysReviewable` | `LocalRuns`, `MCComponents` | two requests read before either writes; a torn file reads as no run |
| `OncePerKey` | `TwinRecords`, `MCComponents` | the key is looked up before it is saved, and not at all by a queued cycle |
| `ApprovedIsNotEscalated` | `TwinRecords`, `MCComponents` | an item approved after the deadlines were collected is escalated |
| `DispatchAudited` | `TwinRecords`, `MCComponents` | a message consumed before a restart is never audited |
| `GapIsHandedOn` (of `HandoffFairSpec`) | `AgentHandoffs`, `MCComponents` | a worker that dies after the success loses the handoff, and no retry repeats it |
| `ParentHasSucceeded` | `AgentHandoffs`, `MCComponents` | a success that found no connection is handed on while the task is still running (`workflows.py:204-209,226`) |
| `OnlyDuplicatesLeftOut` | `SourcePacks`, `MCComponents` | a restricted file counts as trusted for a role that no run reads it for: a partial run drops the role with its low-confidence mapping unconfirmed (`source_pack.py:1341`; "Block the run until the operator confirms it", `source_pack.py:1826`) |
| `ConfirmedStays` | `SourcePacks`, `MCComponents` | two confirmations rewrite one file; the run asks for the lost one again |
| `ClaimsWereRead`, `OneDataset` | `SourcePacks`, `MCComponents` | a root is refilled under a run: it reads less than its context claims, or findings and KPIs of two datasets |
| `ProjectionNeverFailsRun`, `ReadyIsComplete` | `Projections`, `MCComponents` | a failing graph store fails a persisted run; a half-built graph is reported ready |
| `AnsweredStays` | `ReviewFiles`, `MCComponents` | a manifest that cannot be read is rewritten without its entries |
| `PublicAlwaysAnswers` | `AnswerRouting`, `MCUndisclosedAnswer` | a provider body that is not JSON raises a `ValueError`, which no caller expects: the public page gets a 5xx and not its packet (`api.py:15675-15677`) |
| `CalendarNotDenied` | `AnswerRouting`, `MCUndisclosedAnswer` | the repaired answer is not checked against the calendar again (`llm_qa.py:820-827`) |
| `RefusalIsShown` | `AnswerRouting`, `MCUndisclosedAnswer` | `/qa` shows the persona's text in place of the refusal of a rejected answer |

For `MCComponents`, `INIT`/`NEXT` or the `SPECIFICATION` are those of the module
named, and `StampsFollowRecord` needs `MaxClock = 1`.

They are why the passing properties carry the exceptions they name:
`OnlyRacesRepeat`, `OnlyStaleWritersUndecide`, `LostOnlyAcrossScopes`,
`LostOnlyToMisread`, `LeftOutForCause` and `PendingIsSomewhere` say that
nothing else than the named race can do the damage.

`SavesReplaceWhatWasLoaded` stops at the first write of the file, and has to: from
then on the two stores count versions on their own, and a save the file
acknowledged is not served once the pool is back. No document promises one history
over both stores, so this is a limit of the design and no finding.

## 5. Proofs

TLAPS proves the following for all values of the constants that satisfy the named
assumptions; each theorem's invariant was first checked by TLC.

`AgentTasksProofs` (`NoTaskAssumption`, `BoundsAssumption`):

- `TypeCorrectness`. `TypeOK` is inductive with `InHand`: a process past its
  first step has a task in hand, so functions are updated inside their domains.
- `EventLogCorrectness`: `EventLogMirrorsTask`. Every step either leaves a row
  and its events alone or is one of two row writes (lemma `StepIsRowWrite`); each
  appends the event of the next version. The strengthening is `RowInv`, a row is
  absent exactly when its version is 0.
- `FinalVerdicts`: the action property `VerdictsAreFinal`, from the same lemma.
- `HeldByOne`: `OneHolder`, and `ExecutionSafety`: `StatusIsBacked`, from one
  inductive invariant (`RunInv`), because neither is inductive: that
  a claim excludes other holders needs that every holder's task is `running`,
  timed out or, at the very end, succeeded, and that a success is backed needs what
  each holder may assume about the attempt rows at its control point (`HolderInv`).
  All three exempt the tasks whose requests disagree, whose number only grows
  (lemma `ContestedStays`).
- `ApprovalSafety`: `ApprovalBeforeExecution`, strengthened by `ApprovalInv`: a task
  of which no request has said yet that it needs no approval is in nobody's hands
  either, and a request routes by what it has itself put on record (`InHand`).

`TaskContractProofs`: `ContractImplemented`, the refinement `ImplementsContract`. Every
step that writes a row is classified by the fields it changes (`StepKinds`), and each
kind is one action of the contract. The contract counts a task's starts; the mapping counts them in
the event log, which stays finite (`LogInv`). `StartedFirst` says that there are never
more runs than starts, and one fewer while some worker may still run; `Attempted`, that
whoever may complete a task has an attempt to show, whatever its requests said.

`EventStreamProofs` (`LimitAssumption`, `BoundsAssumption`, `NoneAssumption`):

- `StreamTypeCorrect`, and `StampOrderHolds` from `StreamInv`: what was received is in
  order, `lastId` is its last row, and everything fetched and not yet yielded is
  later than the cursor.
- `OnlyLateOrTiedSkippedHolds` from `FetchedUpTo`: every punctual row between the
  first received and the last fetched is received or in the batch. A limit cuts
  only behind the rows it lets through (lemma `FetchedFromTheFront`), so a cut
  row is never before a fetched one.

`AuthorityMatrixProofs` (`BoundsAssumption`, `NoneAssumption`):

- `TypeCorrectness` and `AuditCorrectness`, from the inductive `IInv`.
  `RowHistory` gives the audit's versions in closed form, so that no step needs an
  induction over the audit; `FileHistory` says that one writer is
  inside the lock and every audit line is older than the file until that writer
  has added its own.
- `NoLostPublication`: `SavesReplaceWhatWasLoaded`. A save knows that the version
  it compared is the one it loaded (`SaveKnows`); distinct entries have distinct
  versions and the default's is below them all, so an equal version is the same
  matrix.

`ReviewGateProofs`:

- `GateTypeCorrect`. `ReleasesAreReviewedHolds`, from `ReleaseInv`: an operator is
  past `CheckApproval` only after somebody approved, and carries the gate's
  checkpoint. Both histories only grow (lemma `HistoryGrows`).
- `ClaimsExcludeHolds`, an action property of every step by itself.
- `GateHonouredHolds` and `SummaryCarriesDecisionHolds`, from `GateInv`. The
  invariant is conditional, as the properties are: unless a decision came while the
  worker was still writing (`NoEarlyDecision`), nothing is released and nobody
  resumes before the decision, and after it only operators change the row, each of
  them let in by the approval and carrying its approver back, or null once a read of
  it found no connection (`Decided`, `Carries`). These hold for any number of later
  decisions; the run `review_gate` allows one.

`RecordProofs` (the assumptions of its eight modules):

- `OneReservedEffectHolds`, from `ReservedOnce`: at most one attempt holds the
  reservation, and what it has linked and recorded follows from where it is.
- `OneClosedPacketHolds`, from `BoardInv`: an answered packet is the stored one.
- `OneEventPerKeyHolds`, from `ExecutiveInv`: past the lock one request has the key,
  and one that found nothing still finds nothing. Event ids are counted, so the
  proof also keeps the set of events finite and its ids within its size.
- `OncePerKindInOrderHolds` and `ToldWhatIsRecordedHolds`: with the type invariant
  they are inductive together; the log only grows (lemma `LogGrows`).
- `OnlyRacesRepeatHolds`, from `TwinInv`: who runs a cycle or escalates found no
  record when it looked, so all who do so after the record looked before it.
- `VettedBeforeShownHolds`, from `RoutingInv`: a draft past its validation has passed
  it or is rejected (`Validated`), graph and tabular results are found only by a
  question of a run on `/qa` (`NothingFound`), and the model's answer wins over neither.
- `LostOnlyAcrossScopesHolds`, from `WorkspaceInv`. Versions and messages are tied
  together: who holds the present version of a row and stays in the scope it was
  answered in knows every message of the row's persona (`Knows`), and each queued
  save has what the saves before it have (`HasAllOf`), so an answered save passes its
  version on to the next. `NoFlightAssumption` says that null is no request.
- `RunTypeCorrect` and `DuplicatesExplained`: `DuplicateOnlyAfterLostAnswer`, from
  `RunInv`. A job that can still be worked on has an active row, which is what
  `create_run_job` looks at, unless its submitter recorded a failure although the
  run was published (`Disowned`); of two jobs of one request that can be worked on
  one is disowned. A step of one job leaves the others alone (lemma `StepIsLocal`).

`PipelineProofs`:

- `StartsAfterSourceHolds`, `HandoffNamesRunnableChildHolds`, from
  `ProposedInOrder`: a success stands once recorded, unless it found no connection,
  and child, queue and handoff come in this order.
- `ProjectionFollowsPostgresHolds`, from `ProjectedInOrder`: the graph is empty until
  the run is in Postgres, and the run goes on only past all of it or none.
- `LostOnlyToMisreadHolds`, `ListedIsStoredHolds`, from `VaultInv`: the manifest is
  rewritten only by the holder of its lock, which has just read it.
- `FullRunsAreCompleteHolds`, from `StrictlyRead`: a run that claims to be full has
  passed the strict check over what it read itself.
- `OwnDirectoryHolds`, from `DirInv`: a directory that was made has one owner. That
  a free name always exists is a pigeonhole argument (lemma `FreeName`), that there
  is a least one is well-founded (lemma `LeastExists`).
- `ReleaseWasApprovedHolds`, from `FileInv`: whatever a request holds or a file says
  of an approval, a reviewer gave it, however stale the copy is.
- `OnlyStaleWritersUndecideHolds`, from `OwnSummaries`: a summary lies in its own
  run's directory, and a handler carries the decision it read unless it recorded one.
- `PublishedIsEvidencedHolds`, from `CarriedToWriter`: a governed run reaches the writer
  with the confidence its gate showed, and the bundle holds findings only.
- `WeakAreChallengedHolds`, from `RoundsInv`: the log is in the order of the rounds, each
  challenge is answered in its round, and what is weak and not yet challenged is open.
- `LeftOutForCauseHolds`, from `ClaimsInv`: what passed the gate has no unconfirmed
  role, and every context and every reading leaves out only roles that two current
  files of one period claim or a restricted file shadows. A role with a confirmed
  current file has a most recent one (lemma `HighestExists`), so it is available or
  duplicated; one without passed the gate for a restricted file (`AvailableOrNot`).

`LedgerProofs` (`AuditAssumption`, `LedgerAssumption`, `TwinAssumption`):

- `QuotaHeld`: `BudgetHeld`, for any number of calls and days, from `AuditInv`: one
  call is between its select and its insert (`OneCounted`, the advisory lock), and an
  allowed one still has room among the rows inserted since its day began
  (`RoomKept`), so its insert keeps the day's budget; settling adds nothing.
  `UnitsOf` is a fold over a set; the lemmas `SumIsSum` to `SumDisjoint` say that it
  is a sum, monotone and additive.
- `LedgerReconciled`: `ReconcilesTheSet`, for ledgers of any length. `reconcile` is two
  folds over the rows; the proof goes along each fold's trace with an invariant of
  its own (`ScanInvStep`: after n rows the state lists the receipts and reversals of
  the first n; `SettleInvStep`: what each receipt still has left), and the end of the
  traces is the definition over the set (`ReconcileIsExpected`).
- `PendingKept`: `PendingIsSomewhere`, from `TwinInv`: every trace of an undisturbed
  request belongs to one twin (`OneAsker`), one that a cycle is about to record is on
  no record yet (`Unrecorded`), one that a scan took out of an inbox was no longer
  pending (`TakenOut`), and one that is pending, or about to be recorded as such, is
  somewhere (`NoneLost`). What a crash, an exception or the model's list takes away is
  disturbed by it; a message that could not be sent disturbs only the request it
  answers, since one not yet sent is on no record (`UnsentKeeps`). A step that asks, answers and records nothing new keeps all
  of it (lemma `Quiet`); the others have a lemma each. An answer's id is made from
  its request's, so the answer of one request is not that of another (`AnswerId`).

The first two need induction. The library's induction theorems take an operator as a
parameter, which no prover here can instantiate, but well-foundedness itself is
first order (`WFMin`, `NatLessThanWellFounded`): `NatInductive` and
`FiniteInductive` derive induction for sets from a least counterexample, and
`FoldExists` and `FoldUnique` with them that a fold has its recursive value.

Every invariant and every action property that a passing run checks is stated by
a theorem. Only model-checked: the three liveness properties (`ReleasedTasksSettle`,
`PublishedJobsFinish`, `AheadArrives`), which need fairness and ENABLED and are out
of the prover's reach, and the counterexamples of section 4.

## 6. Not modelled

The map covers an eighth of the implementation. Most of the rest computes
values: `api.py` is largely read models and their presentation,
`scenario_parser.py`, `oracle_finance.py` and `source_finance_kpis.py` parse tables
and do arithmetic, much of `llm_qa.py` composes prompts. None of it keeps state over two
calls that another process writes, so a model would restate a formula. Where such
code feeds a protocol, the protocol's module takes its result as a choice.

- Specialist tasks: cancellation and `waiting_for_input` (no caller in the
  package), inline execution without Hatchet, tenants, the `schedule_timeout` of
  agent runs (a run that disappears is one the model never delivers).
- Approval requests: the coordinator creates none, and deciding one moves no task.
- Strategy runs: the in-process executor (no job row).
- Review: LangGraph's own checkpoints, runs that need no review.
- Twins: prompts and traces of a cycle's reasoning, and requests its model adds (what
  the model drops, replaces or misaddresses is modelled), investigations, KPI ingestion.
- Decision velocity: arithmetic over stamps.
- Inference audit: encryption and retention.
- Question answering: the resolvers themselves, prompts and evidence, the retries of
  one provider call (`_post_with_retry`), which end in an answer or in a failure.
- Identity: token checks are pure and the providers external; every modelled
  route assumes a request that passed them.

## 7. Plan

1. Theorems about the type invariants that no theorem states by itself yet.
2. Investigations and KPI ingestion of the twins.
