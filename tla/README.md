# Verification of the ontology dashboard's runtime and closed loop

TLA+ models of the parts of this repository that carry state across processes,
threads, files and database transactions, the TLC runs that check them, and
proofs, checked by TLAPS, of their main safety properties. Paths below are
relative to the repository; `backend` is `src/systems/backend/app`, `generator`
is `src/systems/generator/app`.

## 1. The system

Sensor data flows from `gen_data` (an external service) through the Generator
to the Backend; maintenance decisions flow back as events.

    gen_data --> Generator: extraction -> queue -> pipeline run -> delivery
       |                                                              |
       +--> live worker (sensor files, overlay events) --> queue      v
    gen_data <-- JSONL inbox <-- outbox dispatcher <-- Backend: inbox, promotion,
                                                     diagnosis, maintenance

| Component | State it keeps | Operations | Talks to |
|---|---|---|---|
| Extraction (`generator/extraction`) | reading checkpoint of a source, fragments, dedup store, published windows, handoff records (all files) | read increment, commit fragment, publish window, expire fragments, hand off | gen_data (HTTP), the queue |
| Pipeline queue and worker (`generator/runtime_pipeline/pipeline_queue.py`, `pipeline_worker.py`) | SQLite rows of jobs; the job the worker thread holds | enqueue, claim, succeed, wait for retry, fail, explicit retry, recovery at start | extraction, API, pipeline run |
| Pipeline run (`pipeline_service.py`, `pipeline_state.py`) | checkpoint file, run state file, staged batches, feature files | five stages, checkpoint after each, resumption | active model set, queue, delivery |
| Prediction delivery (`prediction_delivery_service.py`, `prediction_delivery_worker.py`) | one outbox file per batch; delivery state inside the run state file | register, send, settle, retry, recover | Backend (HTTP), pipeline run |
| Receipt and promotion (`backend/diagnosis`, `backend/infra/db/diagnosis_runtime_repository.py`) | inbox rows with a verdict, product results, evidence | receive, promote, materialise | delivery; diagnosis and maintenance screens |
| Maintenance closed loop (`backend/maintenance`) | risk events, recommendations, work orders, actions, equipment state with a version, idempotency records | recommend, order, start, complete, request replay | outbox (same transaction) |
| Event outbox and dispatcher (`backend/infra/messaging`) | outbox rows with leases, delivery log, JSONL inbox file | enqueue, claim, append, settle, recover, replay | maintenance, gen_data overlay |
| Live worker (`backend/live_predictive_maintenance.py`, `backend/maintenance/live_service.py`, `backend/infra/live_predictive_maintenance_runtime.py`) | observation rows, recorded availability events (database); nothing in memory between cycles | read complete ticks, save them, submit the latest windows, hand over overlay events | gen_data's files, the queue (HTTP) |
| Leased runs, role workflow (`backend/operations`, `operations_audit_repository.py`) | run rows with a lease, requests and approvals | reserve, complete, expire, approve | LLM, screens |
| Training, model publication (`generator/training`, `src/systems/generator/model`) | model files, active model set | train, publish, activate | pipeline run |
| Read models (dataset, ontology, dashboard, planner, report, equipment), identity, projects, frontend | tables written by one transaction per request | views and imports | screens |

What is hard here: several processes and threads write the same rows and files
(dispatchers with expiring leases; the pipeline and the delivery thread on one
run state file); any of them may die between two writes that belong together;
requests are lost, late or repeated; work is resumed from what an earlier
execution left, with other models active than then; and the order of events has
to survive all of it. What makes each component correct:

- *outbox*: the events of a maintenance action reach the consumer in the order
  of their `state_version`, none skipped; only the holder of a lease decides
  about a row; every row is settled in the end;
- *queue*: at most one job runs, live files in order of arrival, a source is
  taken in once, an ended job is not changed, every job ends;
- *delivery*: a batch marked sent is stored and promoted, a completed run has
  handed over every batch, nothing is sent again once settled, every batch
  settles;
- *pipeline run*: what is delivered was computed by the models the run says, a
  completed run is published, an interrupted run is resumed and completes;
- *extraction*: no observation is lost or counted twice, a published window does
  not change, every window reaches the queue once;
- *receipt*: of contents of one event that contradict each other one at most is
  accepted, concurrent batches do not deadlock, what is answered as received is
  promoted;
- *maintenance*: a command takes effect once however often it is sent, the
  equipment version advances once per action, illegal transitions are refused;
- *live worker*: a tick is saved whole, the newest rows reach the Generator,
  overlay events are handed over in order;
- *leased runs, role workflow*: one outcome per run or request, from whoever
  holds it.

`PROJECT.json` lists every component with its status, and every hazard at the
line where it bites with the properties that watch it.

## 2. Modules

| Module | Models | Uses |
|---|---|---|
| `OrderedDelivery` | what the integration promises its consumer (abstract) | |
| `Outbox` | outbox rows, dispatchers, JSONL inbox | implements `OrderedDelivery` |
| `MaintenanceLifecycle` | the life of a maintenance case (abstract) | |
| `Maintenance` | the commands on a case, as interleaved transactions | implements `MaintenanceLifecycle` |
| `Extraction` | one source: reading, fragments, windows, handoffs | |
| `PipelineQueue` | job queue, worker thread, restart | |
| `Handoff` | handoff files, their worker and explicit retries | extends `PipelineQueue` |
| `PipelineRun` | one source through the five stages, checkpoints, resumption | |
| `BatchReceipt` | what the Backend promises about a batch (abstract) | |
| `PredictionDelivery` | stage 5 of the run, delivery worker, network, Backend in outline | implements `BatchReceipt` |
| `PredictionInbox` | receipt and promotion in the Backend, with its locks | implements `BatchReceipt` |
| `LiveIngestion` | the live worker beside gen_data's writers | |
| `MC...` | constants of the TLC instances | the module of that name |
| `...Proofs` | inductive invariant, lemmas, theorems | the module of that name, TLAPS |

The rule for the grain of atomicity is the code's own: one database transaction
(or, where transactions interleave at READ COMMITTED, one statement that reads or
writes a row others use), one file replaced by rename, or one critical section
under a lock is one action; what a process does between two of these is split,
and it may die there. Time is never a number: a delay that has passed and a lease
that has run out are facts that an action of the environment makes true.

### Outbox

Rows of `transactional_outbox` (`status`, `attempts`, `due`, `holder`,
`expired`), the delivery log, the lines of the JSONL file, and for each
dispatcher what it holds in memory (`phase`, `msg`). `Claim` is `claim_one`: it
recovers expired leases and takes the oldest claimable *head* of a delivery
stream in one transaction. `RecoverOnly` is a poll that finds nothing but still
commits recovered leases. The handler is `CheckInbox` (reads the whole file) and
`AppendLine` (writes), two actions because nothing locks the file;
`HandlerRaises` and `SyncRaises` are its errors. `MarkDelivered`, `MarkFailed`
and `LeaseLost` are `mark_delivered`, `mark_failed` and their refusal of a lease
token that is no longer on the row. `ReplayDeadLetter` is the operator's
command. The producer's part (`Enqueue`) is the insert in the transactions of
`start_maintenance`, `complete_maintenance` and `request_replay`: events of one
action are committed in order, which `OrderedDelivery` needs and
`MaintenanceLifecycle` states.

A stream is one machine in one simulation session, while `state_version` counts
per action: two actions on a machine share a stream and their versions do not
compare. The instance has that case on purpose. The documents promise order
within an action only, and that is what is specified.

### Maintenance and MaintenanceLifecycle

`row[c]` holds the statuses of a case's recommendation, work order, action and
replay; `equipment[m]` the version of a machine's state and the completions it
contains; `record` the idempotency records; `outbox` the events. A client's
command is a sequence of steps: `Send`, `Check` (the service reads the case and
decides, outside any transaction), `SelectKey` and `InsertKey` (the idempotency
record; the insertion waits for whoever is inserting the same key), `Commit` (the
conditional updates, which see what was committed while they waited for the
row), and for a completion `ReadEquipment` and `CommitCompletion` (the state row
is patched and its version advanced by compare-and-set). `Refuse` is every answer
409 or 422, `Drop` a transaction that is rolled back or an answer that is lost; the
client may send the same key again. `May...` are the conditions in the `WHERE`
clauses; `ServiceAccepts` is the service's own check on what it has read.

`MaintenanceLifecycle` has one atomic action per command and no clients. The
refinement (`Stage`, from the four statuses) says that interleaved commands,
retries and refusals amount to that.

### Extraction

`source` is the length of the growing stream, `checkpoint` and `fragments` with
their consumption records are the files, `work` what a call holds in memory. A
poll or an API request begins a call (`BeginWith`); then follow `Recover` (a
staged batch), `NoData` or `MarkProcessing`, `SaveFragment` (rename), `Stage`,
`Commit` (the second checkpoint write), `Collect` (discovery and its conflicts;
`Closed` are the windows behind the newest record), `Publish`, `Record` (the
consumption record of one fragment), `CleanUp`, `HandOff`, `Finish`. `WriteFails`
and `PublicationFails` are the exceptions with the manager's retry and block
states, `Crash` the death of the process between any two. Directories that a
killed rename leaves behind are kept (`temporary`), since discovery reads them.

### PipelineQueue

A row is named by its `sequence`. `owner[j]` says that the row's
`source_identity` and `dedup_key` have not been archived by a retry. `Registered`
is the refusal of `enqueue`, `GoesBefore` the ORDER BY of `claim_next` (replays
of an event first until one has succeeded, then arrival), `RetryFailed` is
`retry_failed_job`, `Start` is `recover_running_on_startup` as `PipelineManager.start`
calls it. The worker's steps follow `process_one`; its sleep before a retry is a
step of its own (`StartBackoff`, `MarkRetryWait`) because the process may die in
it. What a job does is only `Execute`: `PipelineRun` says more.

### Handoff

A handoff is a file in the directory of its status (`files`); `call[p]` is what
the event loop (manager and worker, which do not await inside
`process_handoff`) or a thread of `POST .../retry` has loaded. `Save` is two
steps, `Unlink` of the old file and `Replace`, as in the repository; nothing
locks either. `LookUp` and `EnqueueHandoff` go to the queue, whose module
`Handoff` extends: all of its steps, its worker and restarts are there, and its
`Sources` are the datasets handed off (live ones: `EventOf` is `NoEvent`).
`ProcessDies` and `ProcessStarts` are the queue's crash and start together with what
they do to the calls; runtime prediction may be switched off at a start
(`mode`, `Disable`). Since the composition is built from the queue's own actions,
nothing is claimed of what it does to the queue alone.

### PipelineRun

One source, repeatedly executed by its job. `checkpointFile` and `stateFile` are
the two files of a checkpoint (`SaveCheckpoint`, then `SaveState` or `Finish`);
`state`, `loaded`, `features`, `results`, `batches` are the execution's memory.
Data is abstracted to its origin: the model set that computed a prediction, the
feature schema of a feature file, the model set whose batches are staged.
`Reconciled` and `ResumeStage` are the resumption planning of
`execute_queue_item`; `Record` is `record_checkpoint`, which builds on the run
state's own copy of the checkpoint and not on the file. `Fail` is a stage whose
exception is caught and saved, `Crash` a process that dies or an exception that
stage 5 does not catch. `torn` remembers that a crash fell between the two files
of a checkpoint; nothing reads it but one property. The queue's part is reduced
to "an execution may begin whenever none is under way and the run has not
succeeded".

### PredictionDelivery

Two threads of the Generator, the network and the Backend. The pipeline:
`StartRun` (fresh or resumed), `SaveStages`, `Publish` for each batch,
`Complete` (checkpoint 5), two saves of the run state (`SaveRun`) and
`MarkSucceeded` of the job. The worker: `MarkSending`, `SyncSending`, `Post`,
then `GetAnswer` or `Timeout`, then `SyncSettled`. A request in a slot of
`request` is posted, received (inbox row and verdict), answered (promotion), and
can be lost, refused or fail in between; a timed out request stays on its way and
may still be received. `Start` is `recover_interrupted_items`. Which of the
worker's ready items goes first is left open, as nothing stated here depends on
it.

`PredictionDelivery` and `PipelineRun` overlap in stage 5: the first has its
steps and the second thread, with the earlier stages as one; the second has the
earlier stages, with stage 5 as one. `PredictionDelivery` and `PredictionInbox`
overlap in the Backend: the first has one verdict per batch, the second all that
decides it.

### PredictionInbox

Any number of clients send `Payloads` (a `batch_id` and its items), the same one
twice and several with one `batch_id` included. `Validate` reads the known assets
outside the transaction; `LockBatch` and `LockEvent` take the advisory locks, the
events' in their order as strings; `Decide` reads the earlier rows and forms the
statuses of items and batch; `Insert` writes and commits; `Resolve` and `Promote`
are the second half of the request, which looks for accepted items under the
`batch_id` again. `attempts` are inbox rows, `items` inbox items, `results` the
promoted product results, whose identity contains the `batch_id`. `Import` makes a
dataset version and its assets known. `Fail` ends a request anywhere; the public
endpoints that only receive or only promote do to the tables what such a request
and its repetition do.

`BatchReceipt` is the contract between the two sides: a batch is decided once, an
accepted one is owed its results until it has them all, and whoever is told that a
batch was delivered is told of one that is decided and not owed. The refinement in
`PredictionDelivery` says that lost, late and repeated requests, timeouts and crashes
come to no more than that; the one in `PredictionInbox` that concurrent transactions
under the locks do. A batch is a payload there: two payloads of one `batch_id` are
two batches, of which one at most is accepted.

### LiveIngestion

gen_data (external, taken from how the code reads its files) writes one row per
machine and tick (`Emit`), sometimes not (`Gap`), pauses machines in the overlay
(`ChangeOverlay`) and appends availability events (`PublishEvent`). `Damage` is what
stays wrong: a line of a file that is no record (`malformed`; in the events' file
also an `event_id` with two contents), a row of an unknown machine (`strange`) or
without a value (`partial`), a branch file that cannot be read or does not agree
with its event (`bad`), an event the Generator refuses (`rejected`). The worker's
cycle: `BeginCycle` reads the machines in the overlay; `ReadFile` each sensor file
at a moment of its own; `NothingNew` or `Persist` (`CompleteTicks`: those at which
no expected machine lacks its row; one transaction); `Submit` (`Window`: the latest
continuous rows of each machine); then, for every event of the file in every
cycle, `ConsumeEvent` (transaction) and `PostEvent` (HTTP). What is damaged ends
every cycle that comes to it: `FileIsRefused` (every line is parsed before saved
ticks are skipped, so a bad line never falls behind; a row of an unknown machine
does), `BatchIsRefused`, `ReadEvents` (the events' file is validated as a whole
before its first event is returned), `EventIsRefused`, `EventIsRejected`. With all
machines in the overlay no sensor file is opened. `CycleFails` is any other exception
or a crash, anywhere. `missed`
and `overlaid` remember what a property needs; nothing else reads them.

## 3. Runs

| Run | Instance | Checks |
|---|---|---|
| `outbox` | 2 dispatchers, 3 events of 2 actions in one stream, 2 attempts, 1 replay, crashes unbounded | safety and the refinement of `OrderedDelivery` |
| `outbox_live` | the same with 2 events on 2 machines | `HeadSettlesOrStrands` |
| `maintenance` | 2 cases on one machine, 2 clients, 2 keys for the deciding and the completing of one case | safety and the refinement of `MaintenanceLifecycle` |
| `extraction` | 4 records in 3 windows, at most 3 read at a time, 2 attempts, 1 request, 2 faults | safety, `EverythingIsRead`, `ClosedIsPublished` |
| `queue` | 2 live files, 2 replays of one event, 3 rows, 2 attempts, 1 crash | safety, `EveryJobEnds` |
| `handoff` | 1 dataset published twice, event loop and 1 retrying thread, 2 handoff attempts, 1 retry, 2 faults, 2 rows, 1 attempt, 2 crashes | safety, `EveryDatasetIsProcessed` |
| `run` | 3 model sets (two share a schema), 3 interruptions | `ResultsArePinnedUnlessTorn`, `CompletesAfterOneInterruption`, `CompletesOrIsStuck` |
| `delivery` | 1 batch, 2 requests in flight, 2 attempts, 2 runs, 2 crashes | safety, the refinement of `BatchReceipt`, `EveryBatchSettles` |
| `inbox` | 5 payloads in 3 batches, 2 events, 2 contents of each, 2 dataset versions (one lacks an asset), 2 clients | safety, `NobodyWaitsInACircle`, the refinement of `BatchReceipt` |
| `live` | 2 machines, 3 ticks, windows of 2 rows, 2 events, any machines in the overlay at first; any 2 of: gap, change of the overlay, damage, failed cycle | safety, `WholeTicksAreSaved`, `EventsAreTaken` |
| `delivery_runstate`, `extraction_loss` | smaller | one claim each that the code does not keep (section 6) |

What the properties say is written above each of them in the modules. In short:

- `Outbox`: `AccountsForDelivery` (a processed row has its line and its entry in
  the delivery log, and nothing else has), `OnlyTheHolderSettles`,
  `DeliversInOrder` (the refinement), `HeadSettlesOrStrands`.
- `Maintenance`: `EquipmentCountsEvents` (a machine's version counts the
  completions in its state: none is overwritten), `OneEffect` (the rows of a case
  agree, and two keys never had the same effect), `RetriesAreReplayed` (what
  had succeeded is answered again, decisions excepted; a duplicate of a request still
  under way is refused by the unique key), `RefinesLifecycle`.
- `Extraction`: `LossOnlyByStraddling`, `BlocksOnlyAfterFault`,
  `PublishedIsHandedOff`, `EverythingIsRead`, `ClosedIsPublished`: in each case
  with the exact condition under which the code keeps it.
- `PipelineQueue`: `LiveInArrivalOrder`, `OneOwnerPerSource`, `EndedForGood`,
  `EveryJobEnds`.
- `Handoff`: `EnqueuedHasOneJob`, `GivenUpIsQueued`, `EveryDatasetIsProcessed`.
- `PipelineRun`: `ResultsArePinnedUnlessTorn`, `CompletesAfterOneInterruption`,
  `CompletesOrIsStuck`.
- `PredictionDelivery`: `SentIsInBackend`, `CompletedRunIsPublished`,
  `SettledForGood`, `RefinesReceipt`, `EveryBatchSettles`.
- `PredictionInbox`: `DecisionsAreCurrent` (what was read under the locks is still
  so at the insert, hence the unique indexes never refuse it),
  `NobodyWaitsInACircle`, `AnsweredIsPromoted`, `SecondContentWasRefused`,
  `RefinesReceipt`.
- `LiveIngestion`: `LossOnlyByGap` (a row is lost only to the overlay or behind a
  tick that some machine has left out), `NewestWindowIsSubmitted`, `EventsGoInOrder`,
  `WholeTicksAreSaved` and `EventsAreTaken` (each unless something damaged stops the
  cycles, named exactly by `SensorsAreStuck` and the state of the events' file, their
  branches and the Generator).

The type invariants are theorems (section 4), and but for that of `Extraction` no
longer part of a run; the same holds of `TriedInStateOrder`, `RunningIsHeld` and
`CompletedIsPublished`.

Each property of a run has a mutant: a plausible bug in one definition (a dropped
lease check, `<=` for `<` at a limit, a forgotten recovery, locks in no order)
under which TLC finds it violated. The `Mutant...` operators stand before what
they mutate.

**Bounds, and why they are enough.** `MaxAttempts = 2` has a first, a last and no
middle attempt, which is every case the code distinguishes. Two dispatchers are
what it takes to lose a lease to somebody; three events are two of one action,
whose order matters, and one of another action in the same stream with a lower
version. Two maintenance cases on one machine are what it takes to overwrite an
equipment state, two keys for one command what it takes to do it twice. Four
records in three windows, read three at a time, give fragments that end with a
window, reach into the next, or hold one late record; every assignment of four
records to three windows was also tried without faults. Three rows of the queue
are two live files and a replay between them, or a file and two retries of it. One
dataset is enough for the handoff, since handoffs meet only in the queue, which
`queue` checks with more. One batch is enough for the delivery because the worker
holds one batch at a time; two request slots are a live request and a stale one.
Two runs are a resumed and a repeated one. Three model sets give a change with and
without a change of schema, and a change back. The inbox's payloads overlap in both
events, in opposite contents, under one `batch_id` and under three; two requests
make every pair of them. Three ticks and windows of two rows give a gap within, before
and after a window; two events one that fails and one behind it; two troubles every
pair of things that go wrong (safety was also checked with three).
`MaxReplays`, `MaxJobs`, `MaxCrashes`, `MaxRuns`, `MaxInterruptions`, `Slots`,
`MaxRecords`, `MaxRequests`, `MaxFaults`, `MaxPublications`, `MaxRetries`,
`NumTicks`, `NumEvents`, `MaxSkew` and `MaxTroubles` are bounds of the
model, not of the code (in `PredictionInbox`, `NumEvents` is the number of
event_ids); they are in the guards of the actions they bound. `Lookback` is
eight windows in the code and one in the instance, so that it is reached. The
proofs hold for all values.

**Deadlock** is not checked: in each instance a state in which the bounds are used
up and all work is done is reached, and the real system waits there too. The inbox's
locks have `NobodyWaitsInACircle` instead.

**Fairness.** The dispatcher (`run_forever`), the queue worker, the delivery
worker, the extraction manager, the handoff worker and the live worker are endless
loops over a poll: `WF_vars` of the disjunction of their steps, never of a single
outcome, so no worker is assumed to succeed. Requests end because the client has a
timeout and the server answers or dies; delays and leases run out because time
passes; a process is started again by its supervisor (`restart: unless-stopped` in
`src/infra/macmini/docker-compose.yml`). `PipelineRun` assumes that the source's
job is executed again after an interruption: a restart re-queues a running job, a
failed one is re-queued within its attempts and otherwise by the operator's retry,
which the claim about resumption presupposes. Nothing is assumed of crashes,
failures, operators, producers, gen_data or activations of models. No strong
fairness is used.

## 4. Proofs

All theorems hold for every value of the constants allowed by the modules'
`ASSUME`s (checked by TLC in the runs): distinct null values, positive attempt
limits, one stream per action, and so on. Each is `Spec => []Inv`, or
`Spec => [][A]_vars`, from one inductive invariant `IInv` per module
(`InitIInv`, one lemma per action, `NextIInv`), which was checked by TLC first.

| Module | Theorems | What `IInv` adds to the checked invariants, and why |
|---|---|---|
| `OutboxProofs` | `OutboxTypeCorrect`, `OutboxTriesInStateOrder`, `OutboxAccountsForDelivery`, `OutboxOnlyTheHolderSettles`, `OutboxDeliversInOrder` | `HeldInOrder`: a worker whose lease is long gone still has the row in memory and may write its line, so the order must hold of what is in memory, not only of what is leased; `LeaseOnlyOnProcessing`, `PublishedInOrder`, `HandledIsInInbox`, `LinesArePublished` |
| `MaintenanceProofs` | `MaintenanceTypeCorrect`, `EquipmentCountsItsCompletions`, `EffectsHappenOnce`, `RetriesAreAnswered`, `ImplementsLifecycle` | `LockedRows` and `SeenEquipment`: what a transaction has read and may rely on while others commit; `ReservedKeys`, `ArgsMatch`, `RetriesRecorded` tie a request to the record of its key |
| `ExtractionProofs` | `ExtractionTypeCorrect`, `RecordsAreLostOnlyByStraddling`, `OnlyLateRecordsBlock`, `DatasetsAreHandedOff` | `CallSoFar`, `SavedOnDisk`, `Covered`: at each step of a call, which records the files account for; `PublishedHeld`, `RefsHeld`: what a published window was made of; `Orderly`, `Timely`: without faults fragments follow each other, and no window is closed before its records |
| `HandoffProofs`, part one: the queue | `QueueTypeCorrect`, `QueueRunningIsHeld`, `QueueLiveInArrivalOrder`, `QueueOneOwnerPerSource`, `QueueEndedForGood` | `WorkerState`: the worker is busy exactly with a running row; `AttemptsBounded`: a restart counts an attempt without looking at the limit, so attempts are bounded by the limit plus the crashes, with one in hand while the process is down; `SucceededAreComputed` |
| `HandoffProofs`, part two | `HandoffTypeCorrect`, `EnqueuedHandoffsHaveOneJob`, `NothingIsGivenUpUnqueued` | `FilesSound`, `CallsSound`: what a status on disk or in the memory of a call says of the queue; `OwnOnce`; and the queue's own `QueueIInv`, which the composition keeps because each of its steps is one of the queue's or leaves the queue alone |
| `PipelineRunProofs` | `RunTypeCorrect`, `RunResultsArePinnedUnlessTorn`, `RunCompletedIsPublished` | `PredictionsArePinned`: wherever predictions are (memory, run state, file) they go with the model set named in the checkpoint file; `RecordedInv`, `BatchesAtHand`: what is about to be saved names what is published |
| `PredictionDeliveryProofs` | `DeliveryTypeCorrect`, `DeliverySentIsInBackend`, `DeliveryCompletedRunIsPublished`, `DeliverySettledForGood`, `DeliveryIsAReceipt` | `AnswersAreSound`: what the Backend has done when a request has got so far, also for requests nobody waits for; `WaitsForHeld`: the answer the worker takes is of the batch it holds; `PublishedSoFar`: a batch that is no longer to do has its file; `PromotedIsAccepted` |
| `PredictionInboxProofs` | `InboxTypeCorrect`, `InboxDecidesOnCurrentRows`, `InboxNobodyWaitsInACircle`, `InboxAnswersArePromoted`, `InboxSecondContentWasRefused`, `InboxIsAReceipt` | `LocksInOrder`: a request holds the locks of the events before the one it waits for, so that on a circle the client that holds the greatest event waits for none held by another; `Exclusive`; `DecisionsAreCurrent`, `ItemsStored`, `OneAccepted`, `OneAcceptedInBatch`, `GoingOn`, `Sourced`: from rows to results |
| `LiveIngestionProofs` | `LiveTypeCorrect`, `LiveLosesOnlyByGap`, `LiveNewestWindowIsSubmitted`, `LiveEventsGoInOrder` | `SeenIsACut`: what a cycle has read of a machine's file is all of it up to some tick, since files only grow; hence a tick missing from it is behind the machine's clock (`LossOnlyByGap`) or not yet written (`RowsAreDealtWith`); `ActiveWasOverlaid`, `StreamersAreInLatest`, `BatchIsNewest`, `SubmittedIsNewest`: from the batch saved to what the Generator has; `EventsReached(k)`: how far the file's events are, between transaction and POST |

Four of the theorems are refinements. `OutboxDeliversInOrder`: the initial state
maps to `OrderedDelivery`'s, `Enqueue` to `Publish`, the first line of an event to
`Deliver`, everything else (a second line of the same event included) to a
stutter. `ImplementsLifecycle`: `Commit` and `CommitCompletion` map to the command's
action, every other step of a client to a stutter.
`DeliveryIsAReceipt` and `InboxIsAReceipt` show the two models of the
Backend, the outline that the delivery uses and the detailed one with its locks, to
keep one contract, `BatchReceipt`: the step that inserts a batch maps to `Decide`, the
promotion to `Promote`, with the answer that follows in the same step to `Tell`,
a lost, taken or repeated answer to `Forget`. In the inbox the promotion may pay
for another payload of the same `batch_id` than the one it tells of
(`OneAcceptedInBatch` makes it one).

**Model-checked only**: the liveness properties (`HeadSettlesOrStrands`,
`EverythingIsRead`, `ClosedIsPublished`, `EveryJobEnds`, `EveryDatasetIsProcessed`,
`CompletesAfterOneInterruption`, `CompletesOrIsStuck`, `EveryBatchSettles`,
`WholeTicksAreSaved`, `EventsAreTaken`), which need fairness and `ENABLED`, beyond
the prover's backends; and the counterexamples of section 6. Every safety property
of a passing run is stated by a theorem.

The proof attempt for `PipelineRun` found what the instance could not show: that
reused predictions are of the pinned models was first stated without `~torn`, and
held with three interruptions. It does not hold with five: a crash between the two
files of a checkpoint loses the preprocessing outputs from the checkpoint and
leaves predictions of other models in the run state beside a checkpoint that names
the present ones. The property now says exactly when the code keeps it.

## 5. Limits

- Errors of SQLite, the file system and the lock files themselves are modelled
  where the code has a path for them (handler and `fsync` errors, stage failures,
  rolled back transactions, failed writes of extraction and handoff), not
  everywhere; in particular not in the marks of the queue worker.
- `PipelineRun`: model sets differ in version and schemas, never in their members
  (the code refuses to resume then, for ever); the schema check in scoring is not
  modelled, so whether features of an old schema are scored after a torn checkpoint
  (`pipeline_state.py:201`) is left open.
- `PipelineQueue` bounds crashes: a job that kills its process at every start is
  re-queued for ever by the code, which the model cannot show. A failure to write a
  job's outcome (`pipeline_worker.py:80`) leaves it running until a restart, which
  the model does not have without the restart.
- `Outbox`: order between the actions of one machine (`outbox.py:117`) is neither
  promised by the documents nor specified.
- `Maintenance`: the inspection order and the cost analysis before the
  recommendation are not modelled; a key is used for one command of one case.
- `Extraction`: rejected records, mapping mismatch, truncation and prefix checks of
  the source and failed deletions are left out; all records convert. A window never
  has two observations of one machine at one time: that duplicate blocks the source
  without any fault (`window_assembler.py:192`).
- `Handoff`: `extraction_runtime_handoff_enabled` is taken to be on; a failing
  unlink of the old file is not modelled.
- `PredictionInbox`: checksum, schema and lineage checks are one flag of an item;
  threshold policy and evidence are data.
- `LiveIngestion`: the creation of the live dataset version, the seeding of its
  results and the ontology projection are left out, and rows from the future are
  taken not to occur. The overlay names only machines of the dataset version (another
  one ends every cycle, as a bad line does). The Generator takes every live snapshot
  unless the cycle fails: if it refused all of them while ticks keep coming, no cycle
  would get to the events, which a bounded clock cannot show.

## 6. Where code and documents disagree

Two runs end in a counterexample; `PROJECT.json` quotes code and document.

1. `delivery_runstate`: the pipeline's save from memory undoes the delivery state
   that the worker has written, with no failure at all.
2. `extraction_loss`: a fragment with records of two windows is consumed, and
   deleted, when the first of them is published; its other records are in no
   dataset. (Recording the windows a fragment really has is not enough: then
   `BlocksOnlyAfterFault` fails: the fragment stays for its second window, and the first
   is assembled again from what is left of its fragments, which conflicts with what
   was published.)

The others are kept out of the runs; a passing property states exactly what does
hold, and shows by its exception what does not.

- *Outbox.* A worker that dies in a row's last attempt leaves it in `retry` with no
  attempt left: never claimed, never a dead letter, not replayable, at the head of
  its stream (`HeadSettlesOrStrands`). Two handlers of one event, one with an
  expired lease, both find it missing in the file and both append it, although
  `docs/closed-loop-runtime-overlay-contract.md:165` calls the adapter idempotent;
  `DeliversInOrder` counts the first line, as a consumer that drops repeated
  event_ids does.
- *Queue.* Retrying the same failed job twice puts two active jobs of one source
  into the queue; one of them owns the source (`OneOwnerPerSource`).
- *Run.* A run that resumes behind the feature stage saves that stage as running;
  interrupted once more it is refused at every later execution
  (`CompletesOrIsStuck`). After a change of the model set and two interruptions
  around a torn checkpoint, batches of the old models are delivered as those of the
  new ones (`ResultsArePinnedUnlessTorn`).
- *Maintenance.* A decision sent again with its key is refused with 409 by the
  service before the idempotency record is looked at, against
  `docs/closed-loop-product-consumption-contract.md:303` and
  `docs/closed-loop-domain-contract.md:80` (`RetriesAreReplayed` excepts
  decisions).
- *Handoff.* The endpoint of the explicit retry (`extraction_router.py:119`) says
  that an exhausted handoff is delivered again; `process_handoff` returns it
  unchanged (`extraction_runtime_handoff_service.py:352`). A failing read of the queue
  database blocks a handoff rather than postponing it (`GivenUpIsQueued` excepts
  failed accesses). A crash in `enqueueing`, or between unlink and rename, leaves a
  handoff to an explicit retry or loses it (`EveryDatasetIsProcessed`).
- *Inbox.* A rejected batch whose answer is lost is answered 200 as a duplicate the
  second time and marked sent, against `docs/ai-code-review-context.md:58`
  (`SentIsInBackend` speaks of accepted batches only). A content that was refused as
  a conflict is no conflict when it comes again in another batch, against
  `docs/plans/2026-08-26-002-pr128-parallel-runtime-closed-loop-proposal.md:355` (`SecondContentWasRefused`). The same event with
  the same content in two batches is promoted twice, as a result's identity contains
  its `batch_id`, against `docs/plans/2026-08-26-001-runtime-simulation-closed-loop-plan.md:269`. Once a damaged payload
  was refused, other payloads of its `batch_id` are refused for ever. A result whose
  asset is known to the workspace but not to the batch's dataset version is accepted
  and silently skipped at promotion (`runtime_service.py:522`).
- *Live worker.* One line that fails to write one row loses the rows of all machines
  at that tick (`LossOnlyByGap`). A cycle that fails between saving ticks and
  submitting them is not repeated until another tick is complete
  (`NewestWindowIsSubmitted`). A machine that has a gap is submitted with its last
  continuous window, however old. Nothing is set aside: one bad line in one sensor
  file, long saved or not, ends every cycle before any tick is saved or event is
  handed over, and one bad line in the events' file holds up the valid events before
  it as well (`WholeTicksAreSaved`, `EventsAreTaken`).

## 7. Not modelled

- *Leased agent review and decision support runs.* Rows that are reserved, expire and
  are completed around a call of a language model, by conditional updates; no other
  component reads the lease. A review that outlives its lease
  (`operations_audit_repository.py:505`) would be the property to state.
- *Role workflow and approvals.* One transaction per request, which appends a record
  and its audit event.
- *Features, scoring, training, preprocessing.* Functions of their input over data
  frames and model files, with no state between calls; `PipelineRun` keeps which
  models and schema a result comes from, and activation of a model set is one of its
  actions.
- *Identity, projects and permissions; dataset, ontology, dashboard, planner, report and
  equipment views.* One transaction per request and derived views, no protocol between
  actors. Most of the repository's lines are these, the tests and the frontend.
- *Frontend.* No state the other parts depend on.
