# Control One: a TLA+ model of its event pipeline and its remote work

Control One is an agent (`src/cmd/nodeagent`, `src/internal`) that watches hosts and a
control plane (`src/controlplane`) that collects what agents report, keeps it in Postgres
and Apache Doris, evaluates it and sends back work. This directory holds TLA+ modules of the path events
take through the system and of the work the control plane drives (background jobs, remediation, cluster rollouts,
log dumps), TLC configurations that check them, and TLAPS proofs of the properties that matter most.

```
 collectors        agent                                control plane (N replicas)
 ---------    ------------------                ------------------------------------------
 procmon  --> Stream --> Batcher --> Spool       POST /api/v1/events/ingest
 netflow      (channel)  (goroutine)  (files) -->  handleEventsIngest --> journal (Postgres)
 dbquery ...             postWithRetry              | fan-out             ^ |
                                                    v                     | v
                                                 Stream Load --> Doris <-- replay drainers
                                                 Writer (buffers) --> Doris

 failing result, operator --> dispatch --> lease --> worker.Manager --> script, verify, rollback
 operator --> rollout (create, abort, resume, edit) --> jobs: advance <--> gate check
 operator --> log dump --> claim, chunks, complete (agent)  <-->  time-out, expiry, maintenance
```

| Module | Models | Checked by | Proved in |
|---|---|---|---|
| `EventIngestJournal` | journal table, request handlers, replay drainers, Stream Load labels | `journal_*` runs | `EventIngestJournalProofs` |
| `DorisWriter` | the in-memory batching writer to Doris | `writer_*` runs | `DorisWriterProofs` |
| `EventBatcher` | the agent's channel, batching goroutine and disk spool | `batcher_*` runs | `EventBatcherProofs` |
| `BatchDelivery` | abstract: what the agent's path promises; `EventBatcher` implements it | `batcher_delivery` | `BatchDeliveryProofs` |
| `WorkerManager` | `worker.Manager` with the in-memory backend | `worker_delay`, `remediation` | `WorkerManagerProofs` |
| `NodeRemediation` | leases, dispatch, script, verification, rollback, composed with `WorkerManager` | `remediation` | `NodeRemediationProofs` |
| `ClusterRollout` | a rollout in waves: jobs, operators, members that come and go | `cluster_rollout` | `ClusterRolloutProofs` |
| `LogDump` | a raw log dump: claims, chunks, artifact, job, expiry, maintenance | `log_dump` | `LogDumpProofs` |

The `MC*` modules and `.cfg` files give the constants their values for TLC. `PROJECT.json`
lists the runs, the mutants, the hazards, the findings and the source lines of every definition.

## 1. Inventory

State, operations, and what makes each part correct. "M" is modelled here, "P" planned, "–" left out.

| Component | State it keeps | Operations | Hard behaviour | Correct when |
|---|---|---|---|---|
| **M** Ingest journal: `server/events_ingest.go`, `event_ingest_service.go`, `event_ingest_replay_scheduler.go`, `storage/event_ingest.go` | rows of `event_ingest_batches` with status, payload, back-off | record, fan out, mark, sweep, replay, prune | crashes between steps, several replicas, overlapping sweeps, lost answers, unconditional updates | an acknowledged batch is kept or delivered; accepted means loaded; nothing is loaded twice; every row is settled |
| **M** Doris writer: `doris/writer.go` | buffer per table, closed flag, flush goroutines, health | `Enqueue`, `EnqueueNonBlocking`, flush, `Close` | condition variable, WaitGroup against Close, hand-over between goroutines | rows are in one place; Close flushes all and returns; waiters wake |
| **M** Agent pipeline: `eventstream/batcher.go`, `stream.go`, `durablespool/spool.go` | channel, pending batch, spool directory | publish, append, flush, drain, post, delete, evict | kills, lost answers, full spool, refused batches, cancellation | spooled batches reach the control plane, in order, under one key |
| **M** Worker manager: `worker/manager.go` | queue, workers, started flag; asynq in Redis | Start, Stop, Enqueue, EnqueueAt, retries | enqueue against Stop, delayed tasks, restart | an accepted task runs or is reported; Stop returns after the workers |
| **P** Event bus, correlation: `eventbus/eventbus.go`, `correlation/engine.go` | subscriptions with channels | Subscribe, Publish, cancel | send after unlock against close | no send to a closed subscription; slow subscribers do not block |
| **M** Remediation: `storage/leases.go`, `server/compliance_remediation.go`, `server/remediation.go` | one lease per node with expiry, job rows | count, acquire, enqueue, run, release, verify, roll back | release by node without the owner, expiry while a job runs, a cancelled context at shut-down | scripts of a node do not overlap; a lease goes with its request; what ended is recorded |
| **M** Cluster rollouts: `server/cluster_rollouts_jobs.go`, `cluster_rollouts_api.go`, `storage/cluster_rollout_waves.go`, `clusters.go` | rollout, waves, members | create, advance, gate check, halt, abort, resume, edit | reads and writes in separate statements, delayed jobs lost on restart, double resume, members that leave | no wave starts before the gates before it; every member is reached; aborted stays aborted |
| **M** Log dumps: `storage/log_dump*.go`, `server/log_dump*.go`, `nodeagent/log_dump_exec.go` | row with claim token and generation, job, chunks, artifact | claim, upload, complete, cancel, time out, expire, delete | take-over of an expired claim while the first completes, files and rows not written together | what is captured can be read; job and artifact agree; nothing is left behind |
| **P** Log telemetry: `server/telemetry.go` | log rows, receipts | ingest, receipt | receipt read before and written after the work | logs of a re-post are stored once |
| **P** Automatic blocking, collector runtime, self-update, web server control (`internal/autoblock`, `cmd/nodeagent`, `internal/webservercontrol`) | cooldowns; generations; files on disk | block; start and stop; replace and restart; apply and roll back | one step of several fails | see the plan |
| – Policies, compliance, detections | rules | evaluation | none of the kinds above | pure functions of large data |
| – REST resources, authentication, registration, mesh, secrets, provisioning, network devices, SIEM, offline bundles, IP intelligence, LLM, reports, UI | rows and files | single requests, formatting, calls of external services | little shared state | left to tests |

**How they interact.** Collectors publish into the channel and never wait. The batcher's goroutine
owns the pending batch and the spool. Its only contact with the control plane is a POST with a replay
key (a hash of the events). The handler writes the journal row, runs the local side effects
(rollups, detections, the event bus), writes the prepared payload to the row, loads up to six Doris tables
one after another and marks the row. The replay scheduler of every replica takes rows that
are not settled after 30 seconds and repeats what is left of them. The retention job deletes
accepted rows after 24 hours. The bastion (and ingest, without a Stream Load client) puts
rows into the Doris writer instead.

Everything the control plane does in the background goes through `worker.Manager`: goroutines take
closures from a channel and retry them. A failing compliance result, or an operator, makes a dispatcher count the
tenant's leases, take the lease of the node and enqueue the script; the job releases the lease and enqueues a verification
or a rollback into the queue it was taken from. A rollout's advance and gate-check jobs enqueue each other, with delays,
and meet the handlers of operators only in the rows of the rollout and its waves. A log dump is
captured by an agent over several requests (claim, chunks, completion), while cancellation, time-out,
expiry and the hourly maintenance work on the same row, job and files.

## 2. The modules

### EventIngestJournal

A step is one call a goroutine makes to Postgres, to Doris or to its client. The replica may crash
before any of them, and other goroutines run between them.

| Definition | Code |
|---|---|
| `journal[i]` | a row: status, payload as posted or prepared, `due` (`next_attempt_at` reached), `aged` (`received_at` past the cut-off) |
| `Record`, `ReplayReceipt`, `Reply` | `handleEventsIngest`: insert with `ON CONFLICT`, stored receipt for a duplicate, response |
| `ApplyLocal`, `MarkLocalComplete`, `LoadTable`, `LoadFails` | `fanoutMarkLocalAndFlush`, `flushDorisEventFanout` |
| `StreamLoad`, `LabelFor` | `Client.streamLoad` with the label of table and row id; a label Doris has finished counts as loaded |
| `MarkAccepted`, `MarkPending`, `MarkFailed` | `MarkEventIngestStatus`: an update by id, whatever the status was |
| `Sweep`, `Replay`, `ReplayDorisOnly`, `ReplayUndecodable` | `PendingEventIngestBatches`, the two `drainEventIngestBatch` functions, on the row as the sweep read it |
| `Age`, `Backoff`, `Prune`, `Crash` | time, `PruneAcceptedEventIngestBatches`, a process that dies |

`labels`, `loads`, `applied`, `lostLocal` and `acked` record what happened outside the journal: what Doris
holds, how often side effects ran, which writes of the prepared payload were lost, and which batches an
agent may have forgotten. `SlowHandlers` says whether a row may pass the cut-off while a goroutine works on
it; both values occur (a handler has no deadline of its own), so the safety run sets it and the run
whose properties need it false says so below. Age, once reached, also stands for the 24 hours of
retention: a row that is old enough to be replayed may already be old enough to be pruned,
which is more than the code allows and so safe for the safety properties.

### DorisWriter

A step is one critical section of `w.mu`, or one operation on a channel, the WaitGroup or Doris.
A call of `Enqueue` is a process that runs once; `Closers` are the calls of `Close`. A flush goroutine is the
set of calls whose rows it carries, so it is known where the rows of each call are at any time.
`Block` is `cond.Wait`, which gives up the lock and later runs the loop's condition again (`woken`).
`TakeAll(arm)` is the critical section of `flushAll`, for the ticker and for `stopCh`; the ticker's is
restricted to a writer with something pending, because otherwise it changes nothing.
The labels of flushes (`makeLabel`) are unique and used once, and are left out.

### EventBatcher

One goroutine, whose position is `pc`, with `cont` for where `drainSpool` or `flush` returns to. A batch
is the sequence of its events, which is all its replay key depends on, so equal batches have equal keys.
`Poison` events are those a control plane answers with a 4xx, as it does for events more than seven days old or
of an unknown type. `Kill` may strike between any two file operations or POSTs, `Shutdown` cancels the context
(SIGTERM) or calls `Stop`, and `Restart` is systemd's `Restart=always`. The files are written
under a temporary name and renamed, so a kill leaves a record or none. `Evict` is one turn of the loop of `enforceBudget`.
`PostFails` leaves it open whether the control plane had accepted the batch.

`Promise` maps this state to `BatchDelivery`: an event is `held` in memory, `kept` in a record, `delivered`, or `gone`. The mapping is by
what the control plane has, not by what the agent knows: a record that was accepted and not yet
deleted is delivered, and an event whose direct POST was accepted and given up is delivered, not lost. What the
abstract specification adds to the invariants is the order and the wholeness of every step: a batch is delivered
whole, only the oldest on disk is delivered from disk or evicted, and nothing comes back from `gone`.

Findings by reading that no run states: `Stream` says that a full buffer drops the oldest event
(`src/internal/eventstream/stream.go:53`) while `Publish` drops the newest, as its own comment says
(`:71`), and that `Publish` drops silently after `Close` (`:99`) where it would panic; nothing calls `Close`.

### WorkerManager

A task is one call of `Enqueue` or `EnqueueAt`. The call is two steps, `Check` (what is read under
`m.mu.RLock`) and `Offer` (the select after the unlock), so `Stop` may close the queue in between. A goroutine is
`idle`, at the `begin` of an attempt, in the `sleep` of a delayed task, in the `job`, or in the `backoff` before the next attempt. Where several arms
of a select are ready, any is taken: a closed queue is drained by goroutines that do not
see the cancelled context. `wg` is `m.wg`: `Add` when the goroutines start, `Done` (`Quit`) when one returns. `Stop` knows nothing of the goroutines
but this counter, so that its return means anything at all depends on the order in which the code sets flag, channel, context and counter. `Signal`, `StopFlags`, `StopCloses`, `StopReturns` and `Exit` are main's shut-down
with its fifteen seconds; `Kill` ends the process at any step. Time is nondeterministic:
`ProcessAtComes`, or the ten minutes of a job's context end first (`SleepEnds`).

### NodeRemediation

Extends `WorkerManager`: the manager's steps are taken over as they are, `CallJob`, `JobReturns`, `Check` and `Offer` are
conjoined with what the job or the caller does (`RemediationImplements` proves that nothing else is done to the manager), and `Manage` is every step that touches the manager alone.

| Definition | Code |
|---|---|
| `Count`, `Acquire`, `Enqueue`, `OfferExecute`, `NotEnqueued` | `dispatchRemediationTask`, `handleExecuteRemediationScript` from the cap check on |
| `lease`, `LeaseExpires`, `Release` | `remediation_leases`: acquire sweeps expired rows, release deletes by node |
| `Begin`, `Start`, `ScriptEnds` | `buildRemediationJobExecution` |
| `ReleaseLease`, `Follow`, `OfferChild`, `Finished` | `chainRemediationExecution`, `enqueueComplianceVerify`, `enqueueRemediationRollback` |
| `VerifyEnds` | `buildComplianceVerifyJob` |
| `Dies`, `ChildPanics` | the process ends, or panics because a job sends on the closed queue |

A job's context is derived from the manager's and cancelled with it, so after `Signal` every statement of a job fails
(`JobWorks` needs `live`), which is how leases and job rows are left behind at a shut-down. `expired`,
`unreleased` and `unrecorded` record that. One fault of a dispatcher is a client that disconnects, which cancels the context of every statement
that is still to come: a failed acquisition may fail the job row too, `NotEnqueued` may fail the row and the release together, and an acquisition
may commit although its answer is lost, which leaves a lease nobody releases.

### ClusterRollout

A step is one statement on the rollout or wave row, because no statement is conditional on what was read before.
A `chain` is a sequence of jobs each of which enqueues the next: advance reads the rollout and cuts its
window of members (`AdvanceReads`), writes the rollout (`AdvanceFlips`), finds or creates its wave and applies the
template; gate check marks the wave, moves the pointer and enqueues the next advance, or halts.
Requests are handlers: `Create`, abort (three statements), resume, and the edit of a wave, which mirrors the
status to the rollout. Whether a gate passes and whether the adapter succeeds is open: the code only counts failures
of the adapter (`cluster_rollouts_jobs.go:185`) and the gates read other tables. Requests have no identity, so they come in
the order of their numbers; this removes only renamings.

Reading also shows, without a property of its own: a wave that is resumed keeps its `started_at`
(`AdvanceResets`), so its gate may halt it again at the first check.

### LogDump

A step is one statement, one transaction, or one operation on the artifact or the chunks. `file` says whose data is at the one path
a dump has, whoever writes it; `path` whose digest the row carries. A handler reads the clock once: `Renew` checks the
lease and `Complete`, with the same clock, no longer does. `overran` holds captures whose lease ran out
while they completed and `stray` whether an artifact was written that no row named when the process or the copy of the maintenance
ended. `ListCandidate` makes the copy (`knows`) that the rest of a maintenance pass works on.

## 3. What the runs check

| Run | Instance | Shows |
|---|---|---|
| `journal_replicas` | one batch that may be journaled twice (the second time after a prune), two tables of which one gets only prepared events, one handler and one drainer on a replica and one drainer on another, one crash, two failures, slow handlers; 4.9 million states | `AckedMeansKept`, `AcceptedMeansLoaded`, `LoadedAtMostOnce` |
| `journal_settles` | two batches (one grows past the row limit when prepared), two handlers, one drainer, one crash, two failures; 274 thousand states | `RecordedIsSettled`, `AcceptedIsFinal`, `LocalEffectsBounded` |
| `journal_row_limit` | the same without failures | `NoBatchDropped` is violated (finding 1) |
| `journal_exact_rows` | the same without crashes | `ReplayFlushesExactRows` is violated (finding 2) |
| `writer_close` | calls of 2, 1 and 3 rows on one table and of 2 on another, one that does not block, two calls of `Close`, `MaxBatchRows` 4, `MaxPendingRows` 2; 94 thousand states | `RowsInOnePlace`, `NoLostWakeup`, `CloseFlushesAll`, `WaitersReturn`, `CloseReturns` |
| `writer_back_off` | `MaxBatchRows` 2 < `MaxPendingRows` 3, the order of the defaults (5000, 50 000) | `BacksOffWhenDorisIsSlow` is violated (finding 3) |
| `batcher_delivery` | four events, batches of up to three, a channel and a spool of two, one refused event, two attempts per POST, two stops, two failures; 142 thousand states | `SpooledIsKept`, `OneKeyPerEvent`, `SpoolArrivesInOrder`, `NoEventVanishes`, `SpooledIsDelivered`, and `DeliversInBatches`: `EventBatcher` implements `BatchDelivery` |
| `batcher_rejected` | the same | `RejectedIsNotRetried` is violated (finding 4) |
| `worker_delay` | one goroutine, a delayed and a prompt task, two attempts, no stop | `FailedWasCalled` is violated (finding 5) |
| `remediation` | an automatic remediation that is delayed and can be rolled back and a manual one, on one node or two, with eight tasks, two goroutines, a queue of one, two attempts, a cap of one, a shut-down or kill, or a failed database call; 2.6 million states | `OnePlacePerTask`, `StopSettles`, `SerialPerNode`, `LeaseEndsWithJob`, `EndedIsRecorded`, `OnlyLateReleaseRobs` |
| `cluster_rollout` | three members in two waves and a place before them for a fourth, three requests in any order that applies, one failed statement, lost job or restart, one member that leaves or joins; 1.1 million states | `WavesInOrder`, `NoMemberOvertaken`, `OneChain`, `AbortStopsWave`, `QuietAbortHolds`, `RolloutSettles` |
| `log_dump` | two captures of two chunks each, or a capture by the control plane; a cancellation, expiry, one restart, two failures; 171 thousand states | `CapturedIsIntact`, `JobTellsOfArtifact`, `NothingLeftBehind`, `JobSettles`, `EveryDumpIsDeleted` |

Each module also has a type invariant, checked with its first run. Each property of a passing run has a
mutant: a plausible fault in one definition (the operators marked "Fault" in the modules), under which TLC
finds that property violated.

**Bounds, and why they are enough.** The rows of the journal do not influence each other except
through a replay key that is reused after a prune, so one key with two rows is the interesting case;
two tables are enough for a flush to stop half-way and for events to be added by preparing them; two drainers
are enough for one to hold an old copy while the other settles the row. Two failures are needed for the lost
write of finding 2, and a crash for the replay of a row never completed locally. In the writer, three
calls on one table reach every state of a buffer (room, overflow, full with a waiter); the limits are chosen
so that the buffer is full before it overflows, without which `Block` never happens. In the batcher, a batch of
three does not fit the spool and is posted directly, one of two or one does, or evicts another;
two stops allow a kill during the recovery from a kill.

Remediations meet in the lease of a node, in the tenant's cap and in the queue; two requests reach each,
in both orders and on either node. A queue of one is full when a job enqueues its child. In the rows of one
request, two attempts are the first and the last. The action constraint `StopsBetweenRequests` lets the process end only
while a request is still to come, which then finds what the ended process left, and takes a process end or
a failed database call, not both. A rollout over three members with waves of two has a full wave, a partial one and
the empty one that completes it, and a member that joins in front or leaves shifts both windows; three
requests allow an abort or edit to meet two resumes. With four requests and neither faults nor changes of the cluster
the same invariants hold as well (1.3 million states, not a run of its own). For a log dump, two captures are a claim and its
take-over; a third would meet the row in the same states as the second; two chunks make a partial upload.
Where there is a theorem for all values of the constants (section 5), the bounds matter only for the other properties.

**Deadlock.** All runs but the batcher's turn TLC's deadlock check off: their systems come to rest
when no further request arrives (ids, calls, tasks, requests and captures are finite) and the faults are used up. The batcher's ticker
never rests and its runs check for deadlock.

**Fairness.** Weak fairness of a goroutine's own steps says that the Go scheduler runs it and that calls of
Postgres and Doris end (they have contexts with deadlines or fail). Weak fairness of `Age`, `Backoff` and of a
drainer's steps is the clock and the scheduler's ticker. `LoopStep` of the writer is its ticker and `stopCh`.
In the batcher, `Quit` is strongly fair, because the select of `Run` picks at random among the
arms that are ready, so an arm that is ready again and again is taken; `Exit` and `Restart` are weakly fair because
of `Restart=always`. In a rollout the jobs and the handlers that began go on and time passes for every wave; a delayed job
is one that is taken later. In a log dump retention ends, the hourly maintenance comes and goes on, and handlers that began end; no agent
is obliged to call again. The remediation run has no liveness: its progress is that of the manager's goroutines.
Nobody is obliged to publish, post, call `Enqueue` or `Close`, or to fail: faults are bounded by named constants, so liveness says what
happens once faults cease.

**The properties that need a premise.** `AcceptedIsFinal` and `LocalEffectsBounded` hold when no goroutine
outlives the 30-second cut-off and one sweep runs at a time. With slow handlers or two drainers they do
not: a drainer with an old copy puts an accepted row back to `pending_doris`, or repeats the side effects. That costs repeated
work and rollup counts, not rows: `AcceptedMeansLoaded` and `LoadedAtMostOnce` are checked and proved without the premise. The
theorems about the first two state it (`SoleDrainer`), and the constants of `journal_settles` meet it.
`SpooledIsDelivered` excepts records behind a refused one, which is finding 4.

The other exceptions are stated inside the properties, and each is a behaviour of the code that TLC shows when the exception is dropped:

- `SerialPerNode` (the lease table: "Serialises remediation jobs to one-in-flight per node", `0021_remediation_leases.up.sql:13`): a rollback
  takes no lease, and a request may outlive its lease, by time or because a failed script is tried again after its lease was released.
- `OnlyLateReleaseRobs`: such a late request releases the lease of the next one, because the release names only the node.
- `LeaseEndsWithJob`: a lease stays behind a release that failed (always, after the manager's context is cancelled), a dispatcher or a script that ended with its process,
  and a delayed script given up in its sleep, which never reaches its release. A lease also stays behind an acquisition whose commit succeeded
  and whose answer was lost. The lease's expiry ends it.
- `EndedIsRecorded`: a row stays as it was where its last write failed or its job was never called.
- `OneChain`: two resumes that overlap start two chains; so may an edit of a wave under a running job. `AbortStopsWave` and `QuietAbortHolds` speak of an abort that no job and no request crosses: a job
  past its first read overwrites an abort with "running".
- `NoMemberOvertaken`: a member behind one that left may be passed over.
- `RolloutSettles`: a lost gate check is not replaced (`faults > 0`), and an abort that is overwritten leaves the wave aborted and the rollout running for ever.
- `CapturedIsIntact`: a completion whose lease ran out may replace or remove the artifact of the capture that took over.
- `NothingLeftBehind`: an artifact renamed into place before a restart, or recorded after the maintenance copied the row, stays on disk.

So the exceptions bound what the properties say of some hazards. Not caught, because the code really does it, are: the mark of a drainer with an old copy
that puts an accepted row back (only `AcceptedMeansLoaded` and `LoadedAtMostOnce` say what it cannot do), a release that fails,
a job row that is never written, an abort under a running job, two resumes that cross, and a gate check that is lost with its process. For these the
properties say what holds around the case, and that nothing else leads to it; `PROJECT.json` notes it at each such hazard.

## 4. Findings

1. **Row limit on replay.** A prepared batch may have more rows than `maxEventIngestRows`; its replay cannot decode it and marks it `failed`, which no sweep selects (`NoBatchDropped`; `0053_event_ingest.up.sql:3`).
2. **Rows lost with a failed write.** If `MarkEventIngestLocalComplete` fails and the flush fails too, the replay loads only the events as posted and accepts the row (`ReplayFlushesExactRows`; `storage/event_ingest.go:171`).
3. **No back-pressure.** `Enqueue` hands a buffer of `MaxBatchRows` to a new goroutine before `MaxPendingRows` can be reached (`BacksOffWhenDorisIsSlow`; `doris/writer.go:273`).
4. **Refused batches are retried for good.** A 4xx is retried like a 5xx and blocks the spool behind it (`RejectedIsNotRetried`; `eventstream/batcher.go:32`).
5. **Delayed tasks are dropped.** A task whose `processAt` is further away than its attempts of ten minutes is given up in its sleep, without its job having been called (`FailedWasCalled`; `worker/manager.go:454`).

## 5. What is proved

For every value of the constants that satisfies the named assumptions of the modules
(`ProcsAssumption`, `TablesAssumption`, `RowsAssumption`, `WriterAssumption`, `WorkerAssumption`, `RemediationAssumption`, `ClusterRolloutAssumption`,
`LogDumpAssumption`, `BatcherAssumption`), and so for any number of goroutines, requests, events or nodes, any sizes and any bounds on faults:

| Theorem | States |
|---|---|
| `EventIngestJournalProofs!TypeCorrect` | `Spec => []TypeOK` |
| `EventIngestJournalProofs!AcceptedLoaded` | `Spec => []AcceptedMeansLoaded` |
| `EventIngestJournalProofs!LoadedOnce` | `Spec => []LoadedAtMostOnce` |
| `EventIngestJournalProofs!AckedKept` | `Spec => []AckedMeansKept` |
| `EventIngestJournalProofs!EffectsBounded` | `SoleDrainer => (Spec => []LocalEffectsBounded)` |
| `EventIngestJournalProofs!AcceptedStays` | `SoleDrainer => (Spec => AcceptedIsFinal)` |
| `DorisWriterProofs!TypeCorrect` | `Spec => []TypeOK` |
| `DorisWriterProofs!WakeupKept` | `Spec => []NoLostWakeup` |
| `DorisWriterProofs!CloseComplete` | `Spec => []CloseFlushesAll` |
| `DorisWriterProofs!OnePlace` | `Spec => []RowsInOnePlace` |
| `EventBatcherProofs!BatcherTyped` | `Spec => []TypeOK` |
| `EventBatcherProofs!SpooledStays` | `Spec => []SpooledIsKept` |
| `EventBatcherProofs!OneKey` | `Spec => []OneKeyPerEvent` |
| `EventBatcherProofs!ArrivesInOrder` | `Spec => []SpoolArrivesInOrder` |
| `EventBatcherProofs!EventsAccounted` | `Spec => []NoEventVanishes` |
| `EventBatcherProofs!BatcherImplements` | `Spec => DeliversInBatches`, which is `BatchDelivery`'s `Spec` under `Promise` |
| `ClusterRolloutProofs!TypeCorrect` | `Spec => []TypeOK` |
| `ClusterRolloutProofs!WavesAreOrdered` | `Spec => []WavesInOrder` |
| `ClusterRolloutProofs!QuietAbortIsFinal` | `Spec => QuietAbortHolds` |
| `ClusterRolloutProofs!OneChainDrives` | `Spec => []OneChain` |
| `ClusterRolloutProofs!AbortLeavesNoneRunning` | `Spec => []AbortStopsWave` |
| `ClusterRolloutProofs!NoneOvertaken` | `Spec => []NoMemberOvertaken` |
| `WorkerManagerProofs!OnePlace` | `Spec => []OnePlacePerTask` |
| `WorkerManagerProofs!SettledStop` | `Spec => []StopSettles` |
| `NodeRemediationProofs!RemediationImplements` | `RemediationSpec => Spec` (of `WorkerManager`) |
| `NodeRemediationProofs!OneTaskOnePlace` | `RemediationSpec => []OnePlacePerTask` |
| `NodeRemediationProofs!SettledRemediation` | `RemediationSpec => []StopSettles` |
| `NodeRemediationProofs!RemediationTyped` | `RemediationSpec => []RemediationTypeOK` |
| `NodeRemediationProofs!Serial` | `RemediationSpec => []SerialPerNode` |
| `NodeRemediationProofs!LateRobs` | `RemediationSpec => OnlyLateReleaseRobs` |
| `NodeRemediationProofs!LeaseEnds` | `RemediationSpec => []LeaseEndsWithJob` |
| `NodeRemediationProofs!EndsAreRecorded` | `RemediationSpec => []EndedIsRecorded` |
| `LogDumpProofs!DumpTyped` | `Spec => []TypeOK` |
| `LogDumpProofs!CapturedStaysIntact` | `Spec => []CapturedIsIntact` |
| `LogDumpProofs!JobAndArtifactAgree` | `Spec => []JobTellsOfArtifact` |
| `LogDumpProofs!NothingStays` | `Spec => []NothingLeftBehind` |
| `BatchDeliveryProofs!OnePlace` | `Spec => []OnePlacePerEvent` (of the abstract specification) |

**The journal.** `AcceptedMeansLoaded` is not inductive: `MarkAccepted` is an unconditional update made on
what a goroutine believes, possibly from a copy read long before. The invariant `IInv` therefore says what a goroutine
knows: all tables before the one it loads next hold the rows (`FlushProgress`); it flushes a raw payload
only if a write of the prepared one was lost (`FormInHand`, `PastLocal`); and a drainer's copy says nothing of a row that
could become untrue (`SnapsKnown`), because a prepared payload stays prepared, a lost write stays lost and a load is never undone
(`RowsOnlyGrow`). `LoadedAtMostOnce` follows from `LoadsMatchLabels`, the correspondence of Doris's finished
labels with the loads; `AckedMeansKept` from `AckedRecorded` and the fact that only accepted rows are pruned.
The proof has one lemma per action.

`LocalEffectsBounded` and `AcceptedIsFinal` rest on a second invariant, `SoleInv`, for the case that no goroutine outlives the cut-off and
one drainer runs. A row is then in one hand (`OneHand`), handlers hold rows before the cut-off and the drainer rows behind it
(`CutOff`), so a sweep's copy is still true when it is taken up (`FreshCopies`) and nobody works on a settled row (`Unsettled`). `Tally` is the
account: each run of the local side effects is paid for by a crash or by two failed writes, the first of which is noticed when
the flush begins and the second when it ends.

**The writer.** `CloseFlushesAll` needs that every row of a call that returned is somewhere (`Kept`, `Placed`), that the
WaitGroup counts the flush goroutines (`Counted`), and what is settled by the time `Close` and the loop
are at each step (`Ordered`): once the loop is in its last `flushAll`, the writer is closed and the buffers stay empty. The step that
carries it is that `Buffer` and `HandOff` look at `closed` under the lock. `RowsInOnePlace` adds what `Counted` and `Placed` do not
need: no two goroutines share a row, and what was tried against Doris is nowhere else (`Tried`).

**The batcher.** None of the batcher's properties is inductive alone. `BatcherInv` follows the numbers of events through the stages:
the channel is above the pending batch, that above every batch that was made (`Ordered`), no two batches share an event (`Keys`), and
the spool is ordered, above what was evicted, with only its head possibly arrived (`Queue`: a POST that was accepted and whose
`Delete` is still to come). `Steps` ties the hand to the position of the goroutine, so that a batch from the spool is its head even while other
steps of `drainSpool` happen; `Apart` says that what is lost is nowhere else. `Ordered` is what makes `OneKeyPerEvent` and
`SpoolArrivesInOrder` hold across kills: the new process makes its batches of higher events.

`BatcherImplements` is step by step. The steps are first sorted by what they do to the hand (`StepKinds`: a batch moves in memory, is
appended, posted, removed or evicted, or the process ends), then each kind is a step of `BatchDelivery` or a stutter under the mapping.
The part that needs the invariant is `Undelivered`, the records that have not arrived: because only the head of the spool can have arrived
without having left, a POST takes the head of `Undelivered` and a `Delete` leaves it alone (`UndeliveredMoves`).

**The rollout.** `WavesInOrder` speaks of wave rows only, but a wave is created from the number a job carries, which came from a gate that passed
or from the pointer a resume read. `Order` therefore says of every number anybody holds (rows, the pointer, jobs, requests) that the
gates before it have passed, and that a job between `GateChecks` and `GatePoints` has passed its own.
`InRange` keeps those numbers within `Waves`: a job with members has a wave before the last (`WindowInRange`, a counting argument on
windows). `Unseen` says that after a quiet abort nobody is left who has not yet read it, from which `QuietAbortHolds` follows for every step.

`OneChain` needs that a rollout which says halted has no chain and no request about to begin one, and that otherwise there is one of the two, never both
(`Alone`); `AbortStopsWave` that only the current wave runs, and only while a job looks after it or an abort is about to strike it (`OneRuns`).
`NoMemberOvertaken` is the counting argument that tests cannot make: of the members nobody before them has left (`Kept`), all
who stand before the window of a wave that may begin are done (`Behind`, `Windows`), and what a job has in hand covers the next window
(`Carried`). A member that joins can only push them back, and a window is empty only past the last member
(`EmptyWindow`, by the least member at or behind its place), which is when the rollout completes.

**The manager.** `OnePlacePerTask` counts; the invariant says the same without counting. A task is in one position of the queue or in one
hand (`Once`), what is somewhere is pending and what is pending is somewhere (`Known`), a goroutine holds a task exactly
while it is busy (`Hands`), the calls of a job stay within its attempts (`Attempts`), and the queue is closed by the time the
shut-down says so (`Ends`). `StopSettles` rests on `Counted`: the counter `Stop` waits for is the number of goroutines that have not left, which every
`Done` keeps (`CountOut`). So when it is zero every goroutine has left, and none holds a task (`Hands`):
a task that was accepted has its outcome, or lies in the channel, where none lies whose job was called (`ReturnedSettles`).
Counting of positions comes last, with the lemma that a set of equal elements has one at most.

**Remediation on the manager.** Each step of a dispatcher, a job or the process is shown to be a step of the manager or to leave
it alone, so `RemediationSpec => Spec`, and the manager's theorems hold for the composition. Only one step needs an invariant: a job that panics on
the closed queue ends the process, which is `Exit` because the queue is closed only after `Stop` has begun to wait (`Ends`), and
a goroutine that offers a child holds one (`ChildHeld`).

The leases and rows need `RInv`. `JobSteps` and `Dispatched` tie a job to its task and a dispatcher to its call; `Records` and `Leases` say what
was written and given back by the time a job is past that step, which gives `EndedIsRecorded` and `LeaseEndsWithJob`. `Robbed` is the part behind
`SerialPerNode` and `OnlyLateReleaseRobs`: a request that acquired the lease and has not come to its release (`Unreturned`) has it still, was too
late, or was robbed by one on its node that was. Two scripts of two such requests would both have the lease of one node.
`OneRollback` is for a script and a rollback of one request: the first call of a script enqueues at most one rollback, by itself or by the
verification it enqueued, and only when it is over. `RemediationAssumption` says of tasks what the code does when it creates a
job: the script, the verification and the rollbacks of a request are different jobs, with one rollback for each attempt.

**The log dump.** The properties say nothing of the captures and of the maintenance under way. `DumpInv` adds that, while no lease ran out
under a completion, the capture that completes is the latest one and its lease stands (`Claims`), that it listed its own chunks and the artifact is
its own (`Built`), that the maintenance removes files and rows only of a dump it made `deleting` (`Cleaning`), and that an artifact no row
names has a handler that still removes it, or is `stray` (`Leftovers`).

Every invariant above was first checked by TLC as an invariant of the component's run (`OneRuns`, `Windows`, `DumpInv` and `SoleInv` on larger
instances too).

**The delivery.** `OnePlacePerEvent` is inductive as it stands together with the types; its proof has one lemma per action.

**Only model-checked.** Liveness (`RecordedIsSettled`, `WaitersReturn`, `CloseReturns`, `SpooledIsDelivered`, `RolloutSettles`,
`JobSettles`, `EveryDumpIsDeleted`): the prover does not reason about fairness and `ENABLED`. Nor does it do induction over data or
`RECURSIVE` operators, so the modules have none, and what the proofs need of sequences and windows is in lemmas that go by positions
and by a least element. Every safety invariant and action property of a passing run is proved.

## 6. What is left out of the modules

- Journal: the writer and disabled modes of `flushDorisEventFanout` and small analytics; batches
  without a replay key and log-derived batches; a sweep's order, its limit of 100 and its two minutes (a sweep takes every due row, in any order);
  the snapshot of the insert-or-select statement, which is one step; the expiry of Doris labels after three days.
- Writer: metrics, the error callback, the payloads.
- Batcher: `FlushBytes`, delays between attempts, a spool that could not be created, torn records after a power loss,
  clock steps, `Stream.Close`.
- Worker manager: the asynq backend (queue, delays and retries are Redis's), the durable job references, a second `Start` or `Stop` of one manager (main calls
  each once), metrics.
- Remediation: the gates before dispatch (labels, change windows, circuit breaker, approval), which decide whether there is a request; action plans
  and receipts; the contents of scripts.
- Rollouts: several rollouts of one cluster at once, the scale, provision and teardown jobs (a member joins or leaves in one step), gate evaluators, adapters.
- Small steps taken together. Journal: the status 'archived', which nothing in the modelled code sets (retention would delete it too,
  `storage/event_ingest.go:361`); the days of retention are the 30 seconds after which a row is `aged`. Rollouts: the reads of the rollout and of its members in
  `AdvanceReads` (`cluster_rollouts_jobs.go:61`, `:82`); the loop over the members, which is all or nothing, with a member whose adapter failed counted as applied.
  Log dumps: renewing the lease, writing the chunk and its row (`log_dumps_agent.go:176`), so there is no chunk file without a row;
  the rename of an artifact and its removal when the digest does not agree (`log_dump_artifacts.go:89`, `:210`), with no error paths for disk
  or size and no `.tmp` file of a process that ended (`:61`); an agent's failure and the removal of its chunks (`log_dumps_agent.go:313`);
  `next_cleanup_at`; a second maintenance goroutine or replica.
- Log dumps: contents, a commit whose acknowledgement is lost, two snapshots with equal bytes (a stale completion would then pass the digest), the size of a clean-up page.
- Known to be exposed, and not modelled: an agent deletes a batch whose row a replay marked `failed`, because its stored receipt is a 200
  (`events_ingest.go:409`); small analytics appends without a label (`:767`); a sweep's two minutes and hundred rows (`event_ingest_replay_scheduler.go:89`);
  the writer's `healthy` flag is set by whichever flush ends last (`doris/writer.go:338`), its failed flushes drop their rows (`:417`), and nothing closes it
  at shut-down (`server.go:3364`); a record torn by a power loss (`durablespool/spool.go:132`) or ordered by a clock that stepped back (`:108`); a collector started again while its
  predecessor still runs (`collector_runtime.go:95`); a block whose cooldown was used up before the firewall failed (`autoblock/autoblock.go:161`).
- Components marked "P" and "–" above.

## 7. Plan

1. Done: `EventIngestJournal`, `DorisWriter`, `EventBatcher`, `BatchDelivery`, `WorkerManager`, `NodeRemediation`, `ClusterRollout`, `LogDump`, and the
   proofs of section 5, which cover every safety property the runs check.
2. Proofs: an abstract specification of the journal (a batch is recorded, loaded and settled) that `EventIngestJournal` implements, and one of the dump as its
   reader sees it.
3. `EventPipeline`: `EventBatcher` and `EventIngestJournal` composed, with the receipts of log telemetry and the Doris writer's place in the shut-down.
4. `EventBus` (subscriptions against publish and cancel) and the correlation engine; the asynq backend of `WorkerManager`.
5. Agent: automatic blocking, collector generations, self-update, web server control.
6. `ClusterRollout` with two rollouts of one cluster and the scale jobs as processes.
