# Formal models of the space message compression platform

TLA+ modules, TLC configurations and TLAPS proofs about the core of this
repository: how an accepted job gets from its database row to a worker, what
the worker computes with the codecs it has, how the job goes through its states
to the customer's webhook, and how originals are deleted, when processes crash,
calls fail half-way, leases run out and several copies of every process run at
once. Paths below are relative to the repository root.

## 1. The system

| Part | Code | State it keeps | Operations | Hard behaviour |
| --- | --- | --- | --- | --- |
| API: job control | `apps/api/src/database.ts` (`createCompressionJob`, `cancelCompressionJob`, `createDecompressionJob`, `createCapsuleJob`), `app.ts` | job rows, outbox rows, quota counters in PostgreSQL | create with outbox event, cancel, request decompression, replay by idempotency key | races with workers, concurrent replays, quota under an advisory lock |
| Job outbox publisher | `apps/api/src/job-outbox-publisher.ts`, `queue.ts`, `database.ts` 1715-1866 | claim, lease, attempt and `published_at` of outbox rows | claim, publish, complete, fail, reconcile | one in each API process; unknown outcomes of calls; lease overruns; loss of Valkey |
| Job stream | `queue.ts`, `worker.py` Lua scripts | Valkey stream, consumer group with pending list, delivery markers | XADD+SADD, XREADGROUP, XAUTOCLAIM, XACK+XDEL+SREM, EXISTS | at-least-once delivery, redelivery after idle time, data loss |
| Compression worker | `services/compression-worker/src/smcp_worker/worker.py` 181-617, 1330-1503, 1679-1771 | job, candidate and artifact rows; candidate objects in S3 | read, recover, seven compare-and-set transitions, store, persist, complete, fail, acknowledge | handlers on stale rows, crashes between commits, overlapping handlers |
| Capsule and decompression workers | `worker.py` 618-1150, 1505-1569 | capsule and decompression rows, output objects | claim, build or decode, verify, complete, recover | the same, with unguarded recovery |
| Original retention | `worker.py` 1581-1677 | `delete_after`, `deleted_at`, deletion claim | claim due originals, delete, record, back off | lease against a slow sweep; a second job on the same original |
| Webhook dispatcher | `apps/api/src/webhook-dispatcher.ts`, `database.ts` 1610-1966 | delivery rows with claim, attempt, status | materialize, claim, POST, complete, fail | two statements with two snapshots; lost replies; slow endpoints |
| External idempotency and API keys | `app.ts` 560-800, `database.ts` 832-1180, `key-rotation-scheduler.ts` | idempotency records, rotation rows, keys at Clerk | claim an operation, create at Clerk, complete; scheduled revocation | crash between Clerk and PostgreSQL, take-over after five minutes |
| Quotas | `database.ts` 730-830, 1233-1300 | usage counters | check and increment | concurrent requests |
| Rate limiter | `apps/api/src/rate-limiter.ts` | two counters per window in Valkey | charge | refused requests are charged too |
| Capsule planner, format, CLI | `crates/` | none (pure functions, files) | plan, build, parse, verify | optimality and pruning, bounds, overflow |
| Codecs and models | `smcp_worker/adapters/`, `capabilities.py`, `content_validation.py`, `quality_policy.py`, `model_manifest.py`, the `*_runtime.py` scripts; `worker.py` 364-530, 953-1066 | catalog and installed tools of a worker image, model files on a shared volume | validate, generate, measure, prune, select; decode; fetch model files | a fetch beside running workers; narrow codec contracts; choices made before the policy is known; historical models |
| HTTP plumbing, web, CLI, SDKs, telemetry, deployment | see section 6 | none shared | | not modelled |

How they interact: the API commits a job and an outbox row in one transaction.
A publisher in some API process claims the row and adds an entry to the stream
together with a delivery marker. A worker gets the entry from its consumer
group, walks the job through its states with one transaction per step, and
acknowledges, which removes entry and marker. Completion inserts a
`*.completed` outbox row, which a webhook dispatcher turns into one delivery
for each subscribed endpoint. PostgreSQL is authoritative; Valkey may lose
everything, and reconciliation compares the two. The object store is shared
by the handlers and the retention sweep, the model volume by all workers of a
host and the operator who fetches models into it.

What makes each part correct:

* compression: one handler per job at a time where the deployment rules ensure
  it; a completed job has its payload stored and one completion event; the
  attempt limit holds over crashes; worker verdicts are final; nothing is
  acknowledged before its job is terminal; every delivery is eventually
  settled; to the client all this looks like one job with one verdict;
* capsules and decompression: the output of a completed job was verified,
  whichever of several runs stored it; no capsule is announced twice; every
  delivery is settled, whatever overlaps;
* retention: what is recorded as deleted is gone and recorded once; a claim is
  ended by its holder; every scheduled original is deleted;
* codecs: of candidates measured alike, the best that pass is selected although
  candidates are pruned first; an input outside a codec's contract costs that codec's
  candidates and not the job; a model runtime gets the pinned files only, and a
  bitstream only the decoder it was made for;
* publisher: no unsettled job is without an event or an entry; claims keep
  publishers apart; duplicates cost an attempt; lost deliveries are replaced;
* webhooks: outcomes are earned and final, the retry budget holds, no event is
  skipped, every delivery ends.

`PROJECT.json` lists each hazard at its line with the properties that cover it.

## 2. Modules

| Module | Contents |
| --- | --- |
| `JobStream` | the Valkey stream, its group and markers; one operator per server command |
| `CompressionWorker` | EXTENDS `JobStream`; workers, the compression handler, concurrent API requests |
| `JobContract` | what a client is promised of a job; `CompressionWorker` implements it |
| `DeliveryHandling` | EXTENDS `JobStream`; what the stream may expect of a worker; `CompressionWorker` and `SimpleJob` implement it, `JobOutbox` uses it |
| `SimpleJob` | EXTENDS `JobStream`; the capsule and the decompression handler |
| `OriginalLifecycle` | what a job may expect of its original; `SourceRetention` implements it, `CompressionWorker` uses it |
| `SourceRetention` | the sweep that deletes originals |
| `JobOutbox` | EXTENDS `JobStream`; outbox rows, publishers, reconciliation, loss of Valkey |
| `WebhookDelivery` | events, endpoints, deliveries, dispatchers |
| `CodecRuntimes` | adapters, model catalog, model volume, the fetch of model files |
| `CandidateSelection` | EXTENDS `CodecRuntimes`; what one run of a compression job computes |
| `ArtifactDecoding` | EXTENDS `CodecRuntimes`; what a decompression job does with a stored artifact |
| `CodecWorker` | the two together, beside a fetch |
| `MC...` | instances of these for TLC |
| `...Proofs` | theorems about these, section 5 |

Two pairs of components meet in an abstract specification, so that what one is
shown to do is what the other was checked against. The publisher's model has
no handlers: its workers are the actions of `DeliveryHandling`, taken with
INSTANCE, and the two modules that do have handlers are shown to implement that
specification. In the same way a job's handler sees its original deleted by
`OriginalLifecycle!Delete`, and the sweep is shown to implement
`OriginalLifecycle`.

Definitions that a comment calls a faulty variant are used by no specification:
each stands for a plausible bug in the definition after it, and `PROJECT.json`
names the property that TLC finds violated when it takes that one's place.

### CompressionWorker

A step is one committed transaction, one object-store call or one stream
command. A handler's locals are variables of the worker (`seen` is the row that
`process_job` read, `run` names the candidates it makes), so a decision on a
row that has changed since is a decision on stale data here too.

| Action | Code |
| --- | --- |
| `ReadNew`, `Reclaim`, `NextOfBatch` | `_run_cycle`, `_claim_stale_messages`: XAUTOCLAIM first, then XREADGROUP; entries of a batch one after the other |
| `ReadJob` | the SELECT and the first tests of `process_job` |
| `RecoverSweep`, `RecoverReset` | `_recover_compression_job`: objects are deleted first, then one transaction on the row as it is by then |
| `Claim`, `Advance` | `_transition`: compare-and-set, which raises when it fails |
| `Validate`, `PutObjects`, `PersistRows`, `MarkCompressed`, `Complete` | the other steps of `process_job` |
| `TerminalFailure`, `Raise`, `FailJob` | deterministic refusals, exceptions, `_fail_job` |
| `Acknowledge`, `AcknowledgeError` | the script; a Redis error leaves the cycle and drops the batch |
| `Crash` | kill, MemoryError, database error outside the handler |
| `Cancel`, `RequestDecompression`, `DeleteOriginal` | API requests and the sweep, at any moment |

`Reclaimable` is where time enters: an entry whose handling began when it was
handed over is not idle long enough to be reclaimed (what `configuration.md`
asks the operator to ensure); an entry that waits in a batch has no such
promise. Codec work is abstracted to success, refusal and exception; all
candidates of one run are one element of `rows` and `objects`.

`JobContract` is the job as its client sees it: submitted, started a bounded
number of times, one verdict, one announcement, and an original that is kept
until then. `Contract` in `CompressionWorker` instantiates it with a refinement
mapping (the status collapsed to a verdict, `runs` as starts), and
`ContractKept` is its whole specification, liveness included. It admits what the
code does with cancellations: a cancelled job may still fail with the run that was
under way, or be reopened by a retry that had read it before (section 4).

`DeliveryHandling` is the job as the stream sees it: open, active or settled,
with its deliveries in somebody's hand or not (`InHand`). `DeliveryRulesKept`
says that no step of the worker does more to stream and row than that
specification allows; in particular an entry is given up only when its job is
settled or has another entry left. It needs less than the contract does: not
that handlers of a job are kept apart, only that no delivery is with two workers
(`DeliveriesApart`, waiting entries of a batch included).

### SimpleJob

Both handlers have one shape, so one module has both, with `kind` saying which
table the row is in. They differ in the step into `VERIFYING`
(`CapsuleEntersVerifying` compares the state and raises,
`DecompressionEntersVerifying` has a WHERE clause whose result nobody looks
at) and in what the completing transaction inserts (`capsule_entries`, whose
primary key makes a second completion of a capsule fail). BUILDING and
DECODING are one status, "WORKING". `Recover` resets a row and `TerminalFailure` ends it
without looking at its present status, as in the code, and nothing keeps two handlers
of one job apart: the module lets deliveries overlap and records it in
`overlapped`. A capsule or decompression entry is claimed in one batch with
compression entries and may wait behind one for hours; meanwhile another worker
can claim it. `ReadNew` and `Reclaim` therefore take an entry either `fresh`
(its handling begins with the hand-over, so that the idle threshold protects it)
or not, and `shared` records that one delivery was in two hands. The waiting itself
is not modelled, and need not be: a waiting entry is pending, and taking it up later
is what `Reclaim` of a pending entry does. All runs store their output under one key. The files that
`_write_capsule_sections` prepares for the capsule tool are abstracted to an
output that is sound or corrupt; `Verify` tells the two apart.

### SourceRetention

`ClaimBatch` is the SELECT ... FOR UPDATE SKIP LOCKED with its UPDATE,
`NextRow`, `DeleteObject`, `Record` and `Retry` are one turn of the loop over
the claimed rows. A claim token is represented by the worker that drew it,
which draws a new one only when its batch is gone. `ClaimLapses` is the end of
the five minutes and may come while the claimant is still at work. The length of
the backoff is abstracted to "later". `SweepError` is an exception of the object store
or of the recording transaction, where the call may have been executed; `Crash` is one of the
retry update, or the end of the process.

To jobs only `Originals` is visible: kept, waiting, due or deleted, by the object
itself, `delete_after` and whether that was ever reached (`WasDue`: a backoff
moves it into the future again, but it counts an attempt). `LifecycleKept` is the
specification of `OriginalLifecycle` under this mapping.

### JobOutbox

A poll of a publisher is `FindCandidates`, `CheckMarker`/`Enqueue` for each
candidate, `EndReconcile`, then `ClaimEvents` and for each claimed event
`Publish` and `Complete` or `Fail`. `Publish` and `Complete` include the case
of a call that was executed and reported as failed. `AbortPoll` is an exception
out of the poll or a restart. Leases (`LeaseLapses`) and the stale limit
(`TurnStale`) run out in steps of their own, at any moment; a lease that lapses
on a publisher still at work counts as a fault. A claim token is represented by
its publisher: a publisher drops its batch before it draws a new token. The
exponential backoff of `Fail` only delays and is left out. `FAILED_RETRYABLE`
and `PENDING` are one state, "open": the publisher and the reconciliation treat
them alike; the intermediate states are "active". All events carry the marker
version; rows from before that version are not reconciled in the code either.
The workers behind the stream are `DeliveryHandling`'s actions.

`LoseValkey` empties streams, markers and groups. Only `RestartWorker` brings
the group back, as only `run_forever`'s first line does in the code.

### WebhookDelivery

`InsertDeliveries` and `PublishEvents` are the two statements of
`materializeWebhookDeliveries`; under READ COMMITTED each sees what is
committed when it starts. A row another open transaction has inserted makes the
first statement wait, which is the guard on `inserted`. `Post` has three
outcomes: never sent, sent and not accepted (or no answer in time), accepted.
`due` and `raced` are history variables: the deliveries an event owes to the
endpoints enabled when it was committed, and the events committed between
somebody's two statements.

### CodecRuntimes, CandidateSelection, ArtifactDecoding, CodecWorker

The adapters are records: which content type and profiles they serve, which
levels they try, how their capability is decided, and whether their generator
asks `supports_prepared` before it encodes. `Enabled` is the capability test:
a library, an executable, or a manifest whose files are all on the volume with
the pinned digest. `Fetch` is `fetch_weights`: download every file to a private
name, then move one after the other into place, with an end at any point.

`CandidateSelection` goes through the stages of a run: profile, validation,
media limits, generation and measurement adapter by adapter, Pareto pruning per codec,
project policy, selection. A candidate is a payload size and a report, which has
one of a few values (`Marks`) for each metric that is compared later; what an
encoder makes of an input is any such candidate. VMAF is there or not in each
report anew, as in `_video_metrics`. Where it is not (`FallsBack`), SSIM takes its
place in the vector by which candidates are pruned (`Quality`), on the same scale, and
the threshold for SSIM takes the place of that for VMAF (`Skipped`). A policy's
settings are marks too, and one that weakens the platform's floor counts for
nothing (`Thresholds`). Durations of inputs are whole
seconds, frame rates whole numbers. `PreparedSeconds` is the duration after
ULTRA has cut silence; no preparation changes dimensions. Two of LivePortrait's
four artifacts are left out. The order of an adapter's levels
stands for the order of the textual form by which the code breaks ties between
equal candidates.

`ArtifactDecoding` resolves the manifest of a stored artifact, checks the
decoder runtime, then the files, runs the decoder and compares the digest.
Decoders and encoders themselves are black boxes: the runtime scripts pack
the tensors of third-party networks into containers of their own, one
sequential process per call.

## 3. Runs

| Run | Instance | Shows |
| --- | --- | --- |
| `worker_exclusive` | 1 job, 1 delivery, 2 workers, 3 attempts, 3 faults, claim batch 1, fairness | the safety properties of the handler, `StrandedJobOnlyFails`, `DeliverySettles` and the refinements `ContractKept` and `DeliveryRulesKept` where handlers are kept apart |
| `worker_overlap` | 1 job, 2 deliveries, 2 workers, 2 attempts, 1 fault, batch 2 | `AttemptsBounded` and `StandingVerdictIsFinal` need no exclusion |
| `worker_batch_claim` | 2 jobs, batch 2 | violation: a claimed entry waits in its batch, is reclaimed, and two workers handle one job |
| `worker_cancellation` | 1 job, no faults | violation: a cancellation is overwritten by the handler |
| `simple_jobs` | 1 job of either kind, 2 deliveries, 2 workers, 2 attempts, 1 fault, fairness | outputs, announcements, attempts, finality, `DeliveryRulesKept` and liveness of capsule and decompression jobs with overlapping handlers and shared deliveries |
| `source_retention` | 2 originals, 2 workers, batch 2, 4 faults, fairness | records match the store, claims and attempts, the refinement `LifecycleKept`, every scheduled original is deleted |
| `outbox_delivery` | 1 job, 2 publishers, 1 fault, 1 loss of Valkey, fairness | the publisher's safety and liveness |
| `outbox_loss` | the same, no faults, 1 loss | violation: without a worker restart the group is never re-created and the job waits for ever |
| `webhook_delivery` | 1 event, 1 endpoint, 2 dispatchers, 3 attempts, 3 faults, fairness | the dispatcher's safety and `DeliveriesSettle` |
| `webhook_race` | 1 event, 1 endpoint | violation: an event committed between the two statements is never delivered |
| `codec_worker` | all content types and profiles, 25 uploads, 9 sets of tools, 3 conditions of the model volume, fetches of two models, 2 levels, 2 sizes | `SelectionIsBest`, `OnlyCoolChicImagesFailTheJob`, `OnlyPinnedFilesLoaded` |
| `decoder_runtime` | the same without fetches | violation: a historical Cool-Chic bitstream is decoded with a newer decoder |

A run checks each module's properties where they can go wrong and not what
another property of the run implies: the bound on starts and the keeping of
originals are part of `ContractKept`, and the types of `JobOutbox` and
`WebhookDelivery` are theorems. Refinements from which a theorem's premise is
missing are checked in an instance that meets the premise, or state it as a
condition on the step (`~shared'` in `SimpleJob`).

Bounds. Two processes of each kind are enough for every pairwise race, and
rows of different jobs share nothing but the source, the batch and the poll;
`source_retention` has two rows because a failing row must not hold up the
others of its batch. `MaxFaults` bounds crashes, failed calls and overrun
leases, `MaxLosses` losses of Valkey; the attempt limits are the code's own. In
`worker_exclusive` and `webhook_delivery` there are as many faults as attempts,
so that the limit can be reached by crashes alone. `Events` and `Messages` of
`JobOutbox` stand for fresh rows and entry ids and must not run out: five
events and seven entries cover what one fault and one loss can cause, so
neither `Enqueue` nor `Publish` is ever held up by them. Two payload sizes and
two targets (one of them none) are what a comparison needs; the marks of a metric
lie below the platform's floor, between it and a stricter threshold, and
above; two levels per adapter are enough for one
candidate to dominate another, and the proof covers any number. The uploads lie on both
sides of every limit and every codec contract. Several events in one webhook
batch are too much for TLC together with liveness; safety is proved for any
number. Runs allow deadlock where the modelled system may come to rest: when all
work is settled and the clients are silent.

Fairness. Workers loop for ever (`run_forever`) and API processes poll on
`setInterval`, which gives weak fairness to each process's next step. A
publisher reconciles whenever its interval is over, however often it has polled
in between: strong fairness on `FindCandidates`. Leases whose holder is gone and
stale limits run out, and due dates come: weak fairness. Nothing is assumed of
clients, faults, restarts, endpoints or of the outcome of a handler's step. Two
weak spots are part of the properties: `SettledUnlessValkeyLost` and
`LostDeliveryIsReplaced` say what holds without, and after, a loss. Nothing is
assumed of codecs either; `CodecWorker` is checked for safety only, because how
long a codec runs and whether a model is ever fetched nobody promises.

## 4. What the violations say

1. `worker_batch_claim`: the documented rule for `WORKER_CLAIM_IDLE_MS` covers
   one execution; `WORKER_CLAIM_BATCH` executions are what it takes.
2. `worker_cancellation`: `_terminal_failure` and `_recover_compression_job`
   do not compare the expected state, so a cancellation that comes in the middle
   of a run is overwritten. The same missing comparison lets a second delivery of one
   job, which the outbox may send without any fault of a worker, reset and
   complete again a job that the first has completed meanwhile. The damage is
   limited to handlers that read the row before the verdict: once none is left,
   a verdict or cancellation is final (`StandingVerdictIsFinal`, proved without
   any premise).
3. `outbox_loss`: consumer groups are created only when a worker starts.
4. `webhook_race`: `materializeWebhookDeliveries` publishes events that its
   INSERT has not seen.
5. `decoder_runtime`: `process_decompression` builds the adapter with the manifest
   of the stored artifact, so that `require_decoder_runtime` compares that manifest
   with itself and accepts any runtime the worker happens to have.

Observations made on the way, which no run is about. Pruning ranks VMAF and SSIM on
one scale (`adapters/video.py` 1000-1003), while the policy holds them against
thresholds of their own (`quality_policy.py` 85-92), and which of the two a
candidate has is decided for each one (`adapters/video.py` 950-953). A candidate
without VMAF can therefore prune one with VMAF that alone would have passed the
policy, or the other way round: AV1 at SSIM 0.85 without VMAF against AV1 at VMAF 70 with
the same SSIM, under `ssim_fallback_min` 0.95, ends as NO_QUALITY_GATED_CANDIDATE.
`system.md` 9 promises the smallest passing candidate of what pruning has left, and
no more. `SelectionIsBest` exempts exactly the candidates lost in this way
(`Outranked`). A recovery that is refused, because a decompression job references an
artifact of the run it wants to forget (`worker.py` 1455 onwards), has deleted
the stored objects by then, and every later attempt is refused too: the retries
that `data-model.md` 9 describes are not possible for such a job, and
`StrandedJobOnlyFails` says that it then comes to no other harm. `image.cod-lite` is missing
from `_candidate_content_type` and `_decoded_content_type` (`worker.py`
1294-1327); CoD-Lite declares itself non-deterministic while a decompression
compares exact digests; Cool-Chic for images is the only codec with a narrow contract whose generator
does not ask for it (`adapters/image.py` 645), which is why the property about
contracts names it. A delivery that two workers have (`shared`) can be
acknowledged by the one while the other has just reopened the row: the job is
then without an entry, and only the reconciliation of the outbox brings it
back, if it rests in PENDING or FAILED_RETRYABLE.

## 5. Proofs

`tlapm` checks the theorems for all values of the constants that satisfy the
named assumption of each module (`JobOfAssumption`, `WorkerAssumption`,
`SimpleJobAssumption`, `RetentionAssumption`, `OutboxAssumption`,
`WebhookAssumption`, `SelectionAssumption`): any sets of jobs, workers, deliveries,
events, endpoints and uploads, any limits and any bound on faults. TLC checked each
invariant first. `PROJECT.json` lists the theorems with the properties they
establish. All safety properties of the passing runs are proved. What stays with
TLC: liveness under fairness and ENABLED (`DeliverySettles` of both worker
modules, the liveness half of `ContractKept`, `ScheduledOriginalIsDeleted`,
`SettledUnlessValkeyLost`, `LostDeliveryIsReplaced`, `DeliveriesSettle`), which
the prover's temporal backend does not reach.

* `CompressionWorkerProofs`: `TypeCorrect`, `AttemptsNeverExceeded`,
  `StandingVerdictsAreFinal`. No exclusion of handlers
  is needed. `AttemptsBounded` is not inductive: a recovery writes the attempt it
  computed from the row it read. `AttemptInv` adds that a worker that is handling
  a job read an attempt below the limit. `ReferenceInv`, that what an API request can pin
  or has pinned are rows, is kept for the next module. Finality
  of a standing verdict needs no invariant beyond the types: every handler
  begins with a read, and a read of a terminal row ends it.
* `CompressionWorkerExclusiveProofs`: the safety properties of
  `worker_exclusive`, and two more, under a premise about the behaviour and not
  about the deployment: `[]ExclusiveHandling`, no two workers on one job at a
  time. They hold for any number of deliveries of a job and any claim batch, so
  for every operation that keeps to the premise, however it does so. With
  exclusion, a handler's steps change only a row that nobody else handles, apart
  from cancellations. `ExclusiveInv` then says what a row promises at any moment
  (`JobConsistent`: a PENDING job has no rows, all started runs but one are
  charged to the attempt), what a handler may rely on at each operation
  (`HandlerConsistent`: before `persist` there are no rows, after it they are
  its own and stored; a recovery charges the run it found; an acknowledgement
  follows a terminal state), and that the delivery being handled is still in the
  stream. Each is needed by a later step of the handler: the stored payload of a
  completed job comes from what holds at `complete`, which comes from `put` and
  `persist`, which need the empty rows that recovery left.
  `StrandedJobsOnlyFail` follows from it and `ReferenceInv`: a payload that is
  referenced and not stored belongs to no run under way.
  `OneHandlerDeployment` (one delivery per job, claim batch of one) is a
  deployment that meets the premise: `HandlingIsExclusive`, by an invariant of
  its own (`Deliveries`: a delivery in hand was handed over fresh, is pending
  and in no other hand). `OneHandlerSuffices` restates the results for it.
  `worker_batch_claim` shows that without such a rule the premise fails.
* `CompressionWorkerContractProofs`: the two refinements.
  `WorkerKeepsContract`: under `[]ExclusiveHandling`, every behaviour of the
  worker is one of `Contract!SafeSpec`; `OneHandlerKeepsContract` has the
  deployment as its premise. Each action maps to one step of the contract or to a
  stutter. Beyond `ExclusiveInv` the mapping needs `StartedInv` (an operation
  inside a run has a started run behind it) and `SentInv` (what is in hand was
  sent). The liveness half of the contract, `Settles`, is left to TLC.
  `WorkerKeepsDeliveryRules`: under `[]DeliveriesApart`, with any overlap of
  handlers of one job, every step is one of `DeliveryHandling`. `HandsInv` says
  that what a worker has is pending; `CoveredInv` that a worker about to
  acknowledge leaves a settled job or another entry, because whoever reopens a
  row still has the entry it works for. `NoJobIsDropped` follows.
  `SingleClaimsSuffice`: a claim batch of one keeps deliveries apart, for any
  number of deliveries per job.
* `SimpleJobProofs`: `AttemptInv`, `OutputInv` and `ListedInv` hold however
  handlers overlap: a recovery works from an attempt below the limit, only what
  was verified is put under the output key, and a capsule without entries has
  not been announced. As long as nothing has overlapped, a handler is alone with
  its job (`Alone`), its row is as it left it (`RowAgrees`), and claims are
  charged to the attempt (`Ledger`); finality and the exact count of
  announcements follow. `VerdictIsFinal` has a second half that holds with
  overlap, for verdicts no handler read the row before. `StreamInv` is about
  deliveries: while none is shared, one in hand is pending and in no other hand,
  and a job that is not finished has one which stays in the stream whatever the
  next step is. `DeliveryRulesAreKept` builds on it: both handlers implement
  `DeliveryHandling` up to the first shared delivery.
* `SourceRetentionProofs`: `RecordMatchesStore` needs that a worker about to
  record has deleted the object (`DeletedBeforeRecord`); `AttemptsCountUp` that
  the attempt a claimant read is still the row's while the claim is its own
  (`ClaimedAttemptIsRead`), even after the lease has run out. `SweepKeepsLifecycle`
  is the refinement of `OriginalLifecycle`. It needs that a deleted original, and
  each one some sweep still has in hand, was once due (`WasDueInv`), also when
  the claim has lapsed and another sweep has put the row off meanwhile.
* `JobOutboxProofs`: `RowInv` (what an event and the publisher that has it in
  hand agree on), `SentInv` (the sends of an event and the publishers that still
  have it before them are no more than its claims), `CoverInv` (markers and entries agree;
  the jobs a reconciliation looks at, or that a publisher is about to mark, are
  settled or in the stream), and, while there were neither faults nor losses,
  `FaultlessInv` (claims stay with who works on them, nothing is sent twice).
* `WebhookDeliveryProofs`: `RowInv`, `OutcomeInv` and `SkippedInv` for the
  outcomes; `PostsInv` and `DueInv` for the budget, which bounds attempts by
  the limit plus the faults spent, because a claim alone has no limit;
  `FaultlessInv` for the single acceptance.
* `CodecWorkerProofs`: `FrontierCovers` says that a candidate of a finite set is
  on its codec's frontier or dominated by one that is; the witness is the
  dominating candidate with the fewest dominators. A dominating candidate that
  was measured in the same way, with VMAF or without, passes every policy and target that
  the dominated one passes (`DominatorPasses`); so pruning costs only what a candidate
  measured the other way outranks, which is `SelectionIsBestHolds`, by an
  invariant that follows the candidates from measurement through each stage
  (`SelectionInv`).
  `ContractInv` and `PinnedInv` give the other two.

## 6. Not modelled

* Quotas: check and increment happen under one advisory lock per project, so a
  model has a single atomic action; two first requests with one idempotency key
  meet in a unique index.
* Capsule planner and capsule format (`crates/`): sequential pure functions and
  byte layouts without state or interaction.
* API keys and external idempotency: the outcome depends on what Clerk
  guarantees for repeated and lost calls, which the repository does not state.
* Rate limiter: one script updates two counters; no interleaving remains.
* Registry synchronisation: idempotent upserts when a worker starts.
* The runtime scripts of the neural codecs: container formats and tensors;
  what the worker does before and after it starts them is modelled.
* Presigned uploads, HTTP, authentication, encryption, address checks,
  telemetry, health, web console, CLI, SDKs, migrations, deployment: no state of
  their own that others share, or none whose changes interleave.
* Intermediate states after a loss of Valkey are not reconciled, deliberately
  (`docs/operations/configuration.md` 51), and objects stored by a run that
  died before its rows were committed stay where they are; the code promises
  nothing about either, so no property does.
