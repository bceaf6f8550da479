# karet-worker: TLA+ models, checks and proofs

karet-worker consumes pipeline jobs from a Redis stream, runs them (CSV/JSON
from the lake bucket through Polars into Parquet) and publishes versioned
tables in the warehouse bucket; an upload webhook enqueues jobs by itself. This
directory models all of these: the job queue, the webhook and its debouncer, the
life of a worker process, the data path of a job and the publishing of tables.

All paths below are relative to the repository root, which is `src/` here
(`src/queue.rs` of the repository is `src/src/queue.rs`).

## Inventory

| component | state | operations | interacts with | hard behaviour | what makes it correct |
|---|---|---|---|---|---|
| job queue (`src/queue.rs`, `src/db.rs`) | Redis stream + consumer group (PEL), delayed ZSET, live hashes (status, attempts), per-pipeline lock, Postgres job rows | `enqueue`, `consumer_loop`, `handle_claimed`, `finish_job`, `defer`, heartbeat, `delayed_mover_loop`, `reclaimer_loop`, `sweep_orphaned_live_hashes` | every worker shares Redis and Postgres; calls `execute_job` | at-least-once delivery, crashes between commands, lost replies, TTLs overtaking live workers, MAXLEN trimming | runs serialized per pipeline, no delivery lost, executions bounded, one result per job, history agrees with the live hash, everything ends |
| webhook debounce (`src/queue.rs`) | debounce ZSET, batch-start keys | `debounce_event`, `debounce_scheduler_loop` | called by the webhook, enqueues jobs | two commands per event, pop before enqueue, lost replies | every recorded event keeps a window or a job, windows end in time |
| webhook routing, HTTP API (`src/http.rs`) | a routing table per worker | `post_s3_events`, `route_key`, `build_routing`, `post_config_validate` | calls the debouncer, reads published configs | rebuilds outside the lock, failed reads, a validation before a publication | an upload reaches exactly the pipelines whose prefix it matches |
| worker life cycle (`src/lib.rs`, `src/main.rs`, loops of `src/queue.rs`, `health`) | shutdown flag, loops, `in_flight`, `consumer_ok` | `run`, `shutdown_signal`, `health` | starts every loop | loops look at the flag in different places | a stop ends and abandons nothing, an outage is reported |
| config validation (`src/config.rs`, `src/ast.rs`) | none | `validate` | before every run | references inside expressions, overlapping prefixes | an accepted config can be executed |
| dimensions (`src/dimension.rs`) | compiled matchers | exact and substring lookup, CSV reader | evaluator | priorities, folding, quoting | the matched row is the best one |
| ingest, dedup, partitions (`src/pipeline.rs`, `src/json_source.rs`), assertions (`src/assertions.rs`), expressions (`src/evaluator.rs`) | data frames | per mapping | `execute_job` | nulls, path segments, records of mixed shapes, files that fail | every row that was read and is no duplicate is in one partition, and meets the assertions |
| job execution and publishing (`src/job.rs`, `src/manifest.rs`) | pointer, manifests and Parquet objects of a table; a run's file list | list, download, load dimensions, map; read pointer and manifest, upload partitions, publish, vacuum | called by the queue, reads config from Postgres | a run stops between any two S3 commands, a mapping fails half-way, a run that lost its lock goes on | published versions stay readable and frozen, mappings are replaced wholesale, orphans are collected (for runs that do not overlap) |
| S3 access, errors, test generators (`src/s3.rs`, `src/error.rs`, `src/testgen.rs`) | none | wrappers | | | |

An upload travels `post_s3_events` -> `debounce_event` -> debounce ZSET ->
`debounce_scheduler_loop` -> `enqueue` -> stream -> `handle_claimed` ->
`execute_job` -> manifest and pointer. `Webhook` composes the first two with
the scheduler; `JobQueue` starts at `enqueue`, `Execute` and `Warehouse` at
`execute_job`.

## Modules

| module | role |
|---|---|
| `JobQueue` | the queue: every Redis/Postgres command of `handle_claimed` and `finish_job` is a step, the loops are actions |
| `JobLifecycle` | what the queue promises of a job, without streams, locks or handlers |
| `JobQueueRefinement` | the mapping under which `JobQueue` implements `JobLifecycle` |
| `JobQueueProofs` | TLAPS: types, serialization, no job is dropped, executions are bounded |
| `JobQueueRefinementProofs` | TLAPS: one token per job, rows agree with live hashes, `JobQueue` implements `JobLifecycle` |
| `Debounce` | upload events and the scheduler, with a clock |
| `DebounceProofs` | TLAPS: types, events are kept, the wait is bounded |
| `Webhook` | routing tables and requests, composed with `Debounce` (EXTENDS) |
| `WebhookProofs` | TLAPS: types, settled configs are routed exactly, `Debounce`'s invariants in the composition |
| `Worker` | `run()`, its loops, shutdown and health |
| `WorkerProofs` | TLAPS: types, exits are clean, late claims, outages |
| `Text` | strings as sequences of characters; `encode_segment`, `urldecode` |
| `Sources` | source prefixes: validation and resolution |
| `Config` | `validate` |
| `Dimension` | matchers, lookup, reference files |
| `Evaluator` | mapping expressions |
| `JsonSource` | paths and the NDJSON reader |
| `Pipeline` | one mapping: ingest, assertions, dedup, partitions |
| `Execute` | the data path of `execute_job`, over all of the above |
| `ExecuteProofs` | TLAPS: types, sources, validation, rows, lookups and paths of every job |
| `Induction` | TLAPS: induction over the natural numbers in a first-order form |
| `Warehouse` | one table: every S3 command of a run is a step |
| `WarehouseProofs` | TLAPS: types; for runs that do not overlap, retained versions are readable, frozen and whole, orphans are collected |
| `MC*` (+ `.cfg`) | instances for TLC; `Debounce` and `Worker` need no MC module |

### JobQueue and the code

A *handler* is one call of `handle_claimed`, by a consumer loop or a reclaimer
loop of any worker; `pc[h]` names the command it issues next, in code order:

    guard -> count -> lock -> start -> row -> run -> fence -> record -> publish -> release -> ack
                 |       |                    |-> retry -> requeue -> defer      (ConfigRead)
                 |       |-> uncount -> defer                                    (lock busy)
                 |-> fence (attempts used up)

A poison payload goes straight to `ack`, a bad prefix straight to `fence` as
attempt 1. `FaultReturn`, `FaultApplied`, `FaultSkip` and `FaultCount` say what
each command's failure leads to: the handler returns, the command was applied
but its reply lost, the error is ignored, or the attempt number becomes 1.
`Heartbeat` is one tick of the task spawned by `MarkRunning`.

Abstractions:

* The order of the stream is dropped (a set of entries): deliveries to several
  handlers interleave anyway.
* Time is dropped. A delayed job may be due, a dead worker's lock may expire
  and its entry may become idle at any moment. A TTL (90 s) or idle time
  (120 s) that overtakes a handler that is *alive*, although its heartbeat runs
  every 30 s, is a *stall*, counted against `MaxStalls`. Properties are stated
  with stalls where they hold with them.
* `attempts` saturates at `AttemptCap`, further above the limit than the
  concurrent decrements can reach.
* The orphan sweep is modelled per job, its 10-minute grace left out.
* Failures of commands are independent; a broken connection is several of them.
* Not modelled: the TTLs of live hashes, pub/sub events, progress fields.

`runs`, `latest`, `finished` and `missed` are ghosts: no guard reads them.

### Warehouse and the code

`pc[r]` follows `execute_job` for one table: `pointer`, `manifest`
(`read_current`), `map`/`upload` (the mapping loop and
`upload_partitions_async`), `flip` (`publish`), `list`, `read`, `delete`
(`vacuum`). `Stop` ends a run between any two S3 commands: a crash, an early
return or a failed publish; `Cancelled` is the return when the flag is read as
set before a mapping (the heartbeat that sets it is `JobQueue`'s). A PUT that
fails may have been applied; a vacuum skips up to `DeleteFaults` objects whose
DELETE fails, which `undeleted` (a ghost) records. An object's contents
(`objects`) are the run that wrote it last; a listed file bears the run that
listed it (`run`, a ghost), so a property can tell whether the bytes are still
those. Mappings are taken in any order, and what Polars makes of one is any set
of partitions. `Overlap` lets a run start while an earlier one, whose lock has
run out, goes on. Tables do not share keys, so one is enough.

### Debounce and the code

`SetFirst` and `AddScore` are the two commands of `debounce_event`, `call[h]`
the locals between them; `PopDue` is `POP_DUE_LUA` with its LIMIT, `EnqueueDue`
one iteration of the loop over the popped slugs. Time is counted in scheduler
periods: `Tick` is the only action that moves the clock, and it may not leave a
window due for longer than `Lag`, the delay of a poll of the fastest scheduler.
A failed SET, ZADD or enqueue may have been applied or not; `PopReplyLost` and
`SchedulerDies` drop what was popped. `owed` (a recorded event that no job
followed yet) and `oldest` are ghosts. A job reads the lake when it starts, so
an enqueue serves every event recorded before it.

### Webhook and the code

`pc[h]` follows one request: `record` (the read lock of `route_key`), `list`
and `read` (`build_routing`, one step per S3 read), `slug` (the loop over the
slugs, in which `Debounce`'s commands run). The cache is a table per worker;
a rebuild swaps it in under the write lock in `SwapTable`. `Validate` is
`post_config_validate`, which drops the table whatever its verdict; `Publish`,
by the web application, needs a validation before it. Keys are sequences of
characters, and records carry them as S3 events spell them. The refusals (wrong
secret, bad body, Redis unreachable) are one action: they change nothing.

### Worker and the code

`server` is where `run()` is, `loop[l]` what each spawned loop does between two
looks at the flag: `head` or `tick` is the look itself. A call of
`handle_claimed` is `HandleEarly`, or `HandleRun` ... `HandleReturn` around
`in_flight`; what it does to Redis is `JobQueue`'s. The queue is counted
(`ready`, `stale`, `delayed`). `late` and `lastRead` are ghosts.

### The data path and the code

`Execute` is a state machine over scenarios: a config and the objects of the
lake, in listing order. Each S3 request of `execute_job` may fail; cancellation
is read where the code reads it. What a mapping computes is the operator
`RunMapping`, built from one operator per function of `pipeline.rs`,
`json_source.rs`, `dimension.rs`, `assertions.rs`, `evaluator.rs` and
`config.rs`. What a loop of the code computes is a function on the number of
its turns (`DedupRows`, `KeyTuples`, `BestRow`, `Resolve`), or the part of a list
that an iterator keeps (`Kept`); expressions are evaluated and walked by levels
(`Eval`, `WalkAst`), so that no operator of these modules is recursive and all can
be proved about. A frame is a sequence of rows, a cell a typed value or null. CSV
files are given as Polars has parsed them; reference files of dimensions are
parsed by the worker itself and are modelled character by character
(`SplitCsvLine`). Errors are told apart by stage and cause only. Operators that
differ in the scalar function they apply are represented by one each
(`add`, `gt`, `eq`, `lower`); casts and dates are left out.

## Runs

TLC checks deadlock in none of them: a queue without jobs, a table whose runs
are over, a job or a worker that has ended may stop.

| run | instance | checks | shows |
|---|---|---|---|
| `queue_timely` | 2 jobs of one pipeline (one of the web application, one of the webhook), 2 handlers, 2 attempts, 1 crash, 1 failed command, no stalls | `TypeOK`, `RunsSerialized`, `OneToken`, `RowMatchesLive`, `Implements` | the lock serializes; a job is in exactly one of stream, PEL, ZSET; a shown result is the recorded one; the queue implements `JobLifecycle` |
| `queue_stalls` | 1 job, 3 handlers, 2 stalls, 1 crash | `NoJobDropped`, `RunsBounded` | what survives live workers being overtaken |
| `queue_live` | 2 contending jobs, 1 crash | `EventuallySettled`, `EventuallyDrained` | every job ends, the queue drains |
| `queue_gates` | a normal, a bad-prefix and a poison job, 1 crash, 1 failure of *any* command | `EventuallyDrained` | the gates of `handle_claimed` leave nothing behind |
| `queue_trim` | 1 job, trimming at any moment, 2 crashes, 1 failure | `EventuallySettled` | a trimmed job is finished or swept |
| `debounce` | 2 pipelines, 2 concurrent events, 3 events, LIMIT 1, 1 failure or death | `DebounceTypeOK`, `EventsKept`, `WaitBounded`, `EventServed` | only a failure between pop and enqueue loses an event; a window outlasts the documented 30 s by the quiet time at most |
| `webhook` | 1 worker, 2 concurrent requests, 3 requests, 1 publication, 1 failure or death | `TypeOK`, `SettledRouted` | once a config is older than the TTL and a build, it is routed exactly, whatever rebuilds raced |
| `worker` | 2 consumers, 1 connection, 2 entries, 2 failed reads | `TypeOK`, `NothingAbandoned`, `LateClaims`, `OutageReported`, `ExitsAfterSignal`, `StreamRead` | SIGTERM ends in an exit that abandons nothing; a consumer claims at most one entry after the flag |
| `execute` | 2,979 scenarios, 1 failed request or a cancellation | `TypeOK`, `OwnSource`, `AcceptedConfigRuns`, `KeysReadBack`, `RowsExact`, `RowsSound`, `FilesReadBack`, `PathsRead`, `LookupMeetsSpec`, `PathCells` | validation fits execution, rows are neither lost, doubled nor changed, lookups and paths meet their reference definitions; keys, reference files and paths read back as what they were written from |
| `warehouse_serial` | 3 runs one after the other, 2 mappings, 2 partitions, 2 retained versions, 1 failing DELETE per vacuum | `TypeOK`, `MappingsWhole`, `PublishedFrozen`, `FailedKeepFiles`, `OrphansCollected`, `RetainedReadable` | whatever stops where, the objects of a retained version are there, do not change and are of one run per mapping |
| `warehouse_overlap` | 2 overlapping runs, 1 mapping, 2 partitions, 1 retained version | `MappingsWhole` (violated) | the second finding |
| `warehouse_pointer` | 2 runs, a pointer GET that may fail | `PublishedFrozen` (violated) | the first finding |

Why the bounds are enough to be interesting. *Queue*: two jobs of one pipeline
make every lock conflict; two handlers make every race of a claim, a reclaim and
a finish, and the third one in `queue_stalls` lets a delivery be counted while
two attempts are still alive; two attempts give a first, a last and a given-up
one; one fault and one crash are enough for each single recovery path and one
combination. *Warehouse*: three runs over a window of two versions publish,
retire and vacuum, with leftovers of stopped runs under the version number that
is reused. *Debounce*: two events of one pipeline and one of another put a pop
between any two commands; with LIMIT 1 and two pipelines a pop leaves a due
slug behind; `MaxTime` is the TTL of the batch start, so that it expires.
*Webhook*: two requests race each other's build, a validation and a publication,
and four ticks outlast TTL and build. *Worker*: two consumers write the shared
flag in either order; two entries let the reclaimer find a second one after the
flag. *Execute*: the scenarios are families, each exhaustive in what it varies:
two source prefixes out of nine paths; column and `where` expressions with and
without dangling references; one edit each of a valid config; two rows of every
text and number under every choice of partition and dedup keys and assertions;
columns of different types; dimensions of up to three rows with folding,
priorities, misses and either kind of storage; reference files with every
quoting; JSON records of every shape under every path. `MaxNesting = 6` bounds the
depth of an expression, as the generators of the code's own tests do
(`testgen.rs:59`); the scenarios go no deeper than 4, and the proofs use no bound.
Symmetry is used over handlers (safety runs only), runs, mappings and
partitions.

`AbsorbedFaults` (used by `queue_timely`) leaves out the failure of the
redelivery guard's HGET and of HINCRBY: the code takes the first for "no
status" (`queue.rs:539`) and re-runs the job, which `JobLifecycle` forbids.
`queue_gates` and `queue_trim` include both.

### Fairness

`JobQueue`'s `FairSpec` assumes weak fairness of a handler's next command (tasks
keep being scheduled, every S3 and Redis call returns or times out), of
XREADGROUP by some idle consumer, of XAUTOCLAIM (every 60 s) of an entry nobody
works on, of the mover (every 5 s) per job, of the expiry of a lock nobody
renews, and of the sweep (every tenth reclaimer pass). `DebounceFairSpec` assumes
it of the next command of a call, of the scheduler (every 1 s) and of time.
`Worker`'s `FairSpec` assumes it of every loop's next step (an interval ticks, a
BLOCK of 5 s ends, a pause ends), of the return of `handle_claimed`, and of
clients closing their connections: axum's graceful shutdown waits for them
without a limit, so this one is an assumption about clients. None is assumed of
enqueues, events, signals, heartbeat ticks, faults, crashes, stalls or trims. It
is fair for these loops because each is a `loop` on a tokio interval, started on
every worker, that reconnects after an error.

## Findings

1. Any error of the pointer's GET reads as "never published": the run rewrites
   version 1 under readers and moves the pointer back (`manifest.rs:142`; run
   `warehouse_pointer`).
2. A run uploads under the version after the one it read at its start
   (`job.rs:345`), also when its lock has run out. Two runs that both started
   from version N write the same keys under `v<N+1>/`: once one has published,
   the other writes over objects that are being read, and the version holds the
   bytes of one run in some partitions of a mapping and of the other in the rest
   (run `warehouse_overlap`). "Never over the objects a reader might be scanning"
   and "a reader sees either the whole previous version or the whole new one"
   (`manifest.rs:3-4`, `14-15`) hold only while runs do not overlap. They do when
   a heartbeat does not reach Redis for the lock's TTL: it retries without
   setting the flag (`queue.rs:653-657`), the lock expires and another worker
   takes it.

## Observations

Met while modelling; they have no run of their own.

Queue
* `finish_job`'s check passes also when the lock is free, so a stale attempt
  records and acks once the newer one is done (comment `queue.rs:402`).
* An attempt that gives up never had the lock, and the ConfigRead arm releases
  it before its last `finish_job`; if another job of the pipeline holds it by
  then, the record is skipped as if a newer attempt existed and the entry waits
  for the reclaimer (`queue.rs:744`).
* The orphan sweep marks jobs abandoned that are being executed or wait in the
  delayed ZSET after their entry was trimmed (comment `queue.rs:1060`).
* Jobs of the debounce scheduler have no Postgres row (`insert_queued` has no
  caller), so their terminal UPDATE changes nothing.
* HINCRBY -1 may hand the number of a live attempt to a later delivery, so that
  two attempts share a fence (`queue.rs:582`).

Publishing
* `RETAINED_VERSIONS` counts the current version (`manifest.rs:27` reads
  otherwise); the cancel flag is not read between the last mapping and the
  pointer PUT (`job.rs:356-394`).
* A LIST or GET that fails, or a file that does not parse, is skipped; the
  mapping still replaces all of its files (`manifest.rs:82`) and the job is
  `completed`.

Webhook and debounce
* A pop whose reply is lost, whose worker dies or whose enqueue fails drops the
  events (`queue.rs:1130-1151`); only a later upload makes up for it.
* The cap of 30 s after the first event (`queue.rs:1083`) is exceeded by up to
  the quiet time when a pop comes between SET and ZADD: the window then has no
  batch start. `WaitBounded` states the bound that holds.
* A failed LIST is cached as an empty table for the whole TTL, although
  `http.rs:101` says "the next event or TTL expiry retries".
* "Concurrent rebuilds are harmless: last swap wins" (`http.rs:80`): the last
  swap may be of the older table. The validation that drops the table comes
  before the publication (`http.rs:488`), so a rebuild in between caches the old
  config. Both last for a TTL, which is what `SettledRouted` allows for.

Worker
* SIGTERM sets the flag only after the HTTP server has drained; until then
  consumers go on claiming (README.md:59 "stops claiming"). The inner loop of
  the reclaimer does not look at it at all (`queue.rs:938-969`).
* The loops are spawned before the port is bound (`lib.rs:146-158`): a bind that
  fails drops jobs in the middle of a run.
* `consumer_ok` is one flag of all consumer loops (`queue.rs:90`): it is true
  again as soon as any of them reads.

Data path
* A `where` is not "validated like a column expression" (`config.rs:346`): the
  value column of a `dim_ref` in it is not checked, nor is anything of
  `record_filter`. Such a config is accepted and skips every file.
* Accepted as well, and failing every file or the mapping: duplicate column
  names in a schema or a mapping, partition or dedup keys the mapping does not
  output, a mapping with an empty source or table id.
* A `dim_ref` over a CSV column that was inferred as a number fails the file;
  files of a mapping whose columns were inferred differently fail all of it.
* `min` and `max` pass for strings that are no numbers (`assertions.rs:85`).

## Proofs

All proof modules are checked by TLAPS, for every value of the constants.

**`JobQueueProofs`** (from `QueueAssumption`).

* `TypeCorrect`: `Spec => []TypeOK`.
* `Serialized`: if `MaxStalls = 0`, `Spec => []RunsSerialized`, for any number
  of jobs, handlers, pipelines, crashes, failed commands and trims.
  Serialization is not inductive: it needs that a handler between `try_lock`
  and `finish_job`'s release still owns the lock (`HolderHasLock`), which a
  second delivery of the same job with the same fence could break. So
  `DeliveryInv` says that a job is in one place (`OneEntry`, `DelayedAlone`,
  `AbsentNowhere`) and handled by at most one handler (`OneHandler`,
  `HandledOnce`); two handlers then work on different jobs and their fences
  differ. `SerialInv` is the conjunction, with `TypeOK`.
* `RunsAreBounded`: if HINCRBY does not fail (`"count" \notin FaultAt`; the code
  would go on as attempt 1), `Spec => []RunsBounded`, stalls and trims included.
  An attempt is counted before it has the lock and given back when it does not
  get it, so `attempts` alone bounds nothing: `BoundInv` says that it covers
  the executions *and* the handlers that have counted but neither started nor
  given back (`Waiting`), and that executions and those that may still start
  (`Locking`) stay within the limit.
* `NothingDropped`: if `Trimming = FALSE`, `Spec => []NoJobDropped`, with any
  number of stalls. `DropInv`: an open job has a token (`OpenHasToken`), what is
  acked is settled (`AckedSettled`), and an id that was never enqueued is
  nowhere (`AbsentNowhere`). Duplicated entries, which stalls bring, do no harm.

**`JobQueueRefinementProofs`** (also from `MaxStalls = 0`). All three rest on
`SerialInv`.

* `ExactlyOneToken`: with `Trimming = FALSE`, `Spec => []OneToken`, with
  failures of any command. "At most one" is `DeliveryInv`; "at least one"
  needs that a handler's entry stays pending until its own ack (`EntryPending`)
  and that it acks only jobs whose live hash is terminal (`AckedTerminal`).
* `RowAgrees`: if the guard's HGET does not fail, `Spec => []RowMatchesLive`,
  with trims. Between `mark_finished` and `publish` row and live hash disagree:
  `RowInv` says that what is about to be published is in the row
  (`RecordedFirst`) and that past the guard no job is settled (`GuardedOpen`), so
  that no later run reopens the row of a settled one. A bad prefix skips the
  guard, but can only ever fail (`BadPrefixFails`).
* `ImplementsLifecycle`: with `Trimming = FALSE` and neither guard nor HINCRBY
  failing, `Spec => Implements`: the initial states map to initial ones, and
  under `RefineInv` every step maps to a step of `JobLifecycle` or a stutter.
  `RefineInv` adds to the invariants above that locks bear attempts within the
  limit (`FenceInv`): a lock can then not make a job that has given up look
  `Held`. The lemmas `StatusOthers` and `StatusChange` say what a step that
  moves one handler does to the mapped status of all jobs.

**`WarehouseProofs`** (from `WarehouseAssumption`).

* `TypesHold`: `Spec => []TypeOK`, overlapping runs and failing GETs and
  DELETEs included.
* With `Overlap = FALSE` and `PointerFaults = FALSE`:
  `VersionsReadable` (`Spec => []RetainedReadable`), `VersionsFrozen`
  (`Spec => PublishedFrozen`), `PublishedWhole` (`Spec => []MappingsWhole`) and
  `FailedFilesKept` (`Spec => FailedKeepFiles`).
* With `Overlap = FALSE`: `OrphansGone` (`Spec => OrphansCollected`), also after
  the pointer fault of the first finding.

  `StoreInv` adds to the property: one run is active at a time (`OneRun`); a
  published manifest lists objects of its own or earlier versions
  (`KeysBounded`), while the active run writes only above the pointer
  (`BaseCurrent`), so uploads miss every published file (`UploadFresh`); the
  files gathered so far are stored (`WorkSound`, `UploadSound`), hence so are
  those of the version about to be published (`FlipSound`); the vacuum's
  targets contain no file of the window (`VacuumSound`). The counting argument
  that `versions_to_drop` spares the window, although it counts the manifests
  that exist, is `WindowNotDoomed`; its converse, that it drops *every* version
  below the window, is `BelowDoomed`. `OneRun` is what `Serialized` provides.

  `WholeInv` says that no manifest, and no list a run carries, has files of a
  mapping listed by two runs, overlapping or not; that the objects hold the bytes
  they had when listed is `RetainedReadable`, and the two give `MappingsWhole`.
  `KeepSound` relates the files a run carries, for the mappings it has not
  written, to the version it started from, up to the pointer flip.
  `CollectSound` says that a vacuum's list has every object, and after the
  manifests are read every object that no version of the window lists and whose
  DELETE has not failed. It rests
  on `WindowInv` in place of `StoreInv`: the versions of the window have
  manifests, though after a pointer fault they need not be the ones readers knew.

**`DebounceProofs`** (from `DebounceAssumption`: `Quiet <= MaxWait`, and a
scheduler's lag below three maximal waits, so that a batch start never expires
under an open window that needs it).

* `TypeCorrect`: `DebounceSpec => []DebounceTypeOK`.
* `EventsAreKept`: `DebounceSpec => []EventsKept`, inductive with the types.
* `WaitIsBounded`: `DebounceSpec => []WaitBounded`. The bound is not inductive:
  the due time a call will write depends on a batch start it read earlier, which
  a pop may have deleted and another event set anew. `WindowInv` says of every
  open window that its batch start, if it has one, was set within the quiet time
  and the lag of its first event, that the clock has not run ahead of what keeps
  the window open (`Open`), and that the due time of the window and of every call
  in progress is harmless: within the quiet time of the first event, within the
  maximal wait of the batch start, or already past (`Harmless`). The lemmas
  `OpenSet`, `OpenExpire`, `OpenTick`, `OpenNew` and `OpenBound` are what each
  kind of step does to a window.

**`WebhookProofs`** (from `WebhookAssumption`: requests are sequences of S3
event records, configs sets of prefixes).

* `WebTypesHold`: `Spec => []TypeOK`.
* `RoutingSettles`: if `UrlDecode(UrlEncode(k)) = k` for every key, which TLC
  computes for the keys of the instance (a text conversion, like those
  `ExecuteProofs` leaves to TLC),
  `Spec => SettledRouted`. The property is about one lookup, but what it
  says depends on the LIST a request answered long ago: `BuildSound` says that a
  build in progress has, of every config that was published before its LIST,
  read exactly the published sources or still has it to read, and that it is not
  older than `BuildTime`; `TableSound` says the same of a cached table, whichever
  build swapped it in last and whenever. A publication in between moves
  `published` beyond both.
* `RequestsAreKept`, `RequestsWaitBounded`: `EventsKept` and `WaitBounded` hold
  of the composition. `DebouncePart` shows that a step of `Webhook` is a step of
  `Debounce`, or counts a request, or starts a call, or is a death; each of
  the last three keeps the debouncer's invariants.

**`WorkerProofs`** (from `WorkerAssumption`): `TypesHold`, `ExitIsClean`
(`NothingAbandoned`), `FewLateClaims` (`LateClaims`), `OutageShown`
(`OutageReported`). `LifeInv`: `in_flight` is the number of loops that are in a
run (`Counted`), `run()` returns only when every loop has (`AllJoined`), and a
consumer that is still in its read has claimed nothing since the flag was set
(`Claims`).

**`ExecuteProofs`** (from `ExecuteAssumption` and `ScenarioAssumption`: the
config and the files have the types that serde gives them, vectors, integer
priorities and a match mode; any number of sources, dimensions, mappings,
tables, files, records and rows, any strings, any expressions nested up to
`MaxNesting`, any failed requests).

The induction over the steps of a job:

* `Control`, `Listing`, `Downloads` and `Outcomes` are the types with what makes
  them inductive: a file is downloaded for a key already gone through, so that
  no failed GET makes a later one repeat it, and the results keep pace with
  `next`. `TypeCorrect`: `Spec => []TypeOK`.
* `Registry` says at every point of a job which dimensions have a matcher, and
  that it is the one built from the dimension's rows: `TypeOK` only bounds the
  ids. `Computed` says that a result is what `run_mapping` makes of the files
  and the registry *now*: both no longer change once mappings run.

What follows for every job:

* `ReadWithOwnSource`: `Spec => []OwnSource`. Of two prefixes of one key the
  shorter is a prefix of the longer (`PrefixesCompare`), which `Nested` excludes
  in both orders (`OneSource`, `SourceAgrees`).
* `ValidationSuffices`: `Spec => []AcceptedConfigRuns`. A column that validation
  has seen in the schema is in every row the readers give, a dimension it has
  resolved is in the registry by the time a mapping runs (`Registry`) with its
  value columns, so compiling and selecting cannot fail for want of either.
* `OnlySoundRows`: `Spec => []RowsSound`. The rows of a written result are the
  union of those of its files (`UnitedRows`), asserted before any duplicate is
  dropped (`WrittenRows`); `IngestRows` says that they have the mapping's columns.
* `LookupAnswers`: a matcher that could be built answers any input as
  `LookupSpec` does. For the substring mode this is an induction over the turns
  of the loop (`TurnKeepsBest`); for the exact mode duplicates are looked for
  after folding, so no two rows match one input and the hash index finds it.
  `MatchersAnswer`: hence the registry of every job. `LookupsMeetSpec`:
  `Spec => [](FilesReadBack => LookupMeetsSpec)`.
* `CellsAreAtPaths`: `Spec => [](PathsRead => PathCells)`: `resolve` takes one
  step per turn, `ValueAt` names the value at the end of the path; that they
  agree is an induction over the steps (`ResolveIsValueAt`).
* `DedupKeepsFirsts`: one pass that compares a row with the rows kept so far
  keeps the rows that no earlier row is like, kept or not. The induction carries
  that every row gone through is like one that was kept.
* `PartitionsAreExact`: `KeyTuples` lists each tuple once (`KeyTuplesFacts`), so
  with keys that tell tuples apart the outputs are a partition of the frame.
  `WritesWhatItReads`: `Spec => [](KeysReadBack => RowsExact)`.

The three hypotheses are about conversions of text (`split_csv_line`,
`compile_path`, `encode_segment` with `urldecode`): folds over characters, with
the letters and digits of the instance. They are invariants of the run
`execute` in their own right, and the theorems say that nothing else can go
wrong: not the order of files, loads, failures, duplicates or partitions.

**`Induction`**. The library states induction with an operator as parameter,
which the provers cannot instantiate. `Least` (a non-empty set of naturals has a
least element, from the library's well-foundedness) gives `Inducts`, induction
as a fact about a *set* of numbers, and `Iterates`, that functions can be applied
one after the other. With these, what a loop computes is proved from its
recursive function: `Kept` and concatenation in `SumsExist` ...
`KeptEnumerates`, the loops above in the lemmas named.

Only model-checked:

* liveness (`EventuallySettled`, `EventuallyDrained`, `EventServed`,
  `ExitsAfterSignal`, `StreamRead`): fairness is out of the prover's reach;
* `FilesReadBack`, `PathsRead` and `KeysReadBack`, for the reason above;
* that `urldecode` undoes the spelling of a key (`RoutingSettles`).

The hypotheses are those of the runs or weaker, and none can be dropped: with
the excluded fault, stall, trim or overlap TLC finds the property violated on
instances of one or two jobs, or two or three runs. Some of these behaviours are
under Findings and Observations.

## Plan

Done: every component below except those under "Not modelled". Left:

* Composition of `JobQueue`'s lock with `Warehouse`: at most one run works on a
  table, with the stalls that make runs overlap. `Serialized` gives today what
  `Overlap = FALSE` assumes, but as two theorems about two modules.

## Not modelled, and why

Inside Polars: CSV parsing, type inference, casts, date functions and Parquet
encoding. So a `select` of literals only gives a row per row here and one row in
Polars, and a column that is all null takes any type in a union, where Polars
calls it a string. Numbers are integers: `n.as_f64() as i64` cuts off fractions
(`json_source.rs:106`). The error a failing file reports is that of its first
bad column; the code compiles all of them first; either way the file is skipped.
Names of tables and columns are single tokens, though the code writes them into
keys unencoded (`pipeline.rs:334`). A carriage return at the end of a line of a
reference file, which `split_csv_line` trims, is left out. Characters are single
bytes: `encode_segment` and `urldecode` of multi-byte UTF-8 are left out. `s3.rs`, `error.rs`, `main.rs`, serde shapes, the
token comparison and response bodies keep no state. `testgen.rs` only generates
values for tests. Progress and pub/sub events are never read back by the worker.
`backoff_ms` is a delay, and `JobQueue` has no time.
