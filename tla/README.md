# TLA+ models of the Incident AI backend

The modules in this directory model the parts of the service where processes,
sessions, locks, messages and timers meet. TLC checks them on small instances, and
TLAPS proves the safety of every module, and that the jobs and the ingestion implement
their abstract specifications step by step, for instances of any size.
`PROJECT.json` names the source lines behind every definition, every run with its
properties, and for each property a bug ("mutant") that the property catches.

    tlc -workers 2 -config Jobs_faults.cfg MCAnalysisJobs.tla    # a run
    tlapm AnalysisJobsProofs.tla                                 # the proofs

## 1. The system

One FastAPI process or several (`app/main.py`, `app/api/routes.py`) serve `/api/v1`.
Each request has one database session, which `get_session` closes at the end, and
so rolls back what was not committed. The database is PostgreSQL at READ COMMITTED
or, for the demo, SQLite. With `CELERY_ENABLED` analyses run in Celery workers
(`app/worker.py`, Redis as the broker); without it they run as background tasks of
the API process. Model providers, Jira, Confluence, Slack, Teams, APNs and S3 are
called over HTTP.

| Component (source) | State | Operations | Talks to | What is hard | What makes it correct |
| --- | --- | --- | --- | --- | --- |
| Analysis jobs (`domain/jobs.py`, `worker.py`, `queue_analysis`) | `analysis_jobs`, `analyses`, broker messages | queue, publish, execute, fail, redeliver | broker, workers, incidents, model | crashes at any step, repeated deliveries, a failure path in a session of its own, deadlock with deletion, tasks that are lost with their response | status, result and analysis agree; no job is stranded but on record; success is final |
| Incident lifecycle (`update_incident`, `delete_incident`, `domain/incidents.py`) | `incidents`, `timeline_events` | PATCH, DELETE, create, log, note | analyses, jobs, postmortems (cascade) | overlapping PATCHes; the ORM writes changed columns only; SQLite ignores FOR UPDATE | `resolved_at` and `acknowledged_at` follow the status and stay; the timeline is one chain |
| Alert ingestion (`webhook`, `ingest_alert`) | `alerts`, background tasks | one transaction per batch, one savepoint per alert | sources, incidents, jobs, notifiers | equal keys in racing batches, opposite key orders, redelivery, a failure after the commit or after the receipt | one alert per key, batches atomic, receipts and notifications agree |
| Alert sources (`integrations/sources`) | none | normalise five providers' payloads, identify an alert | ingestion | identities from parts that may be missing | one occurrence of a problem is one key |
| Analysis and model clients (`domain/analysis.py`, `ai/client.py`) | `analyses`, `incidents.embedding` | analyse, embed, fall back | HTTP client, jobs, rows | deadline against retries, long awaits inside a transaction | reports are labelled honestly, vectors belong to stored titles |
| HTTP client (`integrations/http.py`) | attempt counter | request, replay | every provider | which failures may be replayed, untrusted `Retry-After` | a POST that creates something is sent once |
| Postmortems and exporters (`domain/postmortems.py`, `integrations/exporters`, `export_postmortem`) | `postmortems`, `export_records`, `app.state.export_locks` | generate, edit, export | Jira, Confluence | two locks, a POST inside the transaction, lost answers, restarts with other credentials | no artifact twice, links equal receipts, edits not lost |
| Rate limiter (`core/middleware.py`) | windows per host, Redis counters | one decision per request | Redis | a cleanup that touches other hosts, boundaries, lost answers | never too many, refused only when full |
| Notifications (`integrations/notifiers`) | APNs token cache | Slack, Teams, APNs | ingestion | partial failure of a `gather`, a cached token against a clock that may be set, a queue behind a semaphore | each recipient is tried, and the age of its token is bounded |
| Archival (`integrations/archival.py`, `archive`) | object store, timeline | upload, record | S3 or a directory | upload before commit, repetition under the same key | every receipt has its object, every object its explanation |
| Search, dashboard (`domain/search.py`, `dashboard`) | none | read | incidents, embeddings | they read columns that different requests write | counts, list and search agree on the row |
| Devices (`register_device`, `unregister_device`) | `devices` | upsert, delete | notifiers | change while a notification runs | a device that stays is told |
| Authentication, configuration, errors, telemetry, schemas, migrations, deployment | settings | validate, log | | little | |

`PROJECT.json` lists all components with their status, and the hazards (each at the
line where it bites) with the properties that guard against it.

## 2. Modules

Common conventions. Committed rows are variables; what a session has read but not
yet written is a copy of its own, because the ORM writes only the columns that
differ from what it read. Row locks are not variables: they follow from the program
counters, since a session holds a lock from one statement to the end of its
transaction. A crash is an action that forgets copies and locks. Failures that the
code handles in one way are one action. A definition `X_Y` after a "Mutant:" comment
is definition `X` with a plausible bug `Y`; the specification never uses it. It is
there to show that the named property is sensitive to that bug.

### JobLedger and AnalysisJobs

`JobLedger` is the abstract specification: what a client that polls `GET /jobs/{id}` sees.
A job is absent, queued, succeeded, failed or gone; failed may become succeeded, succeeded
stays, and a queued job does not stay queued. Where jobs are not kept durably (`durable`),
a queued job may be forgotten; the ledger calls it "stranded", and a client sees it queued
until its incident is deleted.

`AnalysisJobs` is the detailed one.

| Code | Model |
| --- | --- |
| the loop in `ingest` over new incidents, or `POST .../analysis/jobs` | a request `r` with its calls `CallsOf(r)`, one at a time (`Open`) |
| `queue_analysis` up to the commit | `QueueAnalysis` |
| `apply_async` / `tasks.add_task` | `Publish`, `PublishFails` (the message may have arrived all the same) |
| its `except`, which writes a stale copy | `RefuseJob` |
| the handler returns; the response starts its background tasks | `Respond` |
| a later call raises (incident deleted, commit failed or unanswered) | `HandlerRaises` |
| `select(...).with_for_update()` in `execute_analysis_job` | `StartJob` or `SkipJob` behind `RowFree` |
| `analyze_incident`: the model's call, then the autoflushed INSERT | `ModelAnswers`, `StoreAnalysis` (takes the foreign-key share lock) |
| `session.commit()` | `CommitResult` (also ambiguous: it happened but raised) |
| leaving the `async with` by an exception | `Raise`: rolled back and unlocked before the `except` body |
| the `except` body, in a second session | `ReadJob`, `WriteFailed`, `WriteRaises` (the row is gone: StaleDataError) |
| `task_acks_late`, `task_reject_on_worker_lost`, time limits | `Ack`, `Abandon`, `CrashWorker`, `Redeliver` |
| `delete_incident` and ON DELETE CASCADE | `DeleteRow`, `DeleteCascade`, `BreakDeadlock` |
| death of the API process | `CrashApi` (Celery), `CrashProcess` (tasks in the process) |

`owned[w]` says whether the broker still counts the message as this worker's; it
decides whether a crash puts it back.

Without Celery a job is not handed over when it is "published": it is a task of a
response that is yet to be sent. `Held` counts it as the request's until `Respond` moves
the request's tasks to `queue`, and `HandlerRaises` drops them when a later call of the
same request raises. The tasks of one response run one after the other (`Waits`), and a
task that raises takes those behind it along (`Behind`, in `WriteRaises` and `Abandon`).
`notify_created`, which runs between them, catches everything.

`abandoned` is a history variable: jobs dropped by something nobody handles (an API
crash, a time limit, a database outage during the failure path, a COMMIT whose answer is
lost, and without Celery a request or task that raises). `NoStrandedJob` exempts those
and says in the same breath when there are none: `Durable`, that is with Celery and
without these four faults.

The model covers PostgreSQL, which the deployment with Celery uses. On SQLite the
job's row is not locked; with background tasks each job has just one execution
there.

### IncidentRow

One incident row, any number of PATCH requests and analyses, and a deletion. `locks` is
TRUE for PostgreSQL and FALSE for SQLite. `ReadRow` is `require_incident(..., lock=True)`;
`Assigned` is the handler's assignments, for a body and a reading of the clock; `Updated`
merges the changed columns into the row as it is by then; `Logged` appends the timeline
event. `utcnow()` is the wall clock of whichever process serves the request and may be
set: a reading is any member of `Times`, and no two are related. So nothing is claimed
about the order of `created_at`, `acknowledged_at`, `resolved_at` and `updated_at`.
`timeline` is in the order of the commits; readers sort its rows by `created_at`, which
clocks of several processes may order otherwise. An analysis reads the row after its
INSERT was flushed (`InsertAnalysis`), awaits the embedding (`Embed`) and commits the
vector (`CommitAnalysis`) with its label, the column `embedding_model`. A vector is
identified by its title, its model and its analysis. Processes may be configured with
different models, as they are while a change of the setting is rolled out. Deletion
empties the row and its timeline.

The readers of the row are operators over it: `Listed` is the list with its filter
`active`, `CountedResolved`, `CountedActive`, `HasDuration`, `HasAckDuration` and
`MayBeOverdue` are the places where the dashboard counts it, `Compared` is the WHERE of
semantic search. `DashboardAgrees` and `EmbeddingFresh` say that these readers, who
each look at other columns, tell one story.

### AlertSources

The adapters as operators: `Batch(payload)` is `get_source(source).normalize(payload)`
and empty where that raises. An alert is reduced to the provider's identifier, its start
time, its state and the rest, each of which may be `Absent`. `Parts` is what an adapter
hands to `_id`, `ExternalId` what `_id` makes of it: the parts that are given, joined, or
a hash of the whole alert when there is none. `Occurrence` is stated independently of
these: what a provider means by two alerts that are about the same thing.

### AlertBook and AlertIngestion

`AlertBook` is the abstract specification: a book of incidents, each under its alert's key.
A batch is entered whole, a key in the book gets no second incident, deletion removes
incident and alert, and only what was entered is announced.

`AlertIngestion` is the detailed one and implements it (`ImplementsBook`): every step is
an entry, a deletion, an announcement or a stutter. It extends `AlertSources`: a delivery
has a payload and works on its `Batch`. Each alert goes through SELECT, savepoint, INSERT,
IntegrityError, second SELECT and so on, one after the other; `mine[d]` is what the open
transaction has inserted. On PostgreSQL an INSERT waits for the transaction that holds the
same key (`WaitsFor`), and a ring of waiting transactions is broken by aborting one
(`AbortDeadlock`). On SQLite BEGIN IMMEDIATE admits one batch at a time. A statement or
the COMMIT may fail (`DatabaseFails`), and a COMMIT may happen and raise all the same
(`CommitUnsure`). After the commit the loop schedules notifications and queues analyses;
an exception there ends the response and its background tasks (`ScheduleFails`). `Respond`
sends the receipt, and only then `RunTask` starts the notifications, one by one in the
loop's order. `LoseTasks` is what may happen in between: the process dies, or an analysis
among the tasks raises. `lost` remembers it. `Resend` is the provider, which does not send
an answered batch again.

### Notifications

`POST /incidents` and the background task `notify_created`, which webhooks use as well.

| Code | Model |
| --- | --- |
| `create_incident` with its commit and `schedule_created` | `CreateIncident` |
| `notify_created`: the devices, in a session of its own | `StartNotifiers`, `ReadFails` (then nobody is told) |
| `WebhookNotifier.notify`, whatever it ends in | `Post` |
| `_apns_token` and `_JWT_CACHE` | `Reusable`, `Token`, `GetToken`, `KeyFails` |
| `asyncio.Semaphore(10)`, `send` | `MayPush`, `StartPush`, `EndPush` |
| both `gather(..., return_exceptions=True)` | `Gather` |
| `register_device`, `unregister_device` | `RegisterDevice`, `UnregisterDevice` |
| exit and start of the process | `Restart`: tasks and cache are gone |

The code dates and ages a token by the wall clock, Apple by the true time. The model
keeps a token's true age and the wall clock's error `offset`, which `SetClock` changes at
any moment, so `Reusable` compares `cache + offset`. Time is discrete, and `Tick` waits
for a free slot to be taken and for a push that has reached `LongestPush`.

`OldestToken` is the age that a token in use does not reach: `Refresh`, the error of the
clock, and as many rounds of pushes that all take longest as the devices fill the
semaphore. It is tight: with one unit less `TokenAgeBounded` fails. Apple takes tokens for
an hour, so with `Refresh` at 2400 s there are twenty minutes for the rest: with ten slots
and pushes of 15 s that is some 800 devices when the clock is right. The code checks
neither the number of devices nor the length of a push, which `integration_timeout_seconds`
bounds phase by phase only; so the model states the bound it does keep, in terms of
`LongestPush`, a parameter of the environment, and does not claim that Apple takes every
token. `Horizon` is a bound of the model alone, above which ages are not told apart
(`HorizonAssumption`). A task that was lost by `Restart` is not made up for: the code
keeps no record of it, and the model excuses it.

### LogArchive

Requests to archive one incident beside requests that add logs (`AddLogs`) and timeline
events (`AddNote`) and its deletion. `ReadLogs` fixes the order of the entries (`Orders`:
by timestamp, otherwise any), and the key of the object is that content. `Put` and
`PutFails` are attempts of the S3 client, which stores whole objects and repeats what it
has no answer to; `Truncate`, `Write` and `WriteFails` are `write_bytes` in the demo, where
a file is torn for a while. `Record` commits the event. A crash or failure is visible in
`pc`, which is how `ArchivesAccountedFor` tells an object that a failed request left
from one nobody can explain.

### PostmortemExport

Requests to generate, edit and export the postmortem of one incident, served by
several processes. `Guard` takes the `asyncio.Lock` that the process keeps per
incident; `ReuseReceipt`, `Refuse` and `StartExport` are the three ways on once the
row lock is granted; `PostCreated` and `PostFails` are the request to the destination,
`StoreReceipt` and `StoreFails` the commit. `remote` is what exists at the
destination, `orphans` what was created there by a request that failed afterwards.
`Restart` kills a process's requests and gives it other credentials.

`JiraExporter.export` has a branch for an incident that already has a Jira key. It is
never taken: the dictionary the route passes has no such key. The model has no
action for it. Nor does it let the database connection break while a POST is under way,
which would free the row lock in mid-request: the process lock still keeps other exports
of that process out, but one of another process could then post a second time.

### RateLimiter

`MemoryRequest` is `MemoryRateLimiter.exceeded` with the cleanup that runs in it,
`RedisRequest` is `RATE_SCRIPT`, `RedisFails` is a `RedisError` (503) after a script that
did or did not run. `accepted` and `failed` are histories, the times of a host's requests
in the last `Window` (`Latest`), so that the properties speak of every minute and not only
of the limiter's own. The memory limiter is per process: N processes let N times the limit
through, which is why production settings require REDIS_URL. A resend inside the Redis
client is not modelled.

### ProviderCalls

One analysis (model, then embedding) or one export, through `request_json`.
`Replay`, `GiveUp`, `Accept` are its outcomes for one attempt, `Wake` the end of a
sleep, `Expire` the `asyncio.timeout` of `ResilientLLMClient`, `Stumble` an answer
that is a JSON object but makes `.get` fail further in. Time is counted in ticks of
250 ms, the first backoff.

### Composition

`AnalysisJobs`, `IncidentRow` and `ProviderCalls` each model another side of one
analysis: what it does to the job and the broker, to the incident's row, and on the
network. They agree on its steps (context read, model's answer, INSERT, embedding,
commit); `AnalysisJobs` lets the model's call and the embedding end in every way that
`ProviderCalls` reaches. `AlertIngestion` contains `AlertSources`. Its notifications and
the jobs its loop queues stop at the hand-over: from there on `Notifications` takes over
with `StartNotifiers` and `AnalysisJobs` with `QueueAnalysis`. A single product of all
modules would multiply states and show nothing that these interfaces do not.

## 3. Runs

Times are those of two TLC workers.

| Run | Shows | Bounds | Size |
| --- | --- | --- | --- |
| `Jobs_faults` | Rows, results and analyses stay together, no job is stranded but on record, under every fault at once | 2 jobs of one request or of one incident, 2 workers, 2 incidents, 1 crash, 1 repeated delivery, with and without Celery; symmetry | 2.9 M states, 82 s |
| `Jobs_reliable` | `AnalysisJobs` implements `JobLedger` with fairness: a success is final, with Celery every job settles, without it a job settles or is dropped with its response or behind a task that raises; locks are always released | 2 jobs of one request or of one incident, 2 workers, 2 incidents, 1 worker crash, with and without Celery | 45.9 k states, 100 s |
| `Incident_rows` | Dashboard, list, timeline and search agree on the row that locks protect, stamps stay, and what of it holds on SQLite too | 3 PATCHes, 2 analyses under 2 models, a deletion, 2 titles, 2 readings of the clock, every body, both databases; symmetry | 313 k states, 24 s |
| `Ingestion_batches` | `AlertIngestion` implements `AlertBook`; one occurrence is one incident, batches are atomic, receipts honest, and every delivery ends | 2 deliveries of 2 attempts; 11 pairs of payloads (two keys in both orders, one twice, one later again or resolved, one invalid, several without identifier or time) and 9 that the adapters refuse; crashes before and after the receipt, failing and unanswered COMMITs, tasks that raise, refusing broker; both databases | 677 k states, 96 s |
| `Notifications_apns` | No recipient costs another the news; the age of every token used is bounded | 2 incidents, 1 channel, 2 devices, 1 slot, longest push 1, refresh 2, horizon 5 (= `OldestToken`), clock off by 1 either way | 1.6 M states, 32 s |
| `Log_archives` | Every receipt has its object, every object its explanation | 3 archives, 3 logs with 2 timestamps, 1 note, at most 2 entries, 2 attempts; S3, directory, none | 2.8 M states, 64 s |
| `Export_receipts` | One artifact per destination but for visible failures, links equal receipts, exports end | 2 exports, 2 drafts, 2 processes, 1 restart, a draft in place or not, both databases | 294 k states, 38 s |
| `Rate_limits` | Limits and refusals are exact in memory and within a factor of two in Redis; idle hosts are forgotten | 2 hosts, limit 2, window 3, three windows long, 2 Redis failures of a host per window | 3.4 M states, 50 s |
| `Calls_deadline` | Replays are justified, reports honest, every call ends | retries 0, 2 and 5; headers -1 s, 0, 0.5 s, 10 s; deadline 4 s | 733 k states, 12 s |

Why the bounds are enough to meet the cases of interest: two workers are what it takes to
repeat a delivery beside its first run, two jobs of one request and two incidents to
delete one incident and leave the other's job alone, or without Celery to drop it; three
PATCHes give a chain of changes with an overlap inside; a deadlock of batches needs two
keys in two orders; an export that fails needs a second one to find or not to find its
receipt, on its own or on another process; a fixed window can be overlapped twice within
three; a deadline of 4 s falls between and into the sleeps of three retries; one slot for
two devices makes one push queue behind another of the longest kind while the token ages;
three logs of two timestamps include two of the same, and three archives an upload of the
same logs beside a torn one and after a later log. A second webhook in
`Notifications_apns` passes too, but only lengthens the run to two minutes. `Rate_limits`
counts Redis requests up to one above the limit, since further counting changes no answer.

Deadlock checking is off in every run, because the requests of each instance are
finite in number: the system may stop when all are answered (in `RateLimiter`, when
the clock stops; in `Notifications` the clock and the devices go on for ever, so there is
nothing to check). That requests do end is stated as liveness: `LocksAreReleased`,
`DeliveriesEnd`, `ExportsEnd`, `CallsEnd`.

### Fairness

- `AnalysisJobs`: weak fairness of a worker's own steps (`Proceed`: an idle worker takes a
  message, the event loop runs its task) and of an open request's answer (`Respond`).
  Strong fairness where a step waits for a row lock that others may take in between
  (`GetLock`, `DeleteCascade`, `RefuseJob`): PostgreSQL queues the waiters of a lock.
  The deadlock detector runs (`BreakDeadlock`). The model's call ends because
  `ResilientLLMClient` has a deadline, which `ProviderCalls` shows. None is assumed
  of new requests, deletions, failures, crashes or redeliveries.
- `AlertIngestion`: a handler goes on (`Handle`; a failing database, an unanswered COMMIT
  and a crash are in `Disturb`, on which nothing counts), and the provider sends an
  unanswered batch again as long as its attempts last.
- `PostmortemExport`: strong fairness of each request, because `asyncio.Lock` and the
  row lock serve waiters in turn; the POST ends because the HTTP client has timeouts.
- `Notifications` and `LogArchive` state safety only and assume no fairness.
- `ProviderCalls`: the event loop and its timers run. A model's service need not
  ever answer; an exporter's request ends by the client's timeouts.

### Disagreements between the code and what is said of it

Three runs check one property each that a comment, a test or the README states, and
TLC finds a behaviour of the code against it.

1. `Jobs_late_failure`, `SucceededIsFinal`. The comment in `domain/jobs.py:24-26` says
   that redelivery can retry safely. One repeated delivery suffices: a run fails and
   rolls back, its `except` body reads the job (queued), the other run locks the row,
   succeeds and commits, and the `except` body writes "failed" over "succeeded". The
   result stays (`ResultBacked` holds), the status is wrong.
2. `Ingestion_queue_down`, `NewIncidentsNotified`. The README says that Slack, Teams and
   APNs notify on new incidents. With `AUTO_ANALYZE` and a broker that refuses, the
   webhook raises after its commit: the scheduled notifications are lost with the
   response, and the next attempt sees only duplicates.
3. `Calls_malformed`, `MalformedGetsFallback`. The README says that malformed responses
   trigger a fallback. An answer such as `{"choices": [null]}` raises AttributeError,
   which `ResilientLLMClient.analyze` does not catch: the analysis fails.

### Exceptions the properties have to make

Properties that hold say just as much about the code by what they exempt.

- `NoStrandedJob` exempts `abandoned` jobs unless `Durable`. The row is committed before
  it is published and nothing looks for queued rows later, so an API process that dies in
  between leaves a job queued for ever, although the README calls the queue durable.
  Without Celery less is enough: when a webhook with two new incidents queues the first
  one's job and then finds the second deleted, the job of the first is dropped with the
  response; and a task whose failure cannot be written because its job is gone drops the
  tasks behind it.
- `ReceiptsAreHonest` promises the announcement of what a receipt calls new, in order, but
  for deliveries in `lost`: the receipt is out before the first task starts, so a crash or
  an analysis that raises leaves the last incidents unannounced, and as the batch was
  answered the provider does not send it again. An unanswered COMMIT (`CommitUnsure`) does
  the same without a receipt: the next attempt sees only duplicates.
- `DashboardAgrees`, `TimelineChain`, `EmbeddingFresh` and `StampsStay` are conditional
  on row locks. On SQLite two overlapping PATCHes read the same row, one writes the
  status and the other, whose status equals what it read, does not: the incident is open
  with a `resolved_at`, or resolved without.
- `EmbeddingFresh` vouches for the label only when all processes run one model. With two,
  an analysis whose copy already bears its own model's label leaves the column out of the
  UPDATE, while another one has changed it: a vector under the wrong model's name, which
  semantic search compares if the dimensions happen to agree.
- `OneIncidentPerOccurrence` exempts `Nameless` alerts: Grafana alerts without fingerprint
  but with a start time have the time as their only identity, so that two different
  ones that start together become one incident.
- `TokenAgeBounded` exempts tokens taken while the clock was ahead, which Apple refuses
  as long as they are from the future, and its bound grows with devices and pushes: see
  section 2 for how many keep it below an hour.
- `EveryoneIsTold` exempts every device when the APNs key cannot be used; a failed read of
  the devices loses the webhooks too (`ReadFails`), and a restart loses the task.
- `ArchivesAccountedFor` exempts entries that share a timestamp: their order may differ
  between two reads, and unchanged logs then make two objects. `ReceiptBacked` exempts a
  demo file that another archive of the same logs has emptied.

## 4. Proofs

Every module of the table has its theorems in the module `...Proofs` beside it. They hold
for any sets of jobs, requests, hosts, devices and so on, and any values of the bounds,
under the assumptions listed below. `Invariance` is `Spec => []IInv` for the inductive
invariant `IInv` of the module, `TypeCorrect` is `Spec => []TypeOK`.

| Module | Theorem | Property |
| --- | --- | --- |
| `AnalysisJobs` | `NeverStaleRunning` | `NoStaleRunning` |
| | `ResultsAreBacked` | `ResultBacked` |
| | `NeverOrphaned` | `NoOrphans` |
| | `CommitsAreSafe` | `CommitIsSafe` |
| | `NeverStranded` | `NoStrandedJob` |
| | `NeverRepeatedAnalysis` | `NoRepeatedAnalysis`, of steps |
| | `Implementation` | if `Reliable`: `Spec => Ledger!Spec` |
| | `SuccessIsFinal` | if `Reliable`: `SucceededIsFinal`, of steps |
| | `ResultIsKept` | a job's link to its analysis is never cut while the job exists, of steps |
| `IncidentRow` | `DashboardIsRight` | `DashboardAgrees` |
| | `TimelineIsChain` | `TimelineChain` |
| | `SearchIsFresh` | `EmbeddingFresh` |
| | `StampsAreKept` | `StampsStay`, of steps |
| `AlertSources` | `KeysAreOccurrences` | equal keys mean one occurrence, for alerts that are not `Nameless` |
| `AlertIngestion` | `BatchesAreAtomic` | `BatchIsAtomic` |
| | `ReceiptsAreTrue` | `ReceiptsAreHonest` |
| | `OneIncident` | `OneIncidentPerOccurrence` |
| | `Implementation` | `ImplementsBook` |
| | `NobodyForgotten` | if `Undisturbed`: an incident has been announced, or its delivery still has to respond or to run its task |
| `PostmortemExport` | `NeverSilentDuplicate` | `NoSilentDuplicate` |
| | `LinksAlwaysAgree` | `LinksAgree` |
| | `NoWriteIsLost` | `VersionCountsWrites` |
| | `ReceiptsAreAlwaysEarned` | `ReceiptsAreEarned`, of steps |
| `Notifications` | `NobodyIsMissed` | `EveryoneIsTold` |
| | `NoTokenOutlasts` | `TokenAgeBounded` |
| `LogArchive` | `ReceiptsAreBacked` | `ReceiptBacked` |
| | `AccountIsComplete` | `ArchivesAccountedFor` |
| `RateLimiter` | `LimitsHold` | `NeverTooMany` |
| | `RefusalsAreEarned` | `RefusedOnlyWhenFull` |
| | `IdleHostsAreForgotten` | `IdleHostsForgotten` |
| `ProviderCalls` | `ReplaysAreEarned` | `ReplaysAreJustified` |
| | `ReportsAreTrue` | `ReportIsHonest` |

(`KeysAreOccurrences` is in `AlertIngestionProofs`.)

### Assumptions

TLC evaluates every assumption in the runs. Most say only that a constant has its type and
that a value that stands for "none" is not one of the others. The ones with content:

- `HorizonAssumption`: the model tells all ages up to `OldestToken` apart. It restricts no
  deployment: `Horizon` is chosen large enough. What the environment has to keep is in
  `LongestPush`, `MaxAhead` and `MaxBehind`, in which `TokenAgeBounded` is stated.
- `PayloadAssumption`: a payload is a list, in which only Grafana has several alerts (the
  other adapters take one object), and CloudWatch always tells a state, as its messages do.
  The adapter would take a missing state for ALARM, and build another key without it.
- `JobsAssumption`: no request makes two calls for one incident, as a webhook does not.
- `CallsAssumption`: `llm_max_retries` is 0 to 5, which `Settings` enforces.
- `LimiterAssumption`: limit and window are positive.
- `NotificationsAssumption`: finitely many devices, positive slots, longest push and refresh.
- Hypothesis `Reliable` of two theorems on `AnalysisJobs`: no delivery is repeated while the
  first runs, a publication or a commit that raises did not happen, and locking a row fails
  only where no worker process dies. Workers may crash without limit, lose jobs to time
  limits, API processes may die and the database may be away. TLC finds `SucceededIsFinal`
  violated as soon as one of these conditions is dropped: each then lets the failure path
  write over a success, as `Jobs_late_failure` shows for the delivery that is repeated.
  A failed SELECT alone is harmless; together with a crash after the commit and before the
  acknowledgement it meets a job that was delivered again after its success.
- Hypothesis `Undisturbed` of `NobodyForgotten`: the process does not die, a COMMIT that
  raises has not happened, and `auto_analyze` is off. All three are needed: a crash loses
  the tasks of the response, before or after the receipt; a COMMIT that happened and raised
  leaves incidents that the next attempt takes for duplicates; and with `auto_analyze` a
  queue that is down, a second commit that fails or an incident deleted meanwhile makes the
  handler raise before it responds (`Ingestion_queue_down`), or an analysis among the tasks
  raises. Everything else may go wrong: statements and commits that fail, conflicts on
  insert, deadlocks, deletions, senders that send again.

### Arguments

None of the properties is inductive by itself. What the invariants add:

`AnalysisJobs`

- `Handed`: a worker that is not idle has a job, and a copy of its row while it works.
- `Drafted`: while the row is locked, the copy equals the committed row except for
  "running". So a commit overwrites nothing it has not read.
- `Exclusive`: two workers never hold the lock of one job. Needed for `Drafted`: the
  commit of one worker must not falsify another's copy.
- `Shielded`: a stored analysis holds its incident against deletion. Needed for
  `NoOrphans` and `CommitIsSafe`.
- `Unborn`: before the request there is neither a row nor a message, so `QueueAnalysis`
  overwrites nothing.
- `NeverRequeued`: a job that the failure path read as failed does not become queued
  again. Needed because `WriteFailed` leaves the status column alone when its copy
  already says failed: only then is the row certain not to stay queued, unbacked.
- `Worked`: a job whose task is over is not queued; so a worker that acknowledges, and a
  task that raises because its job is gone, strand nothing of their own.
- `Kept`: if `Durable`, nothing has been abandoned.
- `Chain`: a queued job is backed by its request, a message or a worker *that owns its
  message*. `NoStrandedJob` counts every worker that has the job in hand, and that
  is not inductive: a worker whose message was taken back may crash without putting
  it back.
- For the ledger, if `Reliable`: `Sole` (a job is with its request, in the broker or with
  one worker), `Unpublished` (until it is published nothing has happened to it), `NotDone`
  (the failure path is not in a job that has succeeded) and `Fresh` (where no worker dies,
  no delivery is of a job that has succeeded); together they are `Calm`. The ledger's view
  then takes each step as one of its own: `QueueAnalysis` submits, `RefuseJob`,
  `WriteFailed` and `CommitResult` settle or recover, `DeleteCascade` removes, what adds
  to `abandoned` strands (`Durable` excludes it), the rest is invisible. That a stranded
  job never comes back is `Stranded` with `Worked`: nothing carries it that could.

`IncidentRow`. `Exclusive`: under FOR UPDATE what a PATCH has read is still the row, and
nobody else is at it. `Acknowledged` needs no locks: an incident in work has been
acknowledged, and no copy can take that back, because the ORM writes only what differs.
`Closed` ties the status to `resolved_at`. `StampsStay` follows from `Exclusive` and
`Acknowledged` at the commit: the copy is the row, and `Assigned` sets a stamp only where
there is none or the status changes; which time it writes does not matter. `Embedders` is
what the share lock of an analysis gives: the title stays, and only vectors and labels of
other analyses come.

`AlertIngestion`. `Booked` names each incident by the alert that opened it and gives it
that alert's row; `OneRow` says a key has one row among those any session can see;
`Opened`, `Answered`, `Looked` and `Tasked` say where an attempt stands between its batch,
its open transaction and its results. `InOrder` says that the tasks of an answered
delivery have started in order up to those that wait, or that were lost: without it
`ReceiptsAreHonest` could not tell a task that was dropped from one skipped. `Commit` and
`CommitUnsure` are then an `Enter` of the book with the keys of what the transaction
inserted, `RunTask` an `Announce`, and everything else but a deletion a stutter. `Told`,
the statement of `NobodyForgotten`, is inductive on top of `IInv`: a commit moves its
incidents and its handler to the loop before the response together, that loop has nothing
that can raise when `auto_analyze` is off, the tasks of a response are all that its batch
created, and a task leaves the list only by starting.

`PostmortemExport`. `Locked` says what the two locks exclude, `Copied` what a session may
rely on after its read, `Handing` that an export posts only while there is no real receipt.
`Owned` is `NoSilentDuplicate` seen from the artifacts: each that is no orphan is recorded
or in the hands of the export that made it, of which `OneAtWork` allows one.

`Notifications`. `Phase` fixes what each stage of a task implies for its channels and
devices. `Pace` bounds the age of a token by counting: when a push starts, so many others
have ended or been under way for longer, `Slots` of them per `LongestPush`, and so the
token is at most `r` times `LongestPush` older than when it was fetched (`InTime`). The
number of rounds cannot exceed `Rounds`, which gives `OldestToken`.

`LogArchive`. `Recorded` puts the event after the upload and before the answer, `InStore`
and `Torn` tell from the requests what must be in the store and what may be damaged, `Made`
that every object was made by a request. That two archives of unchanged logs read the same
content follows from `InOrder`: a sorted list of given elements is determined when their
timestamps differ (`SortedOnce`).

`RateLimiter`. In memory, `InMemory`: a host's window is its history and before it only times
that are a `Window` old; so the window that a request finds is exactly the history
(`WindowIsHistory`), though the cleanup may have emptied it. `Kept` keeps all
windows within a `Window` of the last cleanup. In Redis, `Fixed` splits the history where the
current window began: before it at most `Limit` times, since then at most what the counter
says, and with those that failed at least as much.

`ProviderCalls`. `UnderWay` ties the attempt counter to the log of answers, `Justified` says
all answers but the last could be replayed, `Reported` what the log says of the report.

A step is proved to preserve `IInv` action by action; lemmas state what each action leaves
alone, then what it does to the conjuncts it can disturb. The temporal theorems combine
`Init => IInv` and the step by PTL.

### Only model-checked

- Liveness: `LocksAreReleased`, `DeliveriesEnd`, `ExportsEnd`, `CallsEnd`, and the fairness in
  `ImplementsLedger`, by which a queued job settles. Fairness and ENABLED are out of the
  prover's reach.
- Induction over data is out of reach as well. Nothing above needs it: counting and ordering are
  stated with sets, CHOOSE and quantifiers, and no module has a RECURSIVE operator.

## 5. Not modelled

- Text: redaction, prompts, markdown, ADF and storage formats, demo heuristics, the bodies
  of notifications, titles and severities of normalised alerts.
- Ranking in search and the means of the dashboard: floating-point arithmetic over lists
  that no other state depends on. Lexical search and paging: reads of text.
- Collisions: `_id` and the archive's digest are taken to be injective. For `_id` that
  includes the joint between its parts: parts that hold the separator could join to the
  same key.
- How far the clocks of two processes differ in what readers sort by them (timeline, list).
- Authentication, configuration, error bodies, telemetry, migrations, deployment: no state
  that changes. The settings that the modules need are their constants.
- How long a lock is held: on SQLite an analysis keeps the whole database locked while
  its embedding is awaited. The models let every other writer fail meanwhile, and bound
  no duration.
- `app.state.export_locks` gains a lock per incident and never loses one; nothing promises
  a bound.

## 6. Plan

The modules of the plan exist and their safety is proved. What could be added, by weight:

1. `NoStrandedJob` tells who carries a job; the step from there to "it settles" is checked
   as liveness only. A ranking of a job's remaining steps under `Reliable` would at least
   prove that every step of its carrier comes closer to the end.
2. `RateLimiter` with several processes in memory mode, which production settings exclude.
