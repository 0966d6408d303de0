# Verification of the face-recognition event system

This directory specifies, in TLA+, the parts of the repository whose correctness depends on
the order of steps taken by several processes, on failures or on time. The specifications are
model-checked with TLC and their main results are proved with TLAPS. Every definition was
written from the source; `PROJECT.json` maps each one to the lines it stands for.

## The system

Photos of events are indexed (faces detected, filtered, embedded and stored), then searched by
face. An API process per replica, any number of indexing workers, PostgreSQL with pgvector, a
Redis server, an S3 store and an Angular front end take part.

| Component | State it keeps | Operations | Interacts with |
| --- | --- | --- | --- |
| Indexing queue (`redis_streams_queue.py`) | a stream, one consumer group with its cursor and pending entries (delivery count, idle time), a dead-letter stream | publish, read (reclaim, else new messages), acknowledge, dead-letter | trigger, workers, supervision |
| Indexing worker (`indexing_worker.py`, `process_image_message.py`) | its position in `run_worker`, its batch and the delivery counts read with it | one transaction per message, acknowledge, retry or dead-letter | queue, PostgreSQL, storage, models |
| Indexing trigger (`index_event_images.py`) | the images it selected and has not published yet | select, publish one by one | PostgreSQL, queue |
| Tables of the indexing (`event_repository_pg.py`, `face_embedding_repository_pg.py`) | `event_images`, `face_embeddings`, `rejected_faces` | save embeddings, record rejections, mark done, list what needs indexing | workers, trigger, import, search |
| Search quota (`redis_quota.py`) | one counter per actor, with a time to live | check and consume | search |
| Search by face (`search_by_face.py`, `routers/search.py`) | none between requests | quota, detection, face choice, vector search, aggregation, audit | quota, models, PostgreSQL, audit |
| Audit log (`postgres_audit_log.py`) | `search_audit_log` | add a row in the request's transaction | search |
| Event import (`event_import.py`, `admin_events.py`, `import_folder.py`) | `events`, `event_images`, stored objects | create an event, import and index a photo | storage, PostgreSQL, models |
| Queue supervision (`redis_queue_monitor.py`, `indexing_queue.py`) | none: reads the queue | collect the status, diagnose a stall | queue, dashboard |
| Statistics, event catalogue (`statistics_pg.py`, `event_catalog_pg.py`) | none: reads the tables | aggregates, pages, detail | tables, front end |
| Face quality and framing (`quality.py`, `bounding_box.py`, `insightface_detector.py`) | none | accept or reject a face, clamp a box | worker, search |
| Web import queue (`event-import.ts`) | items with their status, the request in flight | submit, progress, next photo, cancel | import route |
| Web camera search (`camera-search.ts`) | media stream, timer, request in flight, generation | start, stop, change device, cycle, back-off | search routes |
| Web query search (`search.ts`) | photo, faces, chosen face, results | choose a photo or a face, submit | search routes |
| Web dashboard (`dashboard.ts`) | statistics, queue status, the watch | trigger, poll, stop | indexing, statistics, workers routes |
| Web event catalogue (`events.ts`) | pages loaded, detail | refresh, load more, open | catalogue routes |

What makes the behaviour hard:

- **Concurrency.** Workers interleave between any two Redis commands or transactions. Replicas
  of the API interleave on the quota. The CLI imports beside the API.
- **Failure.** A worker may die anywhere and is restarted by its container. Any call may raise,
  before or after it took effect. A publication may stop half-way.
- **Time.** A message idle for five seconds is taken by whoever reads next, whether or not its
  worker is still at work. Quota keys expire. The camera waits.
- **Ordering.** In the browser, answers come back after the user has moved on.

What would make each component correct:

- *Queue and workers*: a published image is indexed at least once or dead-lettered, and never
  closed before; retries are bounded; every message is closed in the end.
- *Trigger and tables*: an image that would not be selected is searchable for the model version
  in use, through partial publications and rolling upgrades.
- *Quota*: an actor gets no more than its share, and never nothing for ever.
- *Search and audit*: an answer that was given is audited.
- *Import*: a photo has one row; a failed import leaves something the trigger can repair.
- *Supervision*: a stall that is reported is one.
- *Front end*: what is shown belongs to what is chosen; one upload, one capture loop, one
  camera at a time; after a stop nothing goes on.

## The modules

`Domain` declares the images and the model versions, with the helpers they share. `Orders` holds
lemmas for the proofs: the places that a strict total order gives to the elements of a finite set.
`RedisServer` puts the two uses of the Redis server side by side, the pipeline's queue and the
counter of the quota, with the fairness of both: they share no key and no process waits for both, so
that a behaviour follows one of them. `MCRedis` gives it the constants of `MCIndexing`.

### The indexing pipeline

| Module | What it is |
| --- | --- |
| `RedisStream` | the stream, the group and the dead-letter stream; each Redis command of `RedisStreamsQueue` is an operator used by the actions below |
| `ImageIndex` | the tables: the transaction of `ProcessImageMessageUseCase` and the query of the trigger |
| `IndexingPipeline` | composes both with the worker processes and the API processes |
| `IndexingService` | the abstract specification: requests, served, abandoned, closed |
| `MCIndexing` | values of the constants for TLC |
| `IndexingPipelineProofs` | theorems |

A step of `IndexingPipeline` is one command sent to Redis or one PostgreSQL transaction, so any
interleaving between two of them, and any death there, is a behaviour of the model.

| Code | Action |
| --- | --- |
| `list_images_needing_indexing` | `SelectImages` |
| the `XADD` loop of `TriggerIndexingUseCase` | `PublishImage`, `AbandonRequest` |
| `XAUTOCLAIM` of `read_pending` | `Reclaim`, `NothingToReclaim` |
| `XREADGROUP` of `read_pending`, the sleep | `ReadNew`, `NothingNew` |
| `_delivery_count` for each message of the batch | `CaptureCount` |
| `_process_one` in `session_scope` | `ProcessOne`, `ProcessOneFails` (rollback) |
| `acknowledge` | `Acknowledge`, `AcknowledgeFails` (executed or not) |
| the `except` clause | `LeaveForRetry`, `DeadLetter` then `AcknowledgeDeadLetter` |
| the process dies, or an exception leaves `run_worker`; `restart: unless-stopped` | `Crash` |
| idle times in Redis | `TimePasses` |

Abstractions: message ids are positions in the stream; the owner of a pending entry is left out
because no call depends on it; idle times stop at the threshold, and delivery counts, dead-letter
entries and recorded rejections at a cap beyond which the code tells nothing apart; an image's
accepted and rejected faces are constants, for the detector and the filter are deterministic; the
images exist from the start. A batch is kept as a set: both read commands return messages in id
order, and the worker handles the smallest first. `XAUTOCLAIM` looks at a bounded number of
entries; the model's takes the oldest idle ones, which is what it returns as long as fewer than
ten batches are pending.

### The search quota

`SearchQuota` follows one actor's counter. `Incr` and `Expire` are separate steps of any number
of concurrent requests; `IncrUnanswered` and `ExpireUnanswered` are a lost reply, a failing
command or a dead replica; `QuotaTick` is time, with the key's expiry. `granted` and `recent` are
history: what the key let through, and the searches of the last `Window` ticks, each by its age and
its rank in its key. `SearchQuotaProofs` holds its theorems.

### The event import

`EventImport` follows processes that import batches of files into events. `FolderImport` adds the
command that imports a tree of folders by the same use case. `MCEventImport` gives the constants,
`EventImportProofs` holds the theorems of both.

| Code | Action |
| --- | --- |
| `create_event` | `CreateEvent`, `CreateFolderEvent` |
| `import_images` up to its loop | `Receive` |
| the `SELECT` by `content_hash` | `CheckNew`, `CheckDuplicate` |
| `ensure_bucket`, `put_object` | `Put` |
| the `INSERT`, its commit, the uniqueness constraint | `Insert`, `InsertRefused` |
| the second `session_scope` | `Index`, `IndexRaises` (a photo that cannot be decoded) |
| an exception or a death in any of them, executed or not | `Fails` |
| the trigger and a worker, later | `Repair` |
| `main` of the command, without and with `--event-id` | `Main`, `MainInEvent` |
| `_import_folder_for_event`, the loop over the subfolders | `ReadFolder`, `FolderDone`, `FolderFails` |

The route is a coroutine that does not yield while it imports: a process imports one photo at a
time, and importers are processes (replicas and commands). A row and its object are described by
the same record, since the key holds the event, the hash and the suffix. `Repair` abstracts the
pipeline to what `IndexingService` promises. The titles, dates and addresses that the command reads
in the folders' names are left out: nothing looks an event up by them.

### A photo and its faces

`FaceFilter` holds operators only: from a frame of the network, in fractions of a pixel, to the
`BoundingBox` within the image (`clamp_bbox_to_image`), the tests of `assess_face_quality` in their order
and the indexes of a photo's accepted and rejected faces. `MCIndexing` computes the faces of its
images with them, at the rules' limits: a frame that begins outside the image and keeps 40 pixels in
it, one of which the edge leaves 39 and which is rejected. `FaceFilterProofs` holds its theorems.

### The search

`Search` follows concurrent requests through `/by-face` and `/faces`. A step is one statement or one
external call, so that indexing and deletions happen between any two.

| Code | Action |
| --- | --- |
| `get_current_actor_id`, `_read_within_size_limit` | `Receive`, `DetectQueryFaces` (through `Admit`) |
| `check_and_consume` | `Consume` (its own steps are in `SearchQuota`) |
| `detect_faces`, `_resolve_face_index`, `embed_face` | `Select` |
| `search_top_k` | `Look`: any `ann_top_k` eligible rows, for an HNSW index may miss some |
| `get_events_by_ids`, `aggregate_matches_by_event`, `record_search` | `Load` |
| `build_signed_url` for each match | `Sign` |
| the end of `get_db_session` | `Commit`, before or after `Answer` |
| an exception or a death | `Fails` (rollback; a commit that fails may have been done) |
| a worker, the owner of the events | `Index`, `DeleteEvent` |

`commitFirst` is chosen once per behaviour: FastAPI ends a dependency with `yield` before or after it
sends the answer, depending on its version, which the repository does not pin to one side.
Similarities are integers given by the model; `lambda * log(1 + n)` is a table, `Bonus`. The hits
that pass the threshold keep their positions among the hits (`Candidates` is a function on some of
them): the aggregation only compares positions. The events are listed by `Rank`, the number of those
that outrank them: a greater score, or an equal one and an earlier face, which is what a stable
sort of the groups in the order of their first face gives.
`SearchProofs` holds the theorems.

### The readings

`Readings` follows the statistics, the list of events and the detail of one, statement by statement,
each seeing what is committed at its instant. `QueueMonitor` follows the queue's status, command by
command, with the idle times that Redis keeps; the group exists once a process has started since
Redis was emptied (`grouped`), and a lag that Redis cannot compute counts as 0. `Supervision` puts
the two side by side: they share no state, and a behaviour follows one of them. `MCSupervision`
gives the constants, `SupervisionProofs` holds the theorems.

| Code | Definition |
| --- | --- |
| `PostgresStatisticsRepository.collect`, `list_events`, `get_event_detail` | `StartReading`, then one `Read` per statement; `Statements` has their order, `Result` what each returns |
| the guards of `SystemStatistics` and `EventCatalogPage` | `StatisticsRaise`, `PageRaises` |
| an import, a worker's transaction, a search, a deletion | `ImportImage`, `IndexImage`, `RecordSearch`, `DeleteEvent` |
| `XINFO GROUPS` (with the group, or without), `XINFO CONSUMERS`, `XLEN` | `FindGroup`, `FindNoGroup`, `CollectWorkers`, `StreamLength` |
| `is_active`, `is_working`, `backlog`, `is_stalled` | the operators of these names |
| the worker's poll, its batch, its death, time | `Poll`, `Handle`, `Die`, `Tick` |

### The web interface

A step is what JavaScript runs between two awaits, callbacks or events, so that answers arrive in any
order and after anything the user does. `FrontEnd` puts the four screens side by side: the
application shows one at a time. `MCFrontEnd` gives the constants, `FrontEndProofs` holds the theorems.

| Module | Code | Actions |
| --- | --- | --- |
| `CameraSearch` | `start`, `stop`, `ngOnDestroy`, `onDeviceChange`, `onVisibilityChange` | `Start`, `Stop`, `Leave`, `OnDeviceChange`, `Hide` and `Show` |
| | the two awaits of `openStream`, their rejection | `Granted`, `Opened`, `NotOpened` |
| | the timer, `captureFrame`, the two requests | `TimerFires`, `Captured`, `Detected`, `CycleEnds` |
| `QuerySearch` | `onFileSelected`, `selectFace`, `onSubmit` | `ChooseFile`, `ChooseNoFile`, `SelectFace`, `OnSubmit` |
| | the callbacks | `FacesArrive`, `FacesFail`, `SearchEnds` |
| `EventPages` | `refresh`, `loadMore`, the callbacks of `load` | `Refresh`, `LoadMore`, `PageArrives`, `PageFails` |
| | the service, other sessions | `PageRead`, `EventCreated` |
| `ImportQueue` | `onSubmit`, `cancelRun`, `ngOnDestroy` | `OnSubmitPhotos`, `CancelRun`, `LeaveImport` |
| | `processNext` and the callbacks | `EventCreatedAnswer`, `CreationFails`, `UploadProgress`, `UploadAnswered`, `UploadFails` |
| | the service, heard or not | `ServiceHandles` |

In `ImportQueue`, `subscribed` are the requests whose answers are listened to, `awaited` is the
`inFlight` that a cancellation unsubscribes: that no other is listened to is a result
(`QueueIsSequential`) and not an assumption.

Delays are left out: a timer that is set may fire at any time. Calls pending together are bounded by
sets (`Openings`, `Cycles`, `Calls`) or by `MaxLoads`.

## What is checked

| Run | Constants | Checks |
| --- | --- | --- |
| `indexing` | 2 images (one with a face of each kind, one with none), 2 workers of different versions, 1 API process, 2 messages, batches of 2, 2 attempts, 1 death | `TypeOK`, `NothingLost`, `RetryBudget`, `SearchableOrSelected`, refinement `ImplementsService` |
| `redis` | 1 image with a face of each kind, 2 workers, 2 messages, batches of 1, 2 attempts, 1 death; 3 requests at a time, limit 3, window of 4 ticks, 2 failed commands | `WindowBudget`, `BurstBound`, `EveryMessageClosed`, `QuotaReopens` |
| `indexing_stolen` | the queue of `redis`, no death | `NoMessageStolen`: **violated** |
| `indexing_abandoned` | batches of 2, no death | `AbandonedAfterAllAttempts`: **violated** |
| `search_quota_sliding` | 2 requests, limit 2, window 3, no failure | `SlidingWindow`: **violated** |
| `search_quota_lockout` | the same, one failure | `NeverLockedOut`: **violated** |
| `event_import` | an importer of the API and a command with 3 trees of folders, 2 events, 2 photos (one unreadable), 2 suffixes, batches of one or two files, 3 requests, 2 failures | `OneRowPerPhoto`, `EveryRowStored`, `ResultsAreTrue`, `ImportedOnce`, `OrphansBounded`, `LeftByFailures`, `NothingLeftBehind` |
| `search` | 2 requests among 10 queries of 2 actors, 2 events, 4 faces of 2 versions, `TopK` 3, 2 results, quota 1, 1 failure | `TypeOK`, `AnswersAreJournaled`, `LooksAreCounted`, `EvidenceQualifies`, `BestEvidence`, `LimitKeepsTheBest`, `GoneEventsOmitted` |
| `readings` | 2 events with an image each, 2 versions, pages of 1 or 2, 2 searches; 2 consumers, 2 messages, batches of 2, idle thresholds of 2 and 3 ticks | `TypeOK`, `DiscardedOnce`, `OnlyARaceRaises`, `MoreIsTold`, `FacesOfIndexedImages`, `ScreensAgree`, `StalledIsNobodyPolling`, `BacklogCountsOnce` |
| `queue_stalled` | the same | `StalledIsNoSlowness`: **violated** |
| `front_end` | 2 openings and 2 cycles pending; 3 photos with no, one and two faces, 3 calls; 4 events, pages of one, 2 pages pending; runs of up to 3 photos, 2 runs | `TypeOK`, `LoopIsSequential`, `LoopGoesOn`, `OnlyCrossedOpeningsLeak`, `ShownBelongs`, `PagesAreContiguous`, `QueueIsSequential`, `OutcomesAreTrue`, `EveryRunEnds` |
| `camera_left_on` | the same | `CameraOffWhenStopped`: **violated** |

Why the bounds are enough. Two workers are needed for a message to be reclaimed from a live
worker, and two messages in one batch for it to be reclaimed before its turn comes. The same
image can be published twice, so that two messages and two workers meet on one row. Two attempts
distinguish the first failure from the last. One death in addition to two workers reaches every
pair of states in which one dies while the other is anywhere. The idle threshold is one tick:
whether an entry is idle enough is the only thing the code sees of time. A third message adds
nothing that the second, behind a cursor and in the same batch, does not show. For the quota, a
window of several ticks and twice the limit of searches fill every position of two successive
keys. For the import, two importers race on one photo, in one event or two and under one name or
two, before or after a photo that fails; the third request is the retry.

For the search, the similarities are chosen so that the best face, the best event and the order of
the hits disagree: two faces of one event outweigh the single best one of the other, a face of an old
model is the most similar of all, and another query has all faces equal. Two requests share an actor
whose quota is one, or do not. For the readings, each of
two events has an image with a face of each kind, so that the dashboard's sums have two terms; every
statement is a place for a writer to come. Two consumers and two
messages put a message in another batch than the one the reading saw. The `ActiveThreshold` is larger
than `PollInterval`, as in the code, and time stops there for a consumer. For the screens, one more
pending call than the code means to have is enough to see it overtaken; a run of three photos has a
photo before and one after the one in flight, and a second run gets the late answers of the first.

What the passing runs show. `NothingLost` and `ImplementsService` hold although messages are
stolen, counts are stale, acknowledgements fail and workers die: processing is at least once, and
a request is never closed before it was served or abandoned. `RetryBudget` says by how much the
limit can be exceeded: by the failures being handled and those that a death interrupted.
`SearchableOrSelected` holds in a rolling upgrade because a transaction writes all the embeddings
of an image for a version or none. `BurstBound` is the guarantee the quota does give for any
minute: twice the limit. `OneRowPerPhoto` and `ImportedOnce` hold although the duplicate test and the
insertion are apart: the constraint decides, and the loser of a race fails. A failure may leave an
object without a row (`OrphansBounded` says how many), never a row without an object
(`EveryRowStored`), so that the trigger can index a row that a failed import left pending.
`LeftByFailures` counts those rows: the row is committed before the indexing, and a new import of the
photo reports a duplicate without indexing it, so that each failure may leave one until a worker
repairs it, and nothing else does: no race, no refused insertion, no import that ran to its end.
The command imports beside the importers, by the same use case, and `NothingLeftBehind` adds that
the folders it went through are complete, whatever failed before in another process.

`AnswersAreJournaled` is as strong as the framework allows: when the session ends before the answer,
an answer given has its row; in the other order a failing commit leaves an answer without a row, and
only the content of the rows that exist is right. A row may also be that of a search whose commit was
done and reported as failed. `LooksAreCounted` includes the searches that fail
afterwards. `EvidenceQualifies` and `GoneEventsOmitted` hold although each statement sees another
state of the tables. `LimitKeepsTheBest` is stated for limits that are not negative: the route does
not refuse the others, which cut the wrong end of the list.

`OnlyARaceRaises` says what the guards of the read models are worth: at rest they never raise on the
code's own queries, so that an error means that a writer came between two statements, or an offset
beyond the end. (`system_statistics.py` takes a raise for a wrong query; it may be a race.)
`FacesOfIndexedImages` holds during races because the detail reads the faces before the images, and
would not in the other order. `ScreensAgree` compares the three screens at rest: the detail of an
event has the counters of its row in the list, and the dashboard's images, indexed, pending and
discarded are the sums of the events'. Its faces are too when a single model version is in use: the
dashboard counts the faces of every version, the catalogue those of the current one.
`StalledIsNobodyPolling` says what a stall means: nobody polls, every consumer is dead or at work.
That the second happens, which the code says it does not, is the run `queue_stalled`.

`LoopGoesOn`, `QueueIsSequential`, `OutcomesAreTrue` and `EveryRunEnds` hold whatever the user does.
`LoopIsSequential`, `OnlyCrossedOpeningsLeak`, `ShownBelongs` and `PagesAreContiguous` name what they
exclude by a history variable, and hold otherwise: the code has no generation for an opening
(`crossed`), restarts its loop when the tab returns during a capture (`rewoken`), and never cancels a
query (`overtaken`) or a page (`shifted`). In those cases the model does show two loops, a stream that
nobody stops, results of a face that is no longer the chosen one, and pages with a hole or an event
twice. The first of them contradicts a comment of the code, and has the run `camera_left_on`.

What the violations show is told by the findings of `PROJECT.json`: replicas do take each other's
messages in flight; a message can be dead-lettered after fewer attempts than the limit; the
quota's window does not slide; a lost reply locks an actor out; a queue is said to be stalled
although its worker is only slow; a camera that was stopped is on.

**Deadlock** is checked in the runs of the pipeline and of the quota: the trigger, the clock or a
worker can always step. The import, the searches, the readings and the screens may really stop, once
their bounded requests are answered.

**Fairness.** `ServerSpec` joins the conditions of the pipeline (`FairSpec`) and of the quota
(`QuotaFairSpec`). That of the pipeline asks that each worker process is scheduled (it is an
infinite loop restarted by the container) and that time passes. Nothing is asked of the API: no
one has to press the button. Failures are part of a worker's step, so that an attempt may fail
each time; deaths are bounded by `MaxCrashes`, without which no message need ever be closed,
since only the `except` clause compares the count with the limit. That of the quota asks
that time passes and that a live replica sends its `EXPIRE`. `FairSpec` of the front end asks that the
browser ends every request that the import screen listens to, with an answer or an error
(`RequestEnds`); nothing is asked of the user, of the service or of the progress events.

## What is proved

Each theorem holds for every value of the constants that satisfies the `ASSUME` of its module: what
is enumerated or counted is finite (images, workers, importers, requests, faces), sizes, limits and
thresholds are positive. Invariants are seldom inductive as they stand; the strengthening of each is
at the end of its module or at the head of the proofs.

**The pipeline** (`IndexingPipelineProofs`, for any number of images, workers and API processes).

- `TypeCorrectness`: `Spec => []TypeOK`.
- `NoMessageLost`: `Spec => []NothingLost`. Acknowledging is safe only because of where the worker
  stands: `IInv` adds, for each worker (`WorkerInv`), that its batch is made of delivered messages,
  and that the current one is committed when the worker is about to acknowledge it and
  dead-lettered when it is about to acknowledge after `dead_letter`; and that only delivered
  messages are pending or committed (`DeliveredInv`). Each action has a lemma; `OtherWorker` shows
  once that a worker that does not move is not disturbed.
- `NoImageForgotten`: `Spec => []SearchableOrSelected`, from `AllOrNothing`: the embeddings of an
  image for a version are all there or none.
- `Implementation`: `Spec => ImplementsService`, by the refinement mapping of `Service`. Publishing
  is `Submit`, a commit is `Serve`, the dead-letter write is `Abandon`, an acknowledgement is
  `Close`, and every other step stutters. `Close`'s guard is what `IInv` gives.

- `RetriesBounded`: `Spec => []RetryBudget`. The bound counts failures against deliveries, and a worker
  decides on a count read earlier. `BudgetInv` keeps a ledger per message: its failures, plus the
  workers that may still leave it for a retry, are at most its deliveries before the last, plus the
  workers that are giving it up, plus the deaths. A delivery makes one more worker that may retry and
  one more delivery; a death may strike a worker that was giving the message up.

**The quota** (`SearchQuotaProofs`). `QuotaTypes` and `WindowRespected` (`WindowBudget`): `QuotaInv`
counts the request between the two commands, which Redis has counted and which is not yet let through.
`BurstBounded` (`BurstBound`): `BurstInv` splits the searches of the last window into those of the
current key, at most `granted`, and those of one earlier key, at most the limit; with the time to
live that is left, the earlier ones are old enough to leave the window before the key expires.

**The import** (`EventImportProofs`).

- `ImportTypes`, `NoPhotoTwice`, `NoDanglingRow`, `HonestResults`: types, `OneRowPerPhoto`,
  `EveryRowStored`, `ResultsAreTrue`. `ImporterInv` adds where an importer stands: about to insert,
  its object is stored; about to index, it knows the row it inserted. A step of one importer only
  adds to the store (`Grown`), which `OtherImporter` shows once to disturb nobody.
- `NoDoubleReport` (`ImportedOnce`): `OwnInv` says that a row is claimed by one importer about to
  index it or by one result that reports its import; only an insertion makes a claim, on a new row.
- `OrphansArePaidFor` (`OrphansBounded`): each step that leaves an orphan adds an importer about to
  insert, a failure or a conflict.
- `PendingRowsArePaidFor` (`LeftByFailures`): only a failure takes an importer away from the row that
  it was about to index, and a row once left stays so until it is indexed.
- `FoldersComplete` (`NothingLeftBehind`): `FInv` adds that an importer that has answered has a result
  for each file of its batch, and that the command goes on only after such an answer.

These are theorems of `Spec`; a behaviour of `FolderSpec` is one of `Spec` (`CommandImports`), so that
they hold beside the command too.

**Frames and faces** (`FaceFilterProofs`). `FrameInImage`: the clamped box is inside the image with
a positive size, for every rectangle and every image. `AcceptedFaceIsVisible`: the
clamp widens to one pixel a frame that is empty or outside of the image, and never makes a face
acceptable by it: an accepted face has 40 pixels a side both in the image and in the network's frame.

**The search** (`SearchProofs`, for any requests, actors, events and faces). `JournalIsFaithful`
(`AnswersAreJournaled`) and `NoFreeLook` (`LooksAreCounted`), from `SearchInv`: where a request stands
tells what it has consumed (`CountInv`), whether it has looked (`LookedInv`) and what is in its
session or in the journal (`JournalInv`). `SearchTypes`, `EvidenceIsQualified` (`EvidenceQualifies`),
`EvidenceIsBest` (`BestEvidence`), `GoneEventsAreOmitted` (`GoneEventsOmitted`) and `LimitKeepsBest`
(`LimitKeepsTheBest`) come from `ResultInv`: a result is computed once, from hits that were eligible
when the index was searched, and is still what `Ranked` makes of them. The rest is about `Aggregate`
and `Slice`: outranking is a strict total order on the events found, so that the places of `Orders`
number each event once and follow the scores.

**The readings** (`SupervisionProofs`). `StallIsNoFalseAlarmOfRest` (`StalledIsNobodyPolling`),
`BacklogIsNoMoreThanPublished` (`BacklogCountsOnce`), from `MonitorInv`, which relates what was read to
what has happened since; `FacesFollowTheirImages` (`FacesOfIndexedImages`) and
`ReplaysDiscardNothingMore` (`DiscardedOnce`), from `ReadingInv`, whose `GotInv` says what each
statement already read still implies of the tables. `SupervisionTypes`, `GuardsRaiseInARaceOnly`
(`OnlyARaceRaises`), `MoreIsToldAtRest` (`MoreIsTold`) and `ScreensAgreeAtRest` (`ScreensAgree`) add
`RestInv`: as long as nobody wrote, each statement already read is what it would read now, so that
the guards and the screens compare counts of one and the same state. The dashboard's sums need
`SumOfParts`: the units of the events' counters, taken together, are in bijection with the rows that
the dashboard counts, since each image belongs to one event that exists.

**The screens** (`FrontEndProofs`, for runs of any length, any number of openings, cycles, calls and
events). `ScreenTypes`, the types of the four screens;
`OnePhotoAtATime` (`QueueIsSequential`), `HonestOutcomes` (`OutcomesAreTrue`), from `ImportInv`;
`OneCycleAtATime` (`LoopIsSequential`), `LoopNeverLost` (`LoopGoesOn`), `LeaksAreCrossings`
(`OnlyCrossedOpeningsLeak`), from `CameraInv`, which follows the openings (`OpeningInv`), the stream
(`StreamInv`) and the loop (`LoopInv`); `NoForeignResults` (`ShownBelongs`), from `QueryInv`;
`ListIsContiguous` (`PagesAreContiguous`), from `PagesInv`: while nothing is created and one page is
asked for at a time, the page in flight starts where the list ends or replaces it, and what was read
for it is the part of the service's list that follows.

Only model-checked: the three liveness properties (`EveryMessageClosed`, `QuotaReopens`,
`EveryRunEnds`), for liveness under fairness and `ENABLED` are outside what TLAPS proves here. The
bounds of the model are parameters of the theorems: a run that caps deaths, failures or pending calls
is an instance of them, and no theorem needs the values that the runs choose.

## The plan

Done, in this order: the pipeline and its refinement; the quota; the import, then the command that
uses it; faces and frames; the search with its quota, audit and aggregation; the readings and the
queue's status; the four screens that hold calls in flight; the proofs above.

Left:

1. Starvation: the trigger selects in the order of the ids and up to a limit, so that images that
   stay eligible whatever is done may keep the others out. It needs a promise to check: the code
   makes none about how often one presses the button.
2. An image that kills its worker each time it is processed: the limit of attempts is tested in
   the `except` clause only, and `EveryMessageClosed` holds because deaths are bounded.
3. The dashboard's watch, once its template lets a user start it (below).

## What is not modelled

- Detection and embedding: numeric inference. `FaceFilter` is given what the detector returns and
  `Search` is given similarities.
- The object store's client: reads and signatures, without state. What fails in it is a failure
  of the step that calls it.
- The login route, the wiring of the API, the handlers of errors, the session's credentials, the
  theme and the drawing: no state that several steps share. The statuses of the search route's
  refusals are part of `Search`.
- The schema is declarations: its uniqueness constraints are part of `ImageIndex` and
  `EventImport`, its cascades of `Search` and `Readings`.
- The detail screen of an event: one request, superseded by the next one.
- The dashboard shows what it asked for last, and what that may say is in `Readings` and
  `QueueMonitor`. Its watch of an indexing (timer, overlapping polls, suspicion of an absent
  worker) is left out: `dashboard.html` puts the button that starts it inside
  `@if (isEmpty())` and `@if (s.pending_image_count > 0)`, no image at all and some pending,
  which at this commit only a race between two statements of one reading can give.
