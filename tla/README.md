# Verification of the file exchange service

TLA+ models, TLC runs and TLAPS proofs kept beside the code of the file
exchange: a FastAPI backend, a Celery worker, PostgreSQL, a directory of blobs
and a Next.js page that polls. Paths below are relative to `src/`.

## 1. Inventory

| Component | State it keeps | Operations | Interacts through |
|---|---|---|---|
| Files router and file service (`backend/src/api/routers/files.py`, `services/file_service.py`) | per request: the ORM object and the session | POST, PATCH, DELETE, download, two reads | table `files`, blob directory, `process_file.delay` |
| `process_file` task (`tasks/process_file.py`) | per worker: file id, loaded row, result of `exists` | load, scan, check, extract, commit | tables `files` and `alerts`, blob directory |
| Celery and Redis (`tasks/celery_app.py`) | undelivered messages | enqueue, deliver and acknowledge, redeliver, lose | router, worker |
| Scan rules, metadata extractor (`services/`) | none | `scan`, `extract` | called by the task |
| PostgreSQL (`domain/models.py`, `repositories/`) | tables `files`, `alerts` with a foreign key | commit of a unit of work | everyone |
| Engine and sessions (`core/db.py`, `api/dependencies.py`) | pool of connections; per request one session and its transaction | statement, commit, close | every route |
| Migrations (`backend/migrations`) | `alembic_version`, the schema | upgrade, downgrade | sessions of the API and the worker, by table locks |
| Local storage (`storage/local.py`) | blob directory, temporary files, descriptors | `save_stream`, `delete`, `exists`, `path` | service, task |
| Alert service, alerts router, schemas | none | list | page |
| Page (`frontend/src`) | two query caches, fetches in flight, upload dialog | poll, upload, invalidate | the API |
| Configuration, logging, application factory, compose files, presentation | none at run time | - | - |

What is hard in it, with the place in the code and the property that watches
it, is the list `hazards` of `PROJECT.json`. In short:

* **Three stores without a common transaction.** A POST writes the blob, then
  the row, then the message; a DELETE unlinks the blob, then commits. Any step
  can fail, the process can die between two of them, and a commit can succeed
  although the client of the database sees an error.
* **Handlers and tasks that overlap.** A task works on the row it loaded; a
  PATCH or a DELETE of the same row can commit before it does, and a DELETE
  can unlink the blob between the task's check and its read.
* **Delivery.** Messages are acknowledged before the task runs (a crash loses
  them) and delivered again after the visibility timeout (two tasks work on
  one file).
* **Shared resources.** All requests share a bounded pool of connections, and
  a download keeps one as long as its client reads; descriptors are lost when
  a cancellation meets a thread.
* **Migrations of a running system.** `README.md:14-15` starts the containers
  and then upgrades: alembic waits for open transactions, and everyone who
  comes later waits behind it.
* **Polling.** The page decides from one cache whether to go on refreshing
  another.

Correctness, per component: a row has its blob; a deleted file is gone for
good; status and alerts tell the same story; no update is lost; a task never
overtakes the insert it belongs to; an upload settles; `save_stream` leaves
all or nothing; no connection is leaked and requests are answered; the schema
at head is the one the models declare; the counts of a text are right at every
cut; the page ends up showing what the tables hold.

## 2. Modules

| Module | Models | State |
|---|---|---|
| `FileDomain` | rows, alerts, scan rules, metadata keys, outcome of a task, changed-column UPDATE | none, pure operators |
| `FileExchange` | routes, worker, queue, tables, blob directory, crashes | `row alerts blobs used queue redeliveries req task unlinked` |
| `FileExchangeProperties` | every property of `FileExchange`, its inductive invariant and the refinement mapping | - |
| `FileLifecycle` | the promise about one file: absent, uploaded, processed or failed with one alert, gone; more alerts only after a second delivery | `phase feed twice` |
| `MetadataExtractor` | the capped read, the UTF-8 decoding that ignores errors, line, character and page counts | none, pure operators |
| `MetadataExtractorProperties` | every blob of bytes up to a length under every cap, the reference definitions and the properties | `blob limit` |
| `ConnectionPool` | the engine's pool, the sessions of the requests and every route as steps that need a connection or give it back | `req held closing out` |
| `SchemaMigrations` | the two revisions, the transaction of `env.py`, table locks, and sessions that use the tables meanwhile | `schema version rows alerts run session troubles` |
| `BlobStore` | the promise of `FileStorage`: a saved blob stays until it is deleted, a deleted one is gone | `stored told` |
| `LocalStorage` | `save_stream` and `delete` down to threads, descriptors, fsync and rename; cancellation, kill, power loss | `call thread strays fds data synced entry disk` |
| `FrontendPolling` | the page: two queries, the polling rule, upload dialog, refresh, focus; composes `FileLifecycle` as its backend | `phase feed cache fetch focused post mine failures clicks` |
| `MCFileExchange`, `MCLocalStorage`, `MCFrontendPolling`, `MCConnectionPool`, `MCSchemaMigrations`, `MCMetadataExtractor` | values of the constants for TLC | - |
| `FileExchangeProofs`, `FileExchangeSafetyProofs`, `FileExchangeOutcomeProofs`, `LocalStorageProofs`, `ConnectionPoolProofs`, `FrontendPollingProofs`, `SchemaMigrationsProofs`, `MetadataExtractorProofs` | TLAPS proofs | - |

### How `FileExchange` corresponds to the code

* `row[f]` and `alerts[f]` are the committed tables; `blobs` the names in the
  storage directory; `queue[f]` the messages of a file that no worker has
  taken. `req[r]` is the handler in request slot `r`: its route, the await it
  is at (`pc`), the ORM object it holds and its response. `task[w]` is the
  same for a worker. `unlinked` is a history variable, the files whose blob
  some DELETE has unlinked; no action reads it.
* A handler is one action per await or call that leaves the process.
  POST: `CreateSave` (`save_stream`), `CreateDiscard` (empty upload),
  `CreateInsert` (commit), `CreateRefresh`, `CreateEnqueue` (`delay`).
  PATCH: `PatchGet`, `PatchCommit`, `PatchReread`. DELETE: `DeleteGet`,
  `DeleteUnlink` (inside `delete_file`), `DeleteCommit` (in the router).
  Download: `DownloadGet`, `DownloadExists`, `DownloadSend`.
  Task: `TaskDeliver`, `TaskLoad`, `TaskCheck`, `TaskExtract`, `TaskCommit`.
  `CreateNext` is the order of the route's statements after the blob is there.
* The first step of a handler reads the row in the same step in which the
  request arrives; a request that has arrived but not read yet has no effect.
* A commit is atomic, and `CommitEnds` says how it can end: as it should, with
  an error because a constraint or a missing row refuses it, or, under the
  fault `db`, with an error whether or not it took effect. What it writes is
  `Merge`: SQLAlchemy updates the columns whose value differs from the loaded
  one. An UPDATE without a matching row raises, a DELETE without one does not.
* `processing` never reaches the table: the task sets it in memory and
  overwrites it before its only commit.
* The fault set `Faults` is a constant, so that a run or a theorem can say
  what it tolerates: `storage`, `unlink`, `db`, `broker`, `extract`, `api`,
  `worker`. `MaxRedeliveries` bounds duplicated deliveries.

Abstractions: names, digests, timestamps and text are left out; an upload is
the class of its suffix, the class of its mime type and its size; scan details
are the set of reasons; metadata is the set of its keys; a response is its
status code (with the row only for 201, the one body a property reads).
Reads of the list and of one file change nothing and are not actions; the page
reads them in `FrontendPolling`. A stored object is there or not; what is
inside `save_stream` is left to `LocalStorage`, here it may raise with or
without leaving the name, because every call after `os.replace` can raise. A
client that disconnects does not cancel a handler in this stack; a handler
cancelled at shutdown is one whose process dies, so `FileExchange` has no step
for it. A SELECT that raises (`ReadRaises`), a timeout of the pool among them,
ends a refresh, the reread of a PATCH and the load of a task; the first SELECT
of a handler has nothing to undo and is left to the reader.

How it implements `FileLifecycle`: a file is `absent` until its row is
committed, has the phase its row says, and is `gone` when the row is; `feed` is
the sequence of its alerts' levels, and `twice` says that a message was
delivered again. Before that a file settles once, together with its only
alert; afterwards a settled file may settle anew but is never unsettled.

### How `ConnectionPool` corresponds to the code

* `Steps` lists the awaits of every route in order. A session takes a
  connection at its first statement (`Acquires`), a commit gives it back
  (`Advances`), and the statement after it takes one again; a read or a
  download keeps it until the response has been sent (`Answers`: FastAPI runs
  the rest of `get_session` after that). `out` is the pool's own count, so
  that a connection nobody knows of would show.
* An exception thrown into `get_db_session` (`dependencies.py:49-50`) does not
  reach the generator of `get_session` it iterates over; the event loop closes
  that one in a task of its own (`Abandon`, then `Closes`). The rollback
  `db.py:53-55` asks for is done by the session's close instead.
* `TimesOut` is `pool_timeout`; `Fails` stands for every exception of a step,
  wherever it is. What a failed step leaves in the tables is the business of
  `FileExchange`, which has the same failures at the same awaits.
* `SessionOf` says that service and router share a session; that FastAPI calls
  a dependency once per request is what keeps a request from holding one
  connection while it waits for another (`FullPoolMovesOn`).

### How `SchemaMigrations` corresponds to the code

* `Created` and `Sha256` are the tables and the column of the two revisions,
  `Models` what `models.py` declares, transcribed separately. A run of alembic
  is a plan of steps (`Upwards`, `Downwards` over `Revisions`); each asks for
  its table, waits until no session holds it, and is kept in the run's
  transaction until `Commits`: `run.tables` are the tables as that transaction
  sees them, `run.loss` what it has taken away: digests, alerts, rows.
  `Interrupted` rolls it back.
* A session touches tables in the order of its statements (`Visits`), keeps
  their locks until it ends, and fails when a table misses a column of its
  model, because the ORM names all of them: before the upgrade has committed
  every request on files is answered 500. A DELETE or a task that finds no row
  is done there (`Finds`).
* `Ends` is the commit: a POST brings its row with a digest, a DELETE takes its
  row away unless an alert refers to it, a task adds the alert of a row that is
  still there; or the session rolls back, as it does when the foreign key or the
  row count of the UPDATE refuses it. The id of a POST is new, so it takes a
  free row that no other session has. What a POST or PATCH does after its commit
  (`session.refresh`) is a transaction of its own, like a request that reads;
  neither a PATCH nor the other columns a task writes change anything here, and
  of the alerts of a file it is only told whether there are any.
* A database starts empty, or with the first revision and rows without digest,
  with or without an alert.
* Left out: offline mode (it prints SQL), a second alembic at
  the same time, and sessions of an older version of the code.

### How `MetadataExtractor` corresponds to the code

A byte is a number and a character its code point. `Decoding(raw)[k]` is the
decoder of CPython, with `errors="ignore"`, after `k` bytes: the characters it
has and the sequence it is in the middle of. `Decode` takes the characters
after the last byte. `LineCount` counts as `str.splitlines` does, and `Updated`
is `dict.update`. `FileDomain!Extract`, which the other modules use, only
has the keys of the result; `KeysAsInDomain` checks that it is an abstraction.
What pypdf makes of a blob is an input: a number of pages or `Malformed`; any
other exception leaves `extract` and is the fault `extract` of `FileExchange`.

### How `LocalStorage` corresponds to the code

* Every call of `save_stream` draws a fresh temporary and final name, so an
  inode is named by its call. `entry[c]` is the name it has now, `disk[c]` the
  names a power loss may leave, `synced[c]` how many chunks are on the disk for
  sure. `call[c]` holds the local variables; `thread[c]` is the
  `asyncio.to_thread` the call waits for. What the thread does
  (`ThreadRuns`: `Write`, `Fsync`, `Replace`, `OpenDir`, `FsyncDir`,
  `CloseDir`, `Unlink`) and the call's resumption (`Resume`, with `Then` for
  the order of the awaits, `Failing` for the handlers) are separate steps.
* A cancelled call runs its `finally` and `except BaseException`; the thread it
  waited for never starts or goes on as a stray (`Cancel`, `StrayRuns`).
  Descriptors are numbers out of a small pool and are reused at once, so that a
  stray can meet another call's file under the number it holds.
* `StreamRaises` and `Fails` are exceptions of the stream and of system calls;
  `os.write` may be short.
* It implements `BlobStore`: `stored` are the inodes with their final name and
  `told` what the caller of `save_stream` or `delete` has learnt (`Told`). A
  blob appears at once, before `save_stream` returns or although it raises; a
  saved one leaves only by a delete, and only a power loss brings a deleted one
  back, because `delete` does not fsync the directory. That is an orphan, which
  `local.py:15-20` accepts.
* `DescriptorsGivenBack` bounds what a cancellation can lose: never a file's
  descriptor, and at most one of the directory for each upload given up, until
  the process ends.
* Not modelled: bytes, digests, names, `exists` and `path`, which only read.

### How `FrontendPolling` corresponds to the code

* `cache` and `fetch` are the data and the fetch in flight of the two queries.
  A fetch is sent, reads the table (`Reads`) and arrives (`Arrives`), so that
  an answer can be older than the table. `Working` is `refetchInterval`,
  which both hooks compute from the files cache. `Join` and `Restart` are the
  two ways react-query treats a refetch while a fetch is in flight: focus
  joins it, the refresh button and `invalidateQueries` replace it unless it is
  the first of its query.
* The backend is `FileLifecycle`, which `FileExchange` implements, with `twice`
  fixed to `FALSE`: no message is delivered twice while the page looks on.
* `mine`, the files the page uploaded while a list was shown, and the counters
  are history. An upload answered before the first list arrived is not
  counted: `Restart` keeps that first fetch, which may have read the table
  before the commit, and the polling then ends without the file. The page
  shows it at the next focus or click, which `RefocusCatchesUp` is about.
* Abstractions: a list is the phase of each file, the alerts are the set of
  files that have one; time is left out, a timer may fire once it is set; a
  changed list renders the page at once, so `useAlerts` never polls on an
  older list than the one shown.

## 3. Runs

The runs of `FileExchange` use two request slots and two workers: enough for
every pair of handlers, a handler against a task, and two tasks on one file.

| Run | Bounds | Shows |
|---|---|---|
| `core_faults` | 1 file, every kind of upload and title, all faults, 1 redelivery | `TypeOK`, `LossMeansDelete`, `DeletedIsGone`, `StatusMatchesAlerts`, `MissingRowMeansDeleted`, `CreatedIsUploaded`, `TitleChangesByPatch`; `ImplementsLifecycle`: `FileExchange` implements `FileLifecycle`; `OneCoherentOutcome` and `OneTaskPerUpload` in the behaviours without a redelivery |
| `core_live` | 1 file, two titles that fit, no faults, 1 redelivery, fair | `UploadedIsPending`, `NoOrphan`, `PatchFailsByDelete`, `UploadsSettle` |
| `storage_faults` | 2 calls, 2 descriptors, streams of up to 2 chunks, all faults | `StorageTypeOK`, `FinalHasEveryChunk`, `SavedIsDurable`, `OwnDescriptor`, `DescriptorsGivenBack`, `RaisedLeavesNoTemp`; `ImplementsBlobStore`: `LocalStorage` implements `BlobStore` |
| `pool_exhaustion` | 3 requests, 2 connections, fair | `PoolTypeOK`, `NoneLeaked`, `FullPoolMovesOn`, `RequestsAnswered`, `PoolRecovers` |
| `live_migration` | 3 sessions, 1 file, 2 interruptions or downgrades (`MaxTroubles`), fair | `SchemaTypeOK`, `HeadIsTheModel`, `LostByDowngradeOnly`, `NoCircle`, `AnsweredUnlessDownload`, `UpgradeReachesHead` |
| `text_metadata` | blobs of up to 5 bytes out of 9, caps of 1 to 5 | `CountsOK`, `CutKeepsWholeCharacters`, `LinesAsInPlainText`, `KeysAsInDomain` |
| `page_polling` | 2 files, 1 failed request or click (`MaxTroubles`), fair | `PageTypeOK`, `QuietMeansSettled`, `UploadReachesList`, `RefocusCatchesUp` |

One file is enough for the safety runs because no action relates two files but
for the slots they share. Identifiers, slots and workers are symmetric. Request
slots are reused without bound, so sequences of requests are as long as the
reachable states allow. Uploads cover a clean text, a suspicious program, an
empty file and one larger than the size column; titles two that fit and one
that does not. `core_live` is about what happens without a fault, a value that
fits no column included: its uploads are the text and the empty file, its
titles the two that fit.

Three requests over two connections: one that holds, one that holds or waits,
and one that waits. The routes are all there, requests come without bound. The
real pool (5 and 10 overflow) differs in its number only. Three sessions over a
migration: one that holds the table, one in the queue behind alembic, one that
comes later; `MaxTroubles` lets a downgrade and an interruption of it, or of
the upgrade after it, happen. The nine bytes of `text_metadata` are two breaks,
a letter, continuation bytes and the leads of 2, 3 and 4 byte characters, and
five of them hold a whole character of each width with a neighbour on either
side.

Two calls and two descriptors are enough for a stray of one call to find its
number in the hands of the other, and two chunks for a stream that is cut
before its end; faults are unbounded in number. Two files are needed on the
page because the list is polled for one file while another has settled.
`MaxTroubles` bounds failed requests and clicks together; hiding and showing
the tab is unbounded. A click restarts a slow fetch, so without the bound a
user could keep an answer away for ever.

Fairness (`page_polling`, `alert_lost`): requests are answered, timers fire and
the worker settles what was uploaded (weak fairness, each is repeated until it
happens); a retry that was put off in a hidden tab goes on when the tab is
shown (strong fairness: react-query resumes it in the focus event itself).
That an upload settles is what `UploadsSettle` shows of the fault-free backend;
when a worker dies the page goes on polling instead.
Clicks, focus and uploads are owed by nobody, and `RefocusCatchesUp` assumes
the user comes back again and again.

Fairness (`core_live`): the event loop resumes a handler that can run,
a worker runs the task it accepted, and the pool takes every message of a file
while there is one. The code adds no timeouts that could stop them. New
requests are owed by nobody. There are finitely many messages, so weak fairness
suffices.

Fairness (`pool_exhaustion`): the event loop resumes whoever can run, a wait
for a connection ends (with one, or after `pool_timeout`: weak fairness of the
two together, so a particular request may starve into its timeout), abandoned
sessions are closed. A download whose client does not read is owed nothing:
`RequestsAnswered` holds in spite of it, `PoolRecovers` says in its premise
that clients read.

Fairness (`live_migration`): alembic and the sessions go on as soon as their
locks allow (weak fairness); a download ends when its client likes, which is
why one of them can stall every other session behind a waiting migration
(`AnsweredUnlessDownload`). That the operator repeats the upgrade is a premise
of `UpgradeReachesHead`.

### Disagreements between code and documentation

| Run | Property | Says | Does |
|---|---|---|---|
| `lost_blob` | `RowHasBlob` | `README.md:142` commit first, then the disk | The blob is unlinked first, and the commit of a processed file always fails on the alert's foreign key: the row stays, the content is lost, no fault needed |
| `duplicate_alert` | `OneAlertPerFile` | `process_file.py:31`, `README.md:115` steps are idempotent | A redelivered message raises a second alert |
| `failed_create` | `FailedCreateLeavesNothing` | `file_service.py:5` cleanup if either write fails | Only a failing `add` is cleaned up, not a failing commit |
| `short_write` | `FinalIsWhole` | `storage/base.py:41-42` a partial write is never observable under the final name | The result of `os.write` is ignored |
| `alert_lost` | `AlertFollowsUpload` | `features/upload-file/hooks.ts:6-7` the alert lands in the feed via the polling cycle | Both polls stop when the files are terminal, also if the alerts were read before the outcome |

Without a run of their own:

* `file_service.py:133-135` says that the commit proceeds when unlinking the
  blob fails, but the exception leaves `delete_file` and the router never
  commits (`DeleteUnlink` under the fault `unlink`).
* `storage/base.py:43-44` says that a `save_stream` that raises leaves no final
  name; everything after `os.replace` can raise, and the handler unlinks the
  temporary name only (`BlobStore!Appear` has no save to follow).
* `frontend/src/entities/file/types.ts:25` says that a task is still working on
  a file that is not terminal; after the crash of a worker nobody is, because
  the message was acknowledged early (`WorkerCrash`).
* `db.py:42` promises the explicit rollback on an error; an exception of a
  handler never reaches it (`ConnectionPool!Abandon`), the close of the session
  rolls back.
* `config.py:74-76` takes `CORS_ORIGINS` "in addition to JSON", but with
  `NoDecode` nothing parses JSON: a value that starts with `[` stays a string,
  which `list[str]` refuses at start. Configuration is not modelled.

## 4. Properties

The comment above each property says what it is about. The ones that need
several actors to break:

* `LossMeansDelete`: content is lost, a file is marked failed and a download
  misses the blob only because a DELETE unlinked it.
* `DeletedIsGone`: after a 204 no stale PATCH or task brings row or alert back.
* `StatusMatchesAlerts`: "uploaded" exactly while there is no alert, also with
  two tasks on one file and PATCHes in between.
* `MissingRowMeansDeleted`: the task never overtakes the insert.
* `TitleChangesByPatch`: no task writes an old title back.
* `PatchFailsByDelete`: a PATCH holds its copy of the row over other commits;
  without a fault it ends in a 500 only if a DELETE took the row from under it.
* `OwnDescriptor`: a cancelled upload and its stray thread never close or take
  a number another upload still needs.
* `FinalHasEveryChunk`, `SavedIsDurable`: order of write, fsync, rename and
  directory fsync against power loss, strays and clean-ups of other calls.
* `ImplementsBlobStore`: the same seen from outside, with a delete and its
  undoing by a power loss; `DescriptorsGivenBack`: what is lost on the way.
* `FullPoolMovesOn`, `NoneLeaked`: sessions of several requests, failed ones
  and closing ones together, against the pool's own count.
* `NoCircle`, `AnsweredUnlessDownload`: locks of alembic and of sessions that
  touch two tables.
* `HeadIsTheModel`: two declarations of every column, kept in step by hand,
  after any sequence of upgrades, downgrades and interruptions. The tests
  create their tables from the models and never run a revision.
* `LostByDowngradeOnly`: what a run takes from the rows shows with its commit
  only, and an upgrade, interrupted or not, takes nothing. But for a downgrade a
  row goes only by the DELETE of its file, which commits at head and only if the
  file has no alert.
* `CutKeepsWholeCharacters`: the byte cap inside a character.
* `QuietMeansSettled`, `UploadReachesList`: no answer that began before an
  upload ends the polling for it.
* `OneCoherentOutcome`, `OneTaskPerUpload`: what holds while delivery is at
  most once. A file has one message or task in all, and none once it has its
  alert. With redelivery columns of two outcomes mix.
* `ImplementsLifecycle`: a file settles once and with its alert, however
  handlers, tasks, failures and crashes interleave; after a second delivery it
  may settle anew, and still never goes back or disappears.

## 5. Proofs

For any sets of files, requests, workers, titles, uploads, calls, descriptors
and sessions, any limits, any set of faults, any number of chunks, redeliveries
and interruptions, any size of the connection pool, and blobs of any length:

| module | result |
|---|---|
| `FileExchangeProofs` | what the operators of `FileDomain` return (types of a scan, an outcome and an alert; `Merge` of two rows that fit the columns fits them); `TypeCorrect`: `Spec => []TypeOK`, by the inductive `TypeInv`, which adds to `TypeOK` what a handler and a task carry at each pc |
| `FileExchangeSafetyProofs` | `Inductive`: `Spec => []IndInv`, and from it `LossAlwaysMeansDelete`, `DeletedStaysGone`, `StatusAlwaysMatchesAlerts`, `NoTaskOvertakesInsert`, `CreatedBodyIsUploaded` and the action property `TitlesChangeByPatchOnly` |
| `FileExchangeOutcomeProofs` | `OnceInductive`: `Spec => []OnceInv`, and from it `OutcomeIsCoherent` and `OneTaskForEachUpload`; the refinement `BackendIsLifecycle`; of the system without faults `UploadsStayPending` and, if every insert and title fits, `BlobsHaveOwners` and `PatchesFailByDelete` |
| `LocalStorageProofs` | `StorageInductive`: `Spec => []StorageInv`, and from it `StorageTypes`, `DescriptorsAreOwn`, `FinalNamesAreComplete`, `SavedBlobsAreDurable`, the action property `RaisedUnlinks` and the refinement `DirectoryIsBlobStore`; with `OpenerInv`, `DescriptorsAreGivenBack` |
| `ConnectionPoolProofs` | `PoolInductive`: `Spec => []PoolInv`, and from it `PoolTypeCorrect`, `NothingLeaks` and `FullPoolAlwaysMovesOn` |
| `FrontendPollingProofs` | `PageInductive`: `Spec => []PageInv`, and `PageTypes`; `RecentInductive`: `Spec => []RecentInv`, and `QuietAlwaysMeansSettled`; `OrderInductive`: `Spec => []OrderInv`, and the action property `PageAlwaysMovesOn` |
| `SchemaMigrationsProofs` | `SchemaInductive`: `Spec => []SchemaInv`, and from it `SchemaTypes`, `HeadIsAlwaysTheModel`, `NeverACircle` and the action property `OnlyDowngradesLose` |
| `MetadataExtractorProofs` | `CountsAreConsistent`, `CutsKeepWholeCharacters`, `LinesAreThoseOfPlainText`, `KeysAreThoseOfDomain`, for blobs of any bytes and any length under any cap |

### The backend

None of the properties of `FileExchange` is inductive alone. `IndInv` adds:

* `FreshInv`: nobody has anything of an identifier that was not drawn yet (a
  request may only have been told 404). Without it `CreateSave` could meet an
  old row, message or task of the file.
* `CreateInv`: until its commit the creating request is alone with the file;
  until it has enqueued the task no message, task or alert of the file exists.
  `CreatedIsUploaded` and the alert-free "uploaded" row rest on it.
* `KnownInv`: whoever works on a file otherwise has seen its row, so the file
  has a row or a DELETE has unlinked it. This is what turns a missing row
  into "deleted".
* `UnlinkInv`: an unlinked blob never comes back, so `TaskCheck` and
  `DeleteCommit` may still rely on what an earlier step did.
* `TaskInv`: what a task read before its commit is still good enough when it
  commits: a status other than "uploaded" in its copy means an alert is there
  already, and a blob it did not find was unlinked by a DELETE. `Merge` writes
  only the columns that differ from the copy, and this excludes the stale copy
  that would put a status back.

`IndNext` has one step per action; steps `<1>e` and `<1>f` deal once with the
handlers that only read and with the tasks that only move. `TitlesChangeByPatchOnly` needs that the four
commits are the only steps that write rows, that `CreateInsert` finds no row
(`CreateInv`), and that `Outcome` leaves the title alone so that `Merge` keeps
the table's (`TaskKeepsTitle`).

`OnceInv` is about the time before a second delivery: a file has one message or
one task at most, and none before its insert or after its outcome. The row a
task loaded is then as untreated as the one it commits to, so `MergeOutcome`
writes every column of one outcome, whatever a PATCH did in between, next to
the only alert. `BackendIsLifecycle` takes the actions one by one: those that
commit a row map to `Upload`, `Settle`, `Resettle` or `Remove` of
`FileLifecycle`, a second delivery to `Duplicate` and all others to a stutter;
which of `Settle` and `Resettle` it is follows from `OnceInv` and `IndInv`.

`UploadsStayPending`, `BlobsHaveOwners` and `PatchesFailByDelete` have the
hypothesis `Faults = {}`, the last two also `EverythingFits` (no upload or title
is larger than its column): with faults they are false, and the findings of
section 3 are how for the first two. `PatchesFailByDelete` rests on `KnownInv`:
a PATCH that no longer finds its row has seen it, so it was deleted.
`PendingInv` adds to `UploadedIsPending` that a row which has lost its blob
before an outcome has a DELETE about to commit, so that a task which raises
between its check and its read leaves somebody behind, and that an idle worker
has no file.

### Local storage

`StorageInv` says of every call, by the step it is at, what the others may
rely on:

* `DescriptorInv`: while a call writes, its descriptor is open on its own file
  and nobody else has the number; the calls and the strays that are going to
  close a descriptor of the directory have one each. `OwnDescriptor` is what is
  left of it for the calls that still succeed.
* `ContentInv`: how many chunks are written and synced at each step; from
  `replace` on, and wherever "final" can be found after a power loss, all of
  them. Foreign chunks come only from uploads that are being given up.
* `NameInv`: which names an inode can have, in the directory and on the disk,
  at each step: no final name before `replace` has run, only the final name
  once the directory is synced.
* `StrayInv`: a stray belongs to a call that was given up, or to a delete that
  was cancelled; one that still renames has a complete file. Such calls stay
  given up (`GivenUpStays`), so what a stray may do stays harmless.

A thread that is awaited and a stray perform the same system calls; what those
do is proved once (`PerformsFacts`) and used by both. `DirectoryIsBlobStore`
maps the rename to `Appear`, the return of `save_stream` to `SaveReturns`, the
start, the unlink and the return of a `delete` to `Delete`, `Disappear` and
`DeleteReturns`, a power loss to `PowerLoss`, and every other step to a
stutter.
`OpenerInv` of `DescriptorsGivenBack` carries an injection from the descriptors
open on the directory to the calls that opened them: opening adds a pair,
closing removes one, and cancelling forgets the number but not the pair.
`FS_Injection` turns it into the bound on their number.

### Connection pool

`PoolInv` is `PoolTypeOK` with `NoneLeaked` and the shapes of the variables.
Every way a request can end is one lemma, `EndsRequest`, whether its
connections return to the pool (`Answers`) or go to the tasks that close
sessions (`Abandon`). `FullPoolMovesOn` follows without any induction of its
own: a full pool with nothing closing has a holder, and as all steps of a
request share one session no holder waits.

### Page

`PageInv` adds to `PageTypeOK` the shapes of caches and fetches and that a POST
that is committed has a file which is no longer absent. `RecentInv` is the
reason why polling may stop: while no request has failed, the cached list, and
the answer on its way if there is one, has every file of `mine` as uploaded or
as it is now. An upload keeps it because `Invalidated` sends the list anew
(`Restart`), unless no list was shown yet, and such a file is not in `mine`;
the steps of the backend keep it because only a file that is still "uploaded"
changes. A list in which all is settled then agrees with the backend.
`OrderInv` puts the cache, the answer on its way and the backend in an order of
time, so that no answer takes the page back (`PageAlwaysMovesOn`, a theorem
only: it has no run); it rests on react-query dropping the answer of a fetch
that was replaced. That the backend the page polls is the one of section 2 is
`BackendIsLifecycle`: `FileExchange` makes no steps but those of
`FileLifecycle`, which are the backend steps of the page.

### Migrations

`SchemaInv` puts every run on the way between an empty database and head, which
has four places (nothing, `files`, both tables, both with the digest):

* `RunInv`: a run is at a place of that way, its tables are those of the place
  and the rest of its plan leads to its goal; on its way down it has locked
  what it has changed and noted what is lost, on its way up it loses nothing.
  The plan of two revisions is a concatenation (`ConcatenatedPlans`), and every
  step leads to the next place (`StepUp`, `StepDown`; `DigestAdded` and
  `ColumnsChanged` compare the two declarations column by column).
* `ShapeInv`: between runs the version determines the tables, and an
  interruption leaves both as they were.
* `SessionInv`: a session that holds files has seen the schema of head, because
  a statement on files fails below it (`Serves`), and a run that would change
  that waits for the session (`LockInv`: nobody holds what a run has locked).
* `StoreInv`: a stored digest means head, and an alert means that its file has a
  row. `CreateInv`: a POST under way is the only one of its file, whose row is
  still free.

`NeverACircle` follows: down from head a run locks files before alerts, the
order in which sessions visit them; up to head no session holds files, and one
that holds alerts waits for nothing. For `OnlyDowngradesLose` there are two ways
to lose something, a commit of alembic (`CommitsLose`: what `run.loss` says was
taken on the way down from the version) and the end of a session (`EndsLose`:
only a DELETE takes a row, of its own file, at head, and without alerts).

### Metadata

The other theorems are about sequences of steps; these are about what a
recursive definition computes for every blob, so the induction is over data.

* An induction is an argument by the least counterexample: `LeastNatural` finds
  it from the well-foundedness of the naturals, with a set in the place of a
  predicate, and `UpTo` is the principle the proofs cite.
* A recursive function has its equation because a function with that equation
  exists (`IteratesExist`: a sequence of iterates for every length, each
  extending the last) and because two such functions agree (`Agree`).
* The decoder never takes a byte twice: `UsedBytes` is the number of bytes its
  characters stand for, `Pending` those of the sequence it is in, and both
  together never exceed the bytes read. A byte that was ignored does not come
  back. Decoding a prefix is a prefix of the decoding (`DecodingOfPrefix`,
  `DecodedGrows`); and when a prefix has used all of its bytes, the next
  character of the whole text ends beyond the cut (`NextEndsLater`). That is
  `CutsKeepWholeCharacters`: the cap loses the character it cuts, and no other.
* `LinesUpTo` compares the count of `splitlines` with plain text whose line
  breaks are normalised, at every length: lines that have started are breaks
  plus an open last line, and whether the last character was a CR is known
  from it.
* `KeysAreThoseOfDomain` needs no induction: the keys depend on the kind of
  file and on the answer of pypdf only.

### Assumptions

The named ones, evaluated by TLC in every run: uploads are records of the given
shape, limits and bounds are naturals, the pool has a connection and finitely
many requests, `None` (and the directory's `Dir`) is not a value of the sets it
joins, the outcomes the page's backend may produce are those of
`FileLifecycle`, bytes are numbers from 0 to 255, and the bound on the length
of a blob is a natural.

### Only model-checked

`UploadsSettle`, `UploadReachesList`, `RefocusCatchesUp`, `RequestsAnswered`,
`PoolRecovers`, `AnsweredUnlessDownload` and `UpgradeReachesHead`: liveness
under fairness, which needs ENABLED and is beyond the installed provers. Every
invariant, action property and refinement that a passing run checks is proved.

## 6. Not modelled

* Presentation (`FilesTable.tsx`, `AlertsTable.tsx`, `StatusBadge.tsx`,
  `format.ts`, `layout.tsx`): renders what the two caches hold, keeps no state.
* Configuration, logging, application factory (`core/config.py`,
  `core/logging.py`, `app.py`): read once at start; the limits they set are
  constants of the models.
* Deployment files: they start the processes. One API process and one pool of
  workers is what the compose file says.
* Validation of requests by pydantic (`api/schemas.py`): a malformed request is
  refused before a handler starts.

## 7. Plan

Every safety property and both refinements are proved; what is left:

1. Lemmas that several proofs repeat (updates of one slot of a function of
   records) stated once.
2. A page for which messages are delivered twice (`Resettle` of
   `FileLifecycle`), and what its polling then misses.
