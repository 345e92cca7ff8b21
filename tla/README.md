# Spir_Enterprise: TLA+ models and proofs

Spir_Enterprise takes spare-parts workbooks (SPIR files), extracts their rows and
returns one normalised workbook. This directory models what is hard to test in it: what
happens to an uploaded file between the browser and its verdict, when requests race,
workers die, messages come twice and storage fails; how prices get their rates; how the
cleanup and the history share files; and the algorithms of the extraction engine, where a
row can be lost, doubled or given to the wrong tag. TLC checks the models on small
instances; TLAPS proves the central invariants for every instance.

Paths below are relative to the repository; `…/` is `src/spir_dynamic/`.

## 1. Inventory

| Component | State it keeps | Operations | Talks to | What is hard |
|---|---|---|---|---|
| Direct upload API (`…/app/upload_router.py`, `…/services/direct_upload.py`) | upload record per slot (Redis), index of open uploads (Redis hash) | initiate, parts, complete, abort, reclaim | job store, MinIO, broker | four API processes; records checked before an await and used after it; partial failure |
| Batch API (`…/app/batch_router.py`) | none of its own | register, upload, status, combine, zip | job store, storage, broker | check-then-stream; stored but not queued |
| Extraction task (`…/tasks/extraction_tasks.py`, `…/celery_app.py`) | delivery counter (Redis) | process_file_task | broker, storage, job store, history | late acknowledgement, crash between any two steps, retry, redelivery, time limits |
| Source objects (`…/services/source_objects.py`) | object per slot | store, stage, discard, sweep scratch | storage backends | discard never raises; a lost object is final |
| Job store (`…/services/job_store.py`, `redis_job_store.py`) | slot status, upload record | create, get, update_result, set/clear/transition upload | Redis | compare-and-set, TTL, last writer wins |
| Storage backends (`…/services/object_storage/`) | objects, multipart uploads | put, get, stat, delete, multipart calls | MinIO, file system | lost answers |
| Lifecycle cleanup (`…/tasks/cleanup_tasks.py`) | none | JSON expiry, orphans, stale objects, stale multipart uploads | disk, database, storage | sweeps what others still use |
| Results and rows (`…/services/storage.py`, `redis_store.py`) | result workbook, rows | put, get | Redis | results that expire before their job |
| History (`…/services/audit_service.py`, `…/db/`) | extraction_history | log, list, delete | database, rows JSON | file and row deleted in two steps |
| Synchronous extraction (`…/app/routes.py`, `pipeline.py`) | semaphore, temporary files | extract, download | thread pool | timed-out threads that go on |
| Currency rates (`…/services/currency_*`) | cache per process, last successful quote in Redis | convert, refresh | provider, Redis | fallback chain, last writer wins |
| Extraction engine (`…/extraction/`) | none (pure) | group sheets, resolve annexures, read sheets, number and order rows | analysis | many input shapes; carried-forward values; rows doubled or lost |
| Workbook analysis (`…/analysis/`) | none (pure) | header rows, columns, roles, metadata, where tags stand | | order of passes |
| Duplicate checker (`…/services/duplicate_checker.py`) | none (pure) | mark duplicates and SAP matches | | order, keys, empty cells |
| Browser client (`src/frontend/lib/direct-upload.ts`) | parts to send | directUpload | API, MinIO | bounded rounds, cancel |

What makes each of them correct:

* **Extraction task** – every file gets a verdict that lasts, the verdict its upload
  deserves; a file is attempted at most `_DELIVERY_CAP` times; its source object is
  dropped before the verdict; a success is recorded completely.
* **Direct upload** – one completion at a time; nothing is queued by two requests, or queued
  without an object; no slot is stuck; nothing stays in MinIO that no one will clean up;
  browser and API cut the file into the same parts.
* **History and cleanup** – what the history lists is kept, what it does not list goes.
* **Synchronous extraction** – every request is answered and gives back what it took.
* **Rates** – no rate is invented, or staler than it says.
* **Engine** – every spare of the workbook reaches each tag it belongs to exactly once,
  with its own quantities; numbers and marks tell rows apart.

`PROJECT.json` lists the hazards line by line, with the properties that cover them.

## 2. Modules

| Module | Role |
|---|---|
| `FileVerdict` | what the task promises about one file (abstract) |
| `ExtractionTask`, `MCExtractionTask` | process_file_task, the broker, the slot, the source object; implements `FileVerdict` |
| `ExtractionTaskProofs`, `FileVerdictProofs` | types, delivery cap, verdict after discard, complete records, no file dropped by a crash; the refinement, every file gets its verdict, what alone can cost one |
| `DirectUpload`, `MCDirectUpload` | one batch slot under the upload API, the classic upload, the cleanup and the worker's two touches |
| `DirectUploadProofs`, `DirectUploadSlotProofs` | types, no double dispatch, completions end, open uploads indexed; who owns the slot, its record and the object |
| `PartArithmetic` | part counts and sizes of browser and API |
| `ExtractedRows`, `MCExtractedRows`, `ExtractedRowsProofs` | rows JSON, history rows and Redis keys under extraction, deletions and cleanup; types, the cleanup takes nothing listed |
| `CurrencyRates` | cache, provider, last success and table, for jobs in threads and processes |
| `SyncExtract`, `MCSyncExtract` | POST /api/extract: semaphore, pool, timeout, temporary file; each pipeline is a job of `CurrencyRates`, which it EXTENDS |
| `SyncExtractProofs` | types and all safety properties of `SyncExtract` and `CurrencyRates` |
| `WorkbookAnalysis`, `SheetHeaders`, `TagCells` | roles, continuations, metadata; header rows, columns, types; where tags stand |
| `SheetGroups`, `ColumnarSheet`, `RowSheets` | mains and continuations; matrix sheets; sheets read row by row |
| `AnnexureRegistry`, `AnnexureFanout` | what an annexure stands for; rows that name one, shared out over its tags |
| `MaterialNumber`, `DuplicateChecker` | numbers and order of the rows; the ERROR column |
| `EngineProofs` | algorithms of the engine, for inputs of any size |
| `MCEngine` | grows small inputs for the pure modules, with the properties about them |
| `MCEngineProofs` | properties of `MCEngine` in every state of it; parts of an upload and rows of a list, for any size |

How they meet. `DirectUpload` ends where a message is queued and keeps of the worker only
that it marks the slot running, drops the object and writes a verdict; `ExtractionTask`
starts with one queued message per file and abstracts the workbook to the verdict the
engine would reach. `SyncExtract` contains the rates because its threads wait for them. The
engine modules follow the order of a pipeline: analysis tells sheets apart,
`SheetGroups` puts them together, the sheet modules read them, the annexure
modules replace references, `MaterialNumber` and `DuplicateChecker` finish the rows.

### ExtractionTask

One action per remote call of `process_file_task`. `pc[w]` is where worker `w` stands:

| pc | Action | Code in `extraction_tasks.py` |
|---|---|---|
| idle | `Deliver` | the task starts and resolves the planning plant (114–128) |
| count | `CountDelivery`, `CountUnavailable` | INCR/EXPIRE of `spir:dlv:<key>` and the cap (130–175) |
| mark | `MarkRunning`, `MarkRunningFails` | update_result(running), outside the try (178) |
| stage, extract | `Stage`, `ExtractSucceeds`, `ExtractRejects`, `ExtractLosesFile`, `TransientFailure` | staged_source, sanitize and run_pipeline (180–229) |
| discard, ok | `DiscardExtracted`, `WriteOk`, `WriteOkFails` | 243–253 |
| rows, json, history | `PersistRows`, `PersistJson`, `LogHistory` | three best-effort writes (255–327) |
| missing | `WriteMissing` | ObjectNotFound (230–241) |
| drop, fail | `DropSource`, `WriteError` | every failure that is final: plant, cap, timeout, rejected file |
| retry | `Retry`, `RetryFails` | the generic handler (384–415) |
| ack | `Ack` | late acknowledgement |

`Crash`, `HardTimeLimit`, `VisibilityLapse` and the soft limit strike from outside. The soft limit is an exception at any
line: `SoftLimitHandled` (the body of the try, 345–363), `SoftLimitSwallowed` (the tries of the counter, the sanitizer and
extractor, `discard_source_object` and the three records take it for a failure of their own), `SoftLimitEscapes` (before the
try and in its handlers and `self.retry`: the task fails, the message is acknowledged, the slot stays). Where the storage
client turns it into a storage error it is a `TransientFailure`, where the file validator does an `ExtractRejects`.
The hard limit kills at any line. A message lapses only while its worker reads the workbook, the one step that lasts.
`Retry` follows Celery 5: `self.retry(exc=exc)` re-raises `exc` when no retry is left,
so the handler of `MaxRetriesExceededError` is unreachable.

Abstractions: contents of a workbook are one of good, rejected, without a valid
plant; a `file_id` is the number of the execution that produced it; time exists only as
the comparison of the hard limit with the visibility timeout; the countdown of a retry,
the 24 h life of the delivery counter and the job's TTL are left out.

`FileVerdict` has, per file, what its owner is told and the attempts admitted: Admit, Start, Accept,
Refuse. `KeepsPromise` substitutes the slot's status and `admitted`; every other step of the task is a stutter.

### DirectUpload

One slot, any number of requests, each a process walking through its handler, one step
per call to Redis or MinIO. The API runs as four processes (`docker-compose.yml`), so
requests interleave between any two calls.

| Actions | Code |
|---|---|
| `Initiate`, `CreateMultipart`, `IndexOpen`, `Presign`, `Unsign`, `SetRecord`, `MarkUploading` | `initiate_upload`, `plan_upload` |
| `DropParts`, `DropObject`, `ClearDropped` | `abort_upload` and `clear_upload`, for abort and a second initiate |
| `Abort`, `Cancelled` | `abort_direct_upload` |
| `Complete`, `Claim`, `Backend`, `ListParts`, `Assemble`, `Stat`, `CloseCompleted`, `Verify`, `DiscardMismatch`, `Release`, `Forget`, `Failed`, `HandOff`, `MarkPending`, `Dispatch`, `UndoStore`, `Unqueued` | `complete_upload`, `finalize_upload`, `_dispatch_celery` |
| `BatchUpload`, `StoreUpload`, `StoreFailed` | `batch_upload_file`, `_stream_batch_upload` |
| `PutParts`, `Impatient` | the browser: parts, and calls that do not wait for the last answer |
| `Expire`, `RecordExpires`, `Reclaim`, `SweepObject` | TTLs, lifecycle cleanup |
| `WorkerStarts`, `WorkerEnds` | the worker |
| `Die` | a process stops, or an exception nothing catches leaves the handler |

Abstractions: all parts of an upload arrive as one step, so `verify_parts` sees all or
not all (`PartArithmetic` has the sizes); sizes appear only as the `mismatch` fault; job and upload record are loaded in one
step; requests are authorised; re-signing URLs changes nothing and is left out. The cleanup's
stale limit (24 h) and the record's TTL are longer than any request, so those steps wait until none is in flight.

Faults: `storage` (a MinIO call fails; a completed multipart may have been carried out
all the same), `redis` (a Redis call whose error the code handles), `broker` (not
published), `confirm` (published, answer lost: Celery's default retry publishes again, or gives up), `mismatch` (assembled size differs),
`disabled` (direct upload switched off), `die`, `overlap` (a client calls again before it was answered).

### ExtractedRows

| Actions | Code |
|---|---|
| `SaveRows`, `LogExtraction`, `WriterDies` | `_save_rows_to_disk` and its twin in the task, `log_extraction_worker` |
| `StartSweep`, `SweepFile`, `FetchKnown`, `EndSweep`, `SweepDies` | `lifecycle_cleanup_task` phases 1 and 2 |
| `DeleteHistory`, `DeleteRecord`, `CommitHistory`, `DeleterDies` | `delete_history` |
| `DeleteUser`, `DeleteRecord`, `CommitUser` | `permanent_delete_user`, with the cascade of the foreign key |
| `Settle`, `Expire`, `CacheExpires` | modification times and TTLs |

`FetchKnown` reads the history and the clock in one step: what a phase may delete is fixed by the limits it
computed when it began, however long it runs. `Settle` keeps a file in its first hour while its extraction is between
the file and the row, because the longest hard limit (2160 s) is shorter; for `/api/extract`, which has no such
limit after the extraction, this is an assumption on the database. A redelivered task is another
extraction, since every run draws a new `file_id`. All files belong to one user; combining and downloading only read.

### CurrencyRates and SyncExtract

| Actions | Code |
|---|---|
| `NeedRates`, `Convert`, `Leave` | `_apply_currency_conversion` in `pipeline.py` |
| `LookUp`, `Answer`, `NoAnswer`, `Put`, `Save`, `FallBack` | `get_rate` and `resolve_rates` in `currency_service.py`, `frankfurter.py`, `save_success` |
| `Tick` | the clock |
| `Receive`, `HandToWorkers`, `Acquire`, `TimeOut`, `Fail`, `Finish`, `Reply` | the handler of `/api/extract` |
| `Start`, `Take`, `Extract`, `Rate`, `End` | the pool's threads, the workers, the pipeline |

A rate is the time at which the provider gave it, which is what "genuine" and "fresh" are about. A thread cannot be
stopped and may hang for ever. `Tick` lets an answer be under way to the cache and to Redis for at most `Delay`.

### The engine

Each module translates one part of the engine as operators over small sheets; the comment at its head says what a sheet
or row keeps of the original and what is left out. What a cell reads as (a tag, an annexure, a header keyword, a footer)
is input, except in `TagCells` and `MaterialNumber`, where symbols are the point. `MCEngine` enumerates inputs as behaviours: `kind`
chooses a module, `x` grows by a sheet, row, cell or column per step, and each invariant looks at the inputs of its kind.

| Property | Module | Says |
|---|---|---|
| `GroupsAreWhole` | `SheetGroups` | items, uses and equipment rows of a workbook appear once, each with its own sheet |
| `FanoutKeeps` | `AnnexureFanout` | each spare reaches each tag it is for, columns of one sheet share the tags out by their units, the tags of a lone reference share its total |
| `AnnexureIsRead` | `AnnexureRegistry` | every tag of an annexure is registered, from the current column, with its own serial |
| `ColumnsAddUp` | `ColumnarSheet` | quantities add up, a column's own tags win, gaps are filled from above, runs are read whole |
| `ListIsComplete` | `RowSheets` | every spare reaches its tags, a sheet's tag appears once, sheets are read downwards |
| `NumbersTellApart` | `MaterialNumber` | numbers of different lines differ and fit their field (but for a strict one with a long sequence), one led by a type keeps its digits, no row is lost |
| `DuplicatesNamed` | `DuplicateChecker` | conflicts of SAP numbers are marked up to the majority, each with a mark of its own; spares that repeat are marked alike, name each other and are counted |
| `BookIsCoherent` | `WorkbookAnalysis` | metadata are lent only within one SPIR; a continuation leads to an earlier sheet that is read or was taken out as foreign; data sheets are read in one way |
| `TagsAreFound` | `TagCells` | no tag of a cell is lost or doubled, none right of the label is skipped; of the row that decides, the one with most tags, the longest chain is taken whole |
| `HeadIsRead` | `SheetHeaders` | no better header row is passed over, columns map stably, types are not guessed, nothing before a footer or gap is cut off, labelled numbers and values are found |
| `PartsMakeTheFile` | `PartArithmetic` | browser and API cut the file alike, one round repairs what another left |

Some say less than one would like, because the code keeps no more (section 5). `Spanless` keeps continuations that span several
mains and have an item column of their own out of the inputs of `GroupsAreWhole`. `FanoutKeeps` is claimed where the enrichment
ends (`Completes`). There a spare is owed its tags when its reference is alone or its main has an equipment row and the declared units fit the annexure
(`UnitsFit`); `TagsDue` says which tags these are, and a total is kept only by a lone reference. `TagsAreFound` and `BookIsCoherent`
say which row of tags, and which kind of parent, the code chooses.

## 3. Runs

| Run | Instance | Checks | Shows |
|---|---|---|---|
| `retry` | 2 files, 2 workers, 3 transient failures, a failed discard and a failed record; fair | VerdictMatchesUpload, KeepsPromise, EventuallySettled | failed attempts do not cost a good file its ok; the task implements `FileVerdict`; all files settle |
| `crash` | 1 file, 2 workers, 6 crashes and 3 transient failures | DrainedMeansFinal, OkIsComplete | no file dropped silently, ok is complete, also when a retry and a crash leave two messages |
| `faults` | 1 file, each fault once except failures of storage and of the three records (in `retry`), 2 retries, cap 3, filesystem backend | TypeOK, AttemptsWithinCap, FinalMeansDiscarded, OnlyStruckFilesFail | types, cap, verdict after discard; which faults alone can lose a verdict |
| `upload_race` | 2 initiates, 2 completions, 1 abort, 2 uploads; broker, mismatch, overlap | CompletingIsHeld, NothingLeftBehind, UploadingIsRecorded | races neither wedge the slot nor orphan an object |
| `upload_faults` | 1 initiate, 2 completions, abort, classic upload; each fault once | TypeOK, DispatchedOnce, OneHolder, QueuedHasObject, FailedIsNotQueued | one message per upload, and one more per lost broker answer, even when handlers die; the compare-and-set does its work |
| `upload_abandon` | 3 of 5 calls, 2 uploads, storage failure, fair | OpenIsIndexed, EventuallyClean | MinIO is clean in the end |
| `rows` | 1 extraction, 2 cleanups, 2 deletions, fair; 2 disk, 2 database, 1 Redis failure, 1 crash | TypeOK, KeptWhileListed, OrphansReclaimed, UserForgotten | the cleanup takes nothing that is listed, leaves no orphan, a deleted user leaves nothing |
| `sync` | 2 files for the API with 1 permit, 1 big file for a worker; clock 0–2, TTL 1, delay 1; fair | TypeOK, RatesAreGenuine, LastSuccessIsRecent, TempIsHeld, EventuallyAnswered, OnlyOrphansStarve | uploads are answered though threads hang; permits and files come back; prices have genuine rates |
| `engine` | inputs of up to 2–10 elements, 2.05 million of them | the eleven properties above | the algorithms on every input of that size |
| `exhausted`, `ok_lost`, `upload_holder` | smallest instance | one property each | section 5 |

Bounds. Two workers suffice for one message to be redelivered while another copy runs; the
retry limit and the cap are the code's own (3 and 5), except in `faults`, where 2 and 3
keep the product of the faults small. Crash budgets exceed the cap, transient budgets
reach the retry limit. A slot's upload races need two uploads and at most two
concurrent requests of a kind. Requests, uploads and workers are interchangeable, so runs without
liveness use them as symmetry sets. Deadlock checking is off: a drained queue, a
client that has sent its requests, a full input is a proper end.

Extractions share no state, so one file is enough in `rows` where two cleanups and two deletions meet over it; the proof covers any number.
In `sync`, one permit with two requests makes the orphan of the first starve the second; two processes with a common currency make their
last successes collide; a clock of 2 with TTL 1 lets an entry expire and a late answer overwrite a newer one.
`engine` uses the code's 18 characters for a material number, and up to 4 parts instead of 10 000: the operators compare neighbours, a first and a last
element, or counts up to two, so that lists of two or three elements meet each case; where a carry needs more (tag rows, runs) they are longer.

Fairness. `ExtractionTask`: each worker takes its next step and fetches messages (a
pool replaces a child that died). `DirectUpload`: a handler goes on, workers run, jobs
expire, the nightly cleanup comes. `ExtractedRows`: extractions and deletions that began go on, the first hour of a file
and its TTL pass, the cleanup comes. `SyncExtract`: the event loop serves handlers and timers fire; threads, workers and
the provider are owed nothing, and yet every request is answered. Clients, browsers and faults are owed nothing. Fault
budgets are finite, which stands for "failures end some day".

Each property of a passing run is tested by a mutant: a plausible slip of the code
(section "Mutants" of a module, or the definition before the one it replaces) under which TLC finds the property violated.

## 4. Proofs

All proofs hold for any sets of files, workers, requests and uploads, any retry limit,
cap, quotas and fault budgets, from the ASSUMEs of the modules (types of the constants); a theorem
that needs more, such as a kind of fault that does not strike, states it as its own assumption.

* `ExtractionTaskProofs!TypeCorrect`, by one lemma per group of variables.
* `CapRespected`. `AttemptsWithinCap` is not inductive: `admitted` must be tied to the counter.
  `CapInv` adds that every admitted attempt is counted or uncounted
  (`admitted <= deliveries + uncounted`) next to the cap itself.
* `VerdictAfterDiscard`. `DiscardInv` adds what the worker's place implies: at `ok`, and
  after a drop at `fail`, the source is gone or leaked; at `missing` it is gone.
* `FileVerdictProofs!PromiseKept`: every step of the task is a step of `FileVerdict` or a stutter, provided no worker is
  killed, no time limit strikes and Redis answers (`Undisturbed`). `VerdictInv` says, per file: it has one live delivery, a
  message or the worker that holds it, and none after its verdict; while it is open, the attempts admitted equal the counter;
  and what a worker at each place knows – at `ok` the slot runs and the workbook is good, at `fail` the workbook is bad or the attempts are used
  up. A file without a fault-free delivery could have two, and the second would take the first one's verdict back: that is `ok_lost`.
* `EveryGoodFileOk` and `NoFileDropped`, for an undisturbed task with at most `MaxRetries` transient failures and
  `MaxRetries < DeliveryCap` (3 and 5 in the code). `BudgetInv`, on top of `VerdictInv`: each retry was paid for by a transient failure,
  each counted delivery is the first or a retry, so the cap never cuts the retries short and a retry is never the one with none left;
  and an undecided file has a message or a worker. One failure more, and the run `exhausted` shows the file dropped.
* `ExtractionTaskProofs!CrashesDropNoFile`: with crashes, handled or swallowed soft limits and restored messages as often as they like no file loses
  its last message while it is undecided, if Redis answers, no hard limit strikes, no soft limit escapes and the retries cover the transient failures. On the
  filesystem one retry more is needed (`RetriesCover`): the first worker moves the source away, and the second finds it missing.
  `CareInv`: whatever number of messages a file has, each of them carries a retry count that was paid for, so that no worker ever
  raises the last failure; a worker before the verdict holds its delivery; and an undecided file has a message or such a worker. It does
  not need the messages to be few, which is why it survives the crashes that `VerdictInv` does not.
* `ExtractionTaskProofs!OkHasItsRecords`: a final ok has rows, JSON and history row under one id, provided the three writes
  succeed in the end, Redis answers, no time limit strikes and no message lapses while its worker lives (`KeepsRecords`). `CompleteInv`: such an ok has its records,
  or the worker that wrote it is still writing them and owes the rest, or a message is left that will overturn it. The last case is the
  crash between ok and history; with a lapse two workers write two ids, and the slot may keep the one whose worker died.
* `FileVerdictProofs!OnlyStruckFail` needs no fault to be absent, only enough retries and a cap above them: it follows from
  `Handled => CareInv` and `Calm => BudgetInv`, where `Handled` and `Calm` say which kinds have not struck so far.
* `DirectUploadProofs!TypeCorrect`, with `Planned` (an initiate past its creation carries a created upload).
* `NeverQueuedTwice`. `OnceInv`: a request between assembling and dispatching carries an
  upload that is created, no longer open and dispatched no more often than answers of the broker
  were lost, and no two such requests carry the same one; a dispatched upload is never open again. The argument is that MinIO consumes
  an upload when it assembles it – not the compare-and-set, which an abort can defeat.
* `CompletionsEnd`, assuming no `die` and no `disabled` fault: every step that leaves the section
  a completion holds leaves a record that is not in completing.
* `OpenIsKnown`, assuming no `die` and no `redis` fault. `OpenIsIndexed` is inductive with `OnceInv`, which says that the upload a completion
  takes off the index is not open any more. With one of those faults the code leaves an upload that no cleanup finds.
* `DirectUploadSlotProofs!ObjectsAreOwned`, assuming no `die` and no `storage` fault. `OwnedInv`: from its assembly to its message the source
  object is in the hands of a request that will send it, delete it or pass it on; a step that lets go of it did one of these.
* `UploadsAreRecorded`, assuming no `storage` fault. For clients that wait (`Patient`) `RecordInv` says that one request is under way at most, and a
  slot in uploading without its record has the request that will write it or tell the slot.
* `OneCompletionHolds`, assuming one initiate (`OneInitiate`), for any number of completions, aborts and batch uploads and any faults. `HolderInv`:
  the record is written once, while nobody completes; from then on its state says whether a completion holds the slot, which is what
  the compare-and-set asks. TLC shows that the assumption is needed: a second, racing initiate resets a record in completing, and two completions hold it.
* `QueuedIsStored` and `ErrorsAreNotQueued`, assuming one initiate. `HandInv`: until the record is gone no completion is past its hold, then
  exactly one is, or one message is there; so no other request drops the object or overwrites the verdict. The argument is the hold, not the order
  in which the requests arrive. A second initiate that was looked up earlier drops the object under the message.
* `ExtractedRowsProofs!TypeCorrect` and `ListedStaysKept`. `KeptInv`: a file older than an hour, or listed, belongs to a finished
  extraction, so what a cleanup found unlisted stays unlisted until it comes to delete it; deletions visit only what was asked.
* `SyncExtractProofs`: `TypeCorrect`, `RatesGenuine`, `SuccessRecent`, `TempKept`, `StarvedByOrphans`, `NoPermitLost`. `SyncInv` has three parts. `RateInv`
  dates everything: an answer on its way is at most `Delay` old, a cache entry was put within `Delay` of its quote, the last success is at
  most `Delay` behind the newest. `WebInv` counts: free permits and waiting requests together are `Permits` – so that no permit is
  ever lost. `ThreadInv` ties a call of the API's own threads to its request: a thread at work has a waiting or an answered request. When the pool is full and a call
  that holds a permit has not started, the threads outnumber the other permits, and one of them works for a request already answered.

* `EngineProofs!SapConflictsFound`: `SapConflictsNamed` for any rows. Two part numbers with one mark would have as many others ahead of them in the
  order of their texts, but the one ahead counts for the other (`NumberedApart`); of two different numbers one at most is dominant.
  `SpareGroupsAreNamed`: a spare that comes again (`ComesAgain`) has the references of its whole group in its mark. `SpareGroupsAreCounted`: groups with
  equal labels share a reference, hence a spare (`LabelsTellApart`), so labels and groups are as many. The three together are `DuplicatesNamed`.
* `EngineProofs` on workbooks: `MetadataStaysHome` and `ContinuationsAreRooted` state both conjuncts of `BookIsCoherent` for any shown sheets
  (`IsBook`: numbered from 1, a layout the code knows, no SPIR number among the labelled keys, which is how `Shown` makes them). `Fated` is what they need: the
  recursion over the sheets is well-founded, so that `_detect_continuations` has a result, and each sheet of it is what it was or continues
  an earlier sheet that continues nothing. `AnalysisFacts` follows the metadata through: own keys first, the rest from the sheet with most of them.
* `EngineProofs` on the head of a sheet: the seven parts of `HeadIsRead`, each for any input. `HeaderIsBest` rests on the weights: a keyword is 200 and a
  decisive one 100, the filled cells at most 60, so that a row with all of another's keywords and one more scores higher (`HigherScore`). `MappingIsStable` follows
  the greedy loop (`Granted`): a claim that is not free has lost to one at least as good, every round uses another field, and no two claims tie (`Ranked`), so that
  after as many rounds as fields nothing is free. It takes scores of 0 to 100 for granted, which the fuzzy matcher gives. `MetadataAreKept`, `TypeIsTicked`,
  `DataAreReadWhole`, `NumberIsFound`, `RevisionIsFound` need only that rows and columns are counted from 1. The last one corrected its property: `find_revision`
  searches the last 21 rows, so a label above them is not looked at.

* `MCEngineProofs` states properties of `MCEngine` itself, as `Spec => []Inv`: `DuplicatesAreNamed`, `BooksAreCoherent`, `HeadsAreRead`, `PartsMakeFiles`,
  `ListsAreComplete`. The inductive invariant is `Inputs`, the type of `x` for each kind of input, without its bounds on lengths; what the theorems of
  `EngineProofs` ask of an input follows from it (a shown book satisfies `IsBook`, grown columns have scores of 0 to 100), so that they
  hold for inputs of any length grown from these elements. `PartsMakeFiles` rests on one lemma that puts the size of a
  file between `(n - 1) * part` and `n * part` for `n` parts, and `SlicesAgree`, `WholeOrRefused`, `OneRoundCompletes` hold for any file size, part
  size and storage content.
  `ListsAreComplete` rests on `FlattenSeq` being the last result of a loop, which exists (`Iterated`) and is put together from halves
  (`FlattenHalves`), so that what is read of one row stands in one place (`OnePlace`). `SparesAreTagged`, `GlobalTagsAreOnce` and `ReadsDownwards`
  are its parts, for rows of any number: the second asks that a sheet names each of its tags once, which every profile does, and the third rests on
  `BlockBelow`: what is read of a row depends on the rows from the last label down to it.

Model-checked only, by kind of reason:

* liveness, which TLAPS does not reach: `EventuallySettled`, `EventuallyClean`, `OrphansReclaimed`, `UserForgotten`, `EventuallyAnswered`;
* `GroupsAreWhole`, `FanoutKeeps`, `ColumnsAddUp`, `AnnexureIsRead`, `NumbersTellApart`, `TagsAreFound`: these readers are folds over rows, columns or cells that
  carry a state of several parts, and what they compute is an induction over data; several also choose with `SelectSeq` or `SetToSortSeq`, which the prover cannot expand;
* `OkIsKept` and `HolderIsAlone` are violated, see below.

## 5. Where code and documentation part

1. `exhausted` – the final retry failure never reaches its handler: slot left running, source kept.
2. `ok_lost` – a crash between the slot's ok and the acknowledgement turns ok into error.
3. `upload_holder` – abort and re-initiate check a stale record and dismantle an upload under its completion.

More of them, seen while modelling or by lifting a run's restriction, without a run of their own:

* the visibility timeout (900 s) is below the hard limits of heavy (1080 s) and giant (2160 s), although
  `celery_app.py:53-54` says it must exceed them: two workers process one file;
* a second initiate that fails after dropping the first upload leaves the slot in uploading with nothing to complete or abort;
* a 503 between the claim and the try (`upload_router.py:303`) leaves the slot in completing;
* a retry that was published before its worker died leaves two messages, and the file may enter the history twice;
* the 504 of `/api/extract` says "The file may contain too many sheets" also for a file whose thread never started because
  orphans hold the pool (`routes.py:272-275`);
* a part numbered above the planned count is reported wrong for ever: no round of the browser removes it;
* a continuation that spans several mains and has an item column of its own yields rows for items that are not its main's
  (`unified_extractor.py:260-263`);
* details of an annexure that come without an equipment row and without a manufacturer end in an UnboundLocalError of `tag_hdr`, or read
  the last group's (`unified_extractor.py:1402`); where several columns name the annexure, those of a main without an equipment row are dropped (1243–1358);
* with several references to one annexure each tag gets the whole total: what is divided is `quantity` (`unified_extractor.py:1350`), a field no
  row has, while the rows' own is `qty_identical`;
* `_reformat_omn_strict` ends with "18 chars exactly" (`post_processor.py:471`), but a sequence of five digits makes 19 (4460-5-43-12345); the head of the file says that the
  POSITION NUMBER is "always 0010" (6–7), while positions are counted per tag (778–787);
* `duplicate_checker.py:10-11` says a label is "shared by every row in that same group", but the rows of a part in the majority are left unmarked
  (192–199), so that a lone row of the minority has a mark no other row has; spare duplicates are told by references, not by counters;
* `find_data_end` says "5+ consecutive blank rows = end" (`header_detector.py:893`), but the four rows after the first are looked at in columns 1–14
  only (898–900), the first in 29: rows filled only further right are cut off;
* continuations are found before foreign sheets are excluded (`workbook_analyzer.py:49-53`): a sheet without a number is read as the
  continuation of a foreign one, which is not read;
* without a tag label only the row with the most tags counts, then its longest chain (`tag_locator.py:413-434`): tags in columns 1, 2 and 7 of one row
  win over three neighbours in the next, give 1 and 2, and three far apart win and give none;
* serial columns without a serial are skipped when serials are dealt out, so that later tags get serials of other columns
  (`unified_extractor.py`, docstring near 1660);
* a second annexure sheet with the same key replaces the first; the number of the workbook is that of the first
  sheet that has one, also of a sheet that is not read (`workbook_analyzer.py:226`);
* a TRUE to the right of the second label counts for the first one, and of two ticks the first label wins (`header_detector.py:722-740`);
* a manufacturer chosen by `max(set(...), key=count)` is arbitrary among equally frequent ones, and differs from run to run;
* "P-5 A5-AB" with two units is read differently by `expand_tag_by_count` and `split_tags`;
* positions are counted before the rows are sorted, so that the lines of a tag spanning mains and continuations need not ascend in the output.

## 6. Not modelled

* Vendor and metadata heuristics, the recognition of words in headers and cells, of currency texts and of footers: text
  patterns without control flow; the engine modules take their outcome as input.
* Loading, sanitising and validating of workbooks, Excel and zip output: I/O and layout.
* Prices and descriptions inside the sheet readers: carried along by the modelled code without being looked at.
* The results' own TTL against the job's (`batch_router.py:285`): a read-only loss; and the delivery counter's 24 h
  against a slot uploaded again (`extraction_tasks.py:142`). Both are hazards no property covers.
* The scratch sweep at a worker's start, the directory sweep of the filesystem backend, the bounded
  rounds and delays of the browser, the asyncio processing of a batch without Celery.
* `annexure_resolver.py` and `preprocessing.py`: no code of the program calls them.
* Authentication beyond the deletion of a user, monitoring, configuration, logging, the user interface.
