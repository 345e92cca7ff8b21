---------------------------- MODULE DirectUpload ----------------------------
(***************************************************************************)
(* One batch slot and everything that can happen to its source object      *)
(* before a worker owns it: the requests of the direct-upload API          *)
(* (initiate, complete, abort) and of the classic batch upload, the        *)
(* browser writing parts straight to MinIO, the lifecycle cleanup that     *)
(* reclaims what was abandoned, and the worker, reduced to the two moments *)
(* at which it touches the slot.                                           *)
(*                                                                         *)
(* The API may run in several processes and awaits every storage call, so  *)
(* each call to the job store, to Redis or to MinIO is a step of its own   *)
(* and requests interleave between any two of them.                        *)
(***************************************************************************)
EXTENDS Naturals, FiniteSets

CONSTANTS
  Requests,    \* HTTP requests, each used once
  Quota,       \* how many requests of each operation clients send
  Uploads,     \* upload ids MinIO may hand out for the slot's key
  None,        \* no upload, no record, no object
  Api,         \* content of an object written by the classic batch upload
  MaxFaults    \* how often each kind of fault may strike

Operations == {"initiate", "complete", "abort", "batch"}
FaultKinds == {"die", "storage", "redis", "broker", "confirm", "mismatch", "disabled", "overlap"}

Records == [upload : Uploads, state : {"uploading", "completing"}]

ASSUME QuotaAssumption == Quota \in [Operations -> Nat]
ASSUME NoneAssumption ==
  None \notin Uploads \cup Records \cup Operations \cup {Api} /\ Api \notin Uploads
ASSUME FaultsAssumption == MaxFaults \in [FaultKinds -> Nat]

\* Where a request stands in its handler.
PC == {"new", "done",
       \* initiate
       "create", "index", "sign", "unsign", "record", "uploading",
       \* abort_upload, shared by initiate and abort, and what follows it
       "dropParts", "dropObject", "clear", "cancelled",
       \* complete
       "claim", "backend", "list", "assemble", "stat", "close", "verify",
       "mismatch", "release", "forget", "failed", "handoff", "pending",
       \* complete and batch
       "dispatch", "undo", "unqueued",
       \* batch
       "store", "storeFailed"}

\* then: where abort_upload returns to.
Request == [pc : PC, op : Operations \cup {None},
            upload : Uploads \cup {None}, then : {"done", "clear"}]

VARIABLES
  req,        \* per request: its place, operation and loaded UploadSession
  record,     \* upload record of the slot in the job store
  slot,       \* status of the slot
  parts,      \* uploads all of whose parts are in MinIO
  open,       \* multipart uploads MinIO holds open
  created,    \* multipart uploads ever created
  index,      \* hash spir:direct_uploads:open
  object,     \* content of the source object: an upload, Api or None
  queue,      \* messages on the broker for this slot
  dispatched, \* number of messages ever sent per upload
  working,    \* workers processing a message of this slot
  live,       \* FALSE once the job's TTL has passed
  faults      \* faults of each kind that may still strike

Status == {"pending", "uploading", "running", "ok", "error"}

storageVars == <<parts, open, created, object>>
taskVars == <<queue, dispatched, working>>
vars == <<req, record, slot, parts, open, created, index, object,
          queue, dispatched, working, live, faults>>

TypeOK ==
  /\ req \in [Requests -> Request]
  /\ record \in Records \cup {None}
  /\ slot \in Status
  /\ parts \subseteq created
  /\ open \subseteq created
  /\ created \subseteq Uploads
  /\ index \subseteq created
  /\ object \in created \cup {Api, None}
  /\ queue \in Nat
  /\ dispatched \in [Uploads -> Nat]
  /\ working \in Nat
  /\ live \in BOOLEAN
  /\ faults \in [FaultKinds -> Nat]

\* POST /api/batch/register has created the job.
Init ==
  /\ req = [r \in Requests |->
              [pc |-> "new", op |-> None, upload |-> None, then |-> "done"]]
  /\ record = None
  /\ slot = "pending"
  /\ parts = {} /\ open = {} /\ created = {} /\ index = {}
  /\ object = None
  /\ queue = 0
  /\ dispatched = [u \in Uploads |-> 0]
  /\ working = 0
  /\ live = TRUE
  /\ faults = MaxFaults

-----------------------------------------------------------------------------
(* Helpers *)

Goto(r, label) == req' = [req EXCEPT ![r].pc = label]

Enter(r, op, u, label, then) ==
  req' = [req EXCEPT ![r] = [pc |-> label, op |-> op, upload |-> u, then |-> then]]

At(r, label) == req[r].pc = label

Fault(k) ==
  /\ faults[k] > 0
  /\ faults' = [faults EXCEPT ![k] = @ - 1]

NoFault == UNCHANGED faults

InFlight(r) == req[r].pc \notin {"new", "done"}

Quiet == \A r \in Requests : ~InFlight(r)

\* A client that does not wait for an answer before it goes on, once and for all.
Impatient ==
  /\ MaxFaults["overlap"] > 0
  /\ faults' = [faults EXCEPT !["overlap"] = 0]

Spared(kinds) == \A k \in kinds : faults[k] = MaxFaults[k]

\* job_store.get, the access check and get_upload of a request that starts.
Arrive(r, op) ==
  /\ At(r, "new")
  /\ Cardinality({q \in Requests : req[q].op = op}) < Quota[op]
  /\ live
  /\ \/ Quiet /\ NoFault
     \/ ~Quiet /\ Impatient

\* discard_source_object never raises; a failure is only logged.
DiscardObject ==
  \/ object' = None /\ NoFault
  \/ UNCHANGED object /\ Fault("storage")

\* update_result; a job that expired is left alone.
SetSlot(status) == slot' = IF live THEN status ELSE slot

\* index_close_upload is best effort.
CloseIndex(u) ==
  \/ index' = index \ {u} /\ NoFault
  \/ UNCHANGED index /\ Fault("redis")

RecordIs(state) == record # None /\ record.state = state

\* transition_upload returns TRUE: the compare-and-set looks at the state
\* alone, not at the upload the record is about.
Transition(from, to) ==
  RecordIs(from) /\ record' = [record EXCEPT !.state = to]

-----------------------------------------------------------------------------
(* Mutants: plausible slips in the steps below, which the properties detect *)

\* Forgets the upload in the index although aborting it failed.
DropPartsUnindexed(r) ==
  LET u == req[r].upload IN
  /\ At(r, "dropParts")
  /\ \/ open' = open \ {u} /\ parts' = parts \ {u} /\ NoFault
     \/ UNCHANGED <<open, parts>> /\ Fault("storage")
  /\ index' = index \ {u}
  /\ Goto(r, "dropObject")
  /\ UNCHANGED <<record, slot, created, object, taskVars, live>>

\* Claims a slot that another completion already holds.
ClaimAgain(r) ==
  /\ At(r, "claim")
  /\ \/ /\ record # None
        /\ record' = [record EXCEPT !.state = "completing"]
        /\ Goto(r, "backend")
     \/ /\ record = None
        /\ Goto(r, "done")
        /\ UNCHANGED record
  /\ NoFault
  /\ UNCHANGED <<slot, storageVars, index, taskVars, live>>

\* Goes on to the hand-off after a failed verification.
MismatchHandedOff(r) ==
  /\ At(r, "mismatch")
  /\ DiscardObject
  /\ Goto(r, "handoff")
  /\ UNCHANGED <<record, slot, parts, open, created, index, taskVars, live>>

\* Leaves the record of a failed completion behind.
ForgetNot(r) ==
  /\ At(r, "forget")
  /\ Goto(r, "failed")
  /\ NoFault
  /\ UNCHANGED <<record, slot, storageVars, index, taskVars, live>>

\* Reports the failed completion to its client only.
FailedSilently(r) ==
  /\ At(r, "failed")
  /\ Goto(r, "done")
  /\ NoFault
  /\ UNCHANGED <<record, slot, storageVars, index, taskVars, live>>

\* Routes a file of the giant queue to the heavy one as well.
DispatchRoutedTwice(r) ==
  LET u == req[r].upload IN
  /\ At(r, "dispatch")
  /\ \/ /\ \E n \in {1, 2} :
             /\ queue' = queue + n
             /\ dispatched' = IF u = None THEN dispatched
                              ELSE [dispatched EXCEPT ![u] = @ + n]
        /\ \/ Goto(r, "done") /\ NoFault
           \/ Goto(r, "dispatch") /\ Fault("confirm")
           \/ Goto(r, "undo") /\ Fault("confirm")
     \/ /\ Goto(r, "undo")
        /\ Fault("broker")
        /\ UNCHANGED <<queue, dispatched>>
  /\ UNCHANGED <<record, slot, storageVars, index, working, live>>

\* Keeps the object of an upload that could not be queued.
UndoStoreSkipped(r) ==
  /\ At(r, "undo")
  /\ Goto(r, "unqueued")
  /\ NoFault
  /\ UNCHANGED <<record, slot, storageVars, index, taskVars, live>>

\* Shows a cancelled upload under a status the poller does not know.
CancelledMisnamed(r) ==
  /\ At(r, "cancelled")
  /\ SetSlot("cancelled")
  /\ Goto(r, "done")
  /\ NoFault
  /\ UNCHANGED <<record, storageVars, index, taskVars, live>>

-----------------------------------------------------------------------------
(* The browser and MinIO *)

\* The browser has PUT every part of an open upload.
PutParts(u) ==
  /\ u \in open \ parts
  /\ parts' = parts \cup {u}
  /\ UNCHANGED <<req, record, slot, open, created, index, object, taskVars, live, faults>>

-----------------------------------------------------------------------------
(* POST /api/uploads/initiate for a registered batch slot *)

Initiate(r) ==
  /\ Arrive(r, "initiate")
  /\ \/ /\ slot \notin {"pending", "uploading"} \/ RecordIs("completing")
        /\ Enter(r, "initiate", None, "done", "done")
     \/ /\ slot \in {"pending", "uploading"} /\ record = None
        /\ Enter(r, "initiate", None, "create", "done")
     \/ /\ slot \in {"pending", "uploading"} /\ RecordIs("uploading")
        /\ Enter(r, "initiate", record.upload, "dropParts", "clear")
  /\ UNCHANGED <<record, slot, storageVars, index, taskVars, live>>

\* abort_upload: the multipart upload first ...
DropParts(r) ==
  LET u == req[r].upload IN
  /\ At(r, "dropParts")
  /\ \/ open' = open \ {u} /\ parts' = parts \ {u} /\ CloseIndex(u)
     \/ UNCHANGED <<open, parts, index>> /\ Fault("storage")
  /\ Goto(r, "dropObject")
  /\ UNCHANGED <<record, slot, created, object, taskVars, live>>

\* ... then whatever object the slot holds.
DropObject(r) ==
  /\ At(r, "dropObject")
  /\ DiscardObject
  /\ Goto(r, req[r].then)
  /\ UNCHANGED <<record, slot, parts, open, created, index, taskVars, live>>

\* clear_upload after abort_upload.
ClearDropped(r) ==
  /\ At(r, "clear")
  /\ record' = None
  /\ Goto(r, IF req[r].op = "initiate" THEN "create" ELSE "cancelled")
  /\ NoFault
  /\ UNCHANGED <<slot, storageVars, index, taskVars, live>>

\* plan_upload: create the multipart upload, or answer 503.
CreateMultipart(r) ==
  /\ At(r, "create")
  /\ \/ /\ \E u \in Uploads \ created :
             /\ created' = created \cup {u}
             /\ open' = open \cup {u}
             /\ Enter(r, "initiate", u, "index", "done")
        /\ NoFault
     \/ /\ Fault("storage")
        /\ Goto(r, "done")
        /\ UNCHANGED <<created, open>>
  /\ UNCHANGED <<record, slot, parts, index, object, taskVars, live>>

IndexOpen(r) ==
  /\ At(r, "index")
  /\ \/ index' = index \cup {req[r].upload} /\ NoFault
     \/ UNCHANGED index /\ Fault("redis")
  /\ Goto(r, "sign")
  /\ UNCHANGED <<record, slot, storageVars, taskVars, live>>

Presign(r) ==
  /\ At(r, "sign")
  /\ \/ Goto(r, "record") /\ NoFault
     \/ Goto(r, "unsign") /\ Fault("storage")
  /\ UNCHANGED <<record, slot, storageVars, index, taskVars, live>>

\* A failed presign aborts the multipart upload it would orphan.
Unsign(r) ==
  LET u == req[r].upload IN
  /\ At(r, "unsign")
  /\ \/ open' = open \ {u} /\ CloseIndex(u)
     \/ UNCHANGED <<open, index>> /\ Fault("storage")
  /\ Goto(r, "done")
  /\ UNCHANGED <<record, slot, parts, created, object, taskVars, live>>

\* set_upload; a Redis error aborts the upload just planned.
SetRecord(r) ==
  /\ At(r, "record")
  /\ \/ /\ record' = IF live THEN [upload |-> req[r].upload, state |-> "uploading"]
                             ELSE record
        /\ Goto(r, "uploading")
        /\ NoFault
     \/ /\ Fault("redis")
        /\ Goto(r, "dropParts")
        /\ UNCHANGED record
  /\ UNCHANGED <<slot, storageVars, index, taskVars, live>>

MarkUploading(r) ==
  /\ At(r, "uploading")
  /\ \/ SetSlot("uploading") /\ Goto(r, "done") /\ NoFault
     \/ UNCHANGED slot /\ Goto(r, "dropParts") /\ Fault("redis")
  /\ UNCHANGED <<record, storageVars, index, taskVars, live>>

-----------------------------------------------------------------------------
(* DELETE /api/uploads/{job}/{idx} *)

Abort(r) ==
  /\ Arrive(r, "abort")
  /\ \/ /\ record = None \/ RecordIs("completing")
        /\ Enter(r, "abort", None, "done", "done")
     \/ /\ RecordIs("uploading")
        /\ Enter(r, "abort", record.upload, "dropParts", "clear")
  /\ UNCHANGED <<record, slot, storageVars, index, taskVars, live>>

Cancelled(r) ==
  /\ At(r, "cancelled")
  /\ SetSlot("error")
  /\ Goto(r, "done")
  /\ NoFault
  /\ UNCHANGED <<record, storageVars, index, taskVars, live>>

-----------------------------------------------------------------------------
(* POST /api/uploads/{job}/{idx}/complete *)

Complete(r) ==
  /\ Arrive(r, "complete")
  /\ \/ record = None /\ Enter(r, "complete", None, "done", "done")
     \/ record # None /\ Enter(r, "complete", record.upload, "claim", "done")
  /\ UNCHANGED <<record, slot, storageVars, index, taskVars, live>>

\* The atomic step that lets one completion through.
Claim(r) ==
  /\ At(r, "claim")
  /\ \/ /\ Transition("uploading", "completing")
        /\ Goto(r, "backend")
     \/ /\ ~RecordIs("uploading")
        /\ Goto(r, "done")
        /\ UNCHANGED record
  /\ NoFault
  /\ UNCHANGED <<slot, storageVars, index, taskVars, live>>

\* _storage_or_503: a server restarted without direct upload answers 503.
Backend(r) ==
  /\ At(r, "backend")
  /\ \/ Goto(r, "list") /\ NoFault
     \/ Goto(r, "done") /\ Fault("disabled")
  /\ UNCHANGED <<record, slot, storageVars, index, taskVars, live>>

\* list_parts and verify_parts of finalize_upload.
ListParts(r) ==
  LET u == req[r].upload IN
  /\ At(r, "list")
  /\ \/ u \in open /\ u \in parts /\ Goto(r, "assemble") /\ UNCHANGED index /\ NoFault
     \/ u \in open /\ u \notin parts /\ Goto(r, "release") /\ UNCHANGED index /\ NoFault
     \/ u \notin open /\ Goto(r, "forget") /\ CloseIndex(u)
     \/ Goto(r, "release") /\ UNCHANGED index /\ Fault("storage")
  /\ UNCHANGED <<record, slot, storageVars, taskVars, live>>

\* complete_multipart_upload consumes the upload and writes the object.  When
\* the call fails it may or may not have been carried out.
Assemble(r) ==
  LET u == req[r].upload IN
  /\ At(r, "assemble")
  /\ \/ /\ u \in open
        /\ open' = open \ {u}
        /\ object' = u
        /\ \/ Goto(r, "stat") /\ NoFault
           \/ Goto(r, "release") /\ Fault("storage")
        /\ UNCHANGED index
     \/ /\ u \notin open
        /\ Goto(r, "forget")
        /\ CloseIndex(u)
        /\ UNCHANGED <<open, object>>
     \/ /\ Goto(r, "release")
        /\ Fault("storage")
        /\ UNCHANGED <<open, object, index>>
  /\ UNCHANGED <<record, slot, parts, created, taskVars, live>>

\* Its closing HEAD on the object; ObjectNotFound is a StorageError as well.
Stat(r) ==
  /\ At(r, "stat")
  /\ \/ object # None /\ Goto(r, "close") /\ NoFault
     \/ object = None /\ Goto(r, "release") /\ NoFault
     \/ Goto(r, "release") /\ Fault("storage")
  /\ UNCHANGED <<record, slot, storageVars, index, taskVars, live>>

CloseCompleted(r) ==
  /\ At(r, "close")
  /\ CloseIndex(req[r].upload)
  /\ Goto(r, "verify")
  /\ UNCHANGED <<record, slot, storageVars, taskVars, live>>

\* The size is compared with the declared one.
Verify(r) ==
  /\ At(r, "verify")
  /\ \/ Goto(r, "handoff") /\ NoFault
     \/ Goto(r, "mismatch") /\ Fault("mismatch")
  /\ UNCHANGED <<record, slot, storageVars, index, taskVars, live>>

\* An object of another size is discarded inside finalize_upload.
DiscardMismatch(r) ==
  /\ At(r, "mismatch")
  /\ DiscardObject
  /\ Goto(r, "forget")
  /\ UNCHANGED <<record, slot, parts, open, created, index, taskVars, live>>

\* UploadIncomplete and StorageError give the slot back to the client.
Release(r) ==
  /\ At(r, "release")
  /\ \/ Transition("completing", "uploading")
     \/ ~RecordIs("completing") /\ UNCHANGED record
  /\ Goto(r, "done")
  /\ NoFault
  /\ UNCHANGED <<slot, storageVars, index, taskVars, live>>

\* UploadConflict and UploadVerificationFailed: clear_upload, slot error.
Forget(r) ==
  /\ At(r, "forget")
  /\ record' = None
  /\ Goto(r, "failed")
  /\ NoFault
  /\ UNCHANGED <<slot, storageVars, index, taskVars, live>>

Failed(r) ==
  /\ At(r, "failed")
  /\ SetSlot("error")
  /\ Goto(r, "done")
  /\ NoFault
  /\ UNCHANGED <<record, storageVars, index, taskVars, live>>

\* The hand-off: clear_upload, slot pending, one message for the worker.
HandOff(r) ==
  /\ At(r, "handoff")
  /\ record' = None
  /\ Goto(r, "pending")
  /\ NoFault
  /\ UNCHANGED <<slot, storageVars, index, taskVars, live>>

MarkPending(r) ==
  /\ At(r, "pending")
  /\ SetSlot("pending")
  /\ Goto(r, "dispatch")
  /\ NoFault
  /\ UNCHANGED <<record, storageVars, index, taskVars, live>>

\* _dispatch_celery, also at the end of the classic batch upload.  The broker
\* may have the message although its answer is lost ("confirm"): Celery then
\* publishes it again, or its retries are used up and apply_async raises.
Dispatch(r) ==
  LET u == req[r].upload IN
  /\ At(r, "dispatch")
  /\ \/ /\ queue' = queue + 1
        /\ dispatched' = IF u = None THEN dispatched
                         ELSE [dispatched EXCEPT ![u] = @ + 1]
        /\ \/ Goto(r, "done") /\ NoFault
           \/ Goto(r, "dispatch") /\ Fault("confirm")
           \/ Goto(r, "undo") /\ Fault("confirm")
     \/ /\ Goto(r, "undo")
        /\ Fault("broker")
        /\ UNCHANGED <<queue, dispatched>>
  /\ UNCHANGED <<record, slot, storageVars, index, working, live>>

\* Stored but never queued: drop the object, fail the slot.
UndoStore(r) ==
  /\ At(r, "undo")
  /\ DiscardObject
  /\ Goto(r, "unqueued")
  /\ UNCHANGED <<record, slot, parts, open, created, index, taskVars, live>>

Unqueued(r) ==
  /\ At(r, "unqueued")
  /\ SetSlot("error")
  /\ Goto(r, "done")
  /\ NoFault
  /\ UNCHANGED <<record, storageVars, index, taskVars, live>>

-----------------------------------------------------------------------------
(* POST /api/batch/{job}/upload: the classic upload through the API *)

\* Refused while a direct upload owns the slot; an unknown planning plant fails it.
BatchUpload(r) ==
  /\ Arrive(r, "batch")
  /\ \/ slot = "uploading" /\ Enter(r, "batch", None, "done", "done") /\ UNCHANGED slot
     \/ slot # "uploading" /\ Enter(r, "batch", None, "store", "done") /\ UNCHANGED slot
     \/ slot # "uploading" /\ Enter(r, "batch", None, "done", "done") /\ SetSlot("error")
  /\ UNCHANGED <<record, storageVars, index, taskVars, live>>

\* Stream to disk, then put the object under the slot's key.
StoreUpload(r) ==
  /\ At(r, "store")
  /\ \/ object' = Api /\ Goto(r, "dispatch") /\ NoFault
     \/ UNCHANGED object /\ Goto(r, "storeFailed") /\ Fault("storage")
  /\ UNCHANGED <<record, slot, parts, open, created, index, taskVars, live>>

StoreFailed(r) ==
  /\ At(r, "storeFailed")
  /\ SetSlot("error")
  /\ Goto(r, "done")
  /\ NoFault
  /\ UNCHANGED <<record, storageVars, index, taskVars, live>>

-----------------------------------------------------------------------------
(* The worker, the cleanup, and what may strike *)

\* A worker takes a message and marks the slot running.
WorkerStarts ==
  /\ queue > 0
  /\ queue' = queue - 1
  /\ working' = working + 1
  /\ SetSlot("running")
  /\ UNCHANGED <<req, record, storageVars, index, dispatched, live, faults>>

\* It discards the object and leaves a verdict, the subject of ExtractionTask.
WorkerEnds ==
  /\ working > 0
  /\ working' = working - 1
  /\ object' = None
  /\ SetSlot("ok") \/ SetSlot("error")
  /\ UNCHANGED <<req, record, parts, open, created, index, queue, dispatched, live, faults>>

\* The job's TTL passes ...
Expire ==
  /\ live
  /\ live' = FALSE
  /\ UNCHANGED <<req, record, slot, storageVars, index, taskVars, faults>>

\* ... and the record's, five minutes later at least: after any request.
RecordExpires ==
  /\ ~live /\ Quiet
  /\ record # None
  /\ record' = None
  /\ UNCHANGED <<req, slot, storageVars, index, taskVars, live, faults>>

\* reclaim_abandoned_uploads: entries older than the stale limit, which is
\* longer than the life of any job and of any request.
Reclaim(u) ==
  /\ ~live /\ Quiet
  /\ u \in index
  /\ \/ open' = open \ {u} /\ parts' = parts \ {u} /\ CloseIndex(u)
     \/ UNCHANGED <<open, parts, index>> /\ Fault("storage")
  /\ UNCHANGED <<req, record, slot, created, object, taskVars, live>>

\* Stale source objects are deleted by the same nightly task.
SweepObject ==
  /\ ~live /\ Quiet
  /\ object # None
  /\ object' = None
  /\ UNCHANGED <<req, record, slot, parts, open, created, index, taskVars, live, faults>>

\* The handler dies at an await: the process stops, or a store call raises
\* where nothing catches it.
Die(r) ==
  /\ InFlight(r)
  /\ Fault("die")
  /\ Goto(r, "done")
  /\ UNCHANGED <<record, slot, storageVars, index, taskVars, live>>

-----------------------------------------------------------------------------

Handle(r) ==
  \/ DropParts(r) \/ DropObject(r) \/ ClearDropped(r)
  \/ CreateMultipart(r) \/ IndexOpen(r) \/ Presign(r) \/ Unsign(r)
  \/ SetRecord(r) \/ MarkUploading(r)
  \/ Cancelled(r)
  \/ Claim(r) \/ Backend(r) \/ ListParts(r) \/ Assemble(r) \/ Stat(r)
  \/ CloseCompleted(r) \/ Verify(r) \/ DiscardMismatch(r) \/ Release(r)
  \/ Forget(r) \/ Failed(r) \/ HandOff(r) \/ MarkPending(r)
  \/ Dispatch(r) \/ UndoStore(r) \/ Unqueued(r)
  \/ StoreUpload(r) \/ StoreFailed(r)

Call(r) == Initiate(r) \/ Abort(r) \/ Complete(r) \/ BatchUpload(r)

Clean == (\E u \in Uploads : Reclaim(u)) \/ SweepObject

Next ==
  \/ \E r \in Requests : Call(r) \/ Handle(r) \/ Die(r)
  \/ \E u \in Uploads : PutParts(u)
  \/ WorkerStarts \/ WorkerEnds
  \/ Expire \/ RecordExpires \/ Clean

Spec == Init /\ [][Next]_vars

\* Requests that arrived are handled, workers run, jobs expire, and the
\* cleanup comes every night.  Clients owe nothing.
FairSpec ==
  /\ Spec
  /\ \A r \in Requests : WF_vars(Handle(r))
  /\ WF_vars(WorkerStarts) /\ WF_vars(WorkerEnds)
  /\ WF_vars(Expire) /\ WF_vars(Clean)

-----------------------------------------------------------------------------
(* Properties *)

\* Between its claim and the step that gives the slot up, a completion owns it.
Holding(r) ==
  req[r].pc \in {"backend", "list", "assemble", "stat", "close", "verify",
                 "mismatch", "release", "forget", "handoff"}

\* Inside abort_upload, on behalf of an abort or of a second initiate.
Dismantling(r) == req[r].pc \in {"dropParts", "dropObject", "clear"}

\* How often the broker's answer was lost.
Lost == MaxFaults["confirm"] - faults["confirm"]

\* No upload is queued by two of its requests: whatever requests race and fail, one
\* multipart upload leads to one message for the workers, and to one more only for
\* each answer of the broker that was lost.
DispatchedOnce == \A u \in Uploads : dispatched[u] <= 1 + Lost

\* A record in state "completing" is being completed: some completion is there
\* to move it on.  Nothing else would before the job's TTL.
CompletingIsHeld == RecordIs("completing") => \E r \in Requests : Holding(r)

\* Nothing but one upload and its completions: no abort, no batch upload.
OnlyCompletions == \A r \in Requests : req[r].op \notin {"abort", "batch"}

\* transition_upload lets one completion through at a time.
OneHolder == \A r, q \in Requests : Holding(r) /\ Holding(q) => r = q

\* While one completion holds the slot every other call is refused: no abort
\* and no second initiate takes the upload apart under it.
HolderIsAlone ==
  \A r, q \in Requests : Holding(r) => ~Dismantling(q)

\* However often a client completes, with no abort or batch upload on the way: a message on
\* the broker finds its object in storage as long as the job lives.
QueuedHasObject == OnlyCompletions /\ Spared({"confirm", "redis"}) /\ live /\ queue > 0 => object # None

\* And a slot that shows an error has no extraction waiting for it.
FailedIsNotQueued == OnlyCompletions /\ Spared({"confirm", "redis"}) /\ live /\ slot = "error" => queue = 0

\* When no request is under way, a source object belongs to a message that is
\* queued or being processed: "nothing is left behind".
NothingLeftBehind == Quiet /\ object # None => queue + working > 0

\* As long as the client waits for each answer and the job store answers: when no request
\* is under way, a slot that shows "uploading" has the record without which it can be
\* neither completed nor cancelled.
UploadingIsRecorded ==
  Spared({"overlap", "redis", "die"}) /\ Quiet /\ live /\ slot = "uploading" => record # None

\* Every upload MinIO holds open is known to the cleanup, or is about to be.
OpenIsIndexed ==
  \A u \in open :
    u \in index \/ \E r \in Requests : At(r, "index") /\ req[r].upload = u

\* What was started and abandoned disappears from MinIO in the end.
EventuallyClean == <>[](open = {} /\ object = None)

=============================================================================
