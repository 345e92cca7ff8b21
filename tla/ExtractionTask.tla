--------------------------- MODULE ExtractionTask ---------------------------
(***************************************************************************)
(* The Celery worker task process_file_task: what happens to one uploaded  *)
(* SPIR workbook between the moment its message is on the broker and the   *)
(* moment the last copy of that message is gone.                           *)
(*                                                                         *)
(* Actors: the worker processes, the broker (Redis through Celery, with    *)
(* late acknowledgement), the source object in the BATCH_UPLOADS area, the *)
(* job slot in Redis, the delivery counter spir:dlv:<key>, and the three   *)
(* best-effort records written after a success (rows:<file_id>, the rows   *)
(* JSON on disk, the extraction_history row).                              *)
(*                                                                         *)
(* Every remote call of the task is a step of its own, so a crash or       *)
(* another worker can come between any two of them.  What goes wrong in    *)
(* the environment is a fault; MaxFaults bounds how often each kind occurs.*)
(***************************************************************************)
EXTENDS Naturals, FiniteSets

CONSTANTS
  Files,              \* uploaded files, each with its slot and source object
  Workers,            \* worker processes
  NoTask,             \* what an idle worker holds
  MaxRetries,         \* max_retries of the task decorator
  DeliveryCap,        \* _DELIVERY_CAP
  VisibilityTimeout,  \* broker_transport_options, in seconds
  TimeLimit,          \* hard time limit of the queue each file was routed to
  InPlace,            \* TRUE for the filesystem backend: no local copy is made
  MaxFaults           \* how often each kind of fault may strike

\* softlimit: the soft time limit where the task handles or swallows it; escape:
\* the soft time limit where nothing does.
FaultKinds == {"crash", "transient", "softlimit", "escape", "hardlimit",
               "redis", "storage", "persist", "lapse"}

ASSUME RetriesAssumption == MaxRetries \in Nat
ASSUME CapAssumption == DeliveryCap \in Nat \ {0}
ASSUME LimitsAssumption ==
  VisibilityTimeout \in Nat /\ TimeLimit \in [Files -> Nat] /\ InPlace \in BOOLEAN
ASSUME FaultsAssumption == MaxFaults \in [FaultKinds -> Nat]

\* The delivery a worker is busy with.  held: the broker still counts it as
\* unacknowledged and will requeue it if the worker dies.  timed: the soft
\* time limit was already raised, Celery raises it once per execution.
\* id: the file_id this execution obtained from run_pipeline, 0 before.
Task == [file : Files, retries : 0 .. MaxRetries,
         held : BOOLEAN, timed : BOOLEAN, id : Nat]

ASSUME NoTaskAssumption == NoTask \notin Task

\* Where a worker stands in process_file_task.
PC == {"idle", "count", "mark", "stage", "extract", "discard", "ok", "rows",
       "json", "history", "missing", "drop", "fail", "retry", "ack"}

Final == {"ok", "error"}
Status == {"pending", "running"} \cup Final

VARIABLES
  pc, task,     \* per worker
  queue,        \* ready messages per file and retry count
  deliveries,   \* the counter spir:dlv:<source_key>
  admitted,     \* executions the delivery cap let through
  uncounted,    \* of those, the ones whose INCR/EXPIRE failed
  source,       \* is the source object in storage?
  leaked,       \* did a discard of the source object fail, only logged?
  slot,         \* FileResult of the job store: status and file_id
  results,      \* number of result workbooks stored; they are 1 .. results
  rows, json, history,  \* file_ids with a record of each kind
  upload,       \* what was uploaded: a good workbook, one that is rejected,
                \* or one whose message carries no valid planning plant
  faults        \* faults still allowed

counterVars == <<deliveries, admitted, uncounted>>
sourceVars == <<source, leaked>>
recordVars == <<results, rows, json, history>>
vars == <<pc, task, queue, deliveries, admitted, uncounted, source, leaked,
          slot, results, rows, json, history, upload, faults>>

WorkerTypes ==
  /\ pc \in [Workers -> PC]
  /\ task \in [Workers -> Task \cup {NoTask}]
  /\ \A w \in Workers : pc[w] # "idle" => task[w] \in Task

CounterTypes ==
  /\ queue \in [Files \X (0 .. MaxRetries) -> Nat]
  /\ deliveries \in [Files -> Nat]
  /\ admitted \in [Files -> Nat]
  /\ uncounted \in [Files -> Nat]
  /\ results \in [Files -> Nat]
  /\ faults \in [FaultKinds -> Nat]

StoreTypes ==
  /\ source \in [Files -> BOOLEAN]
  /\ leaked \in [Files -> BOOLEAN]
  /\ slot \in [Files -> [status : Status, id : Nat]]
  /\ rows \in [Files -> SUBSET Nat]
  /\ json \in [Files -> SUBSET Nat]
  /\ history \in [Files -> SUBSET Nat]
  /\ upload \in [Files -> {"good", "rejected", "noplant"}]

TypeOK == WorkerTypes /\ CounterTypes /\ StoreTypes

\* The API stored the object, created the slot and published one message.
Init ==
  /\ pc = [w \in Workers |-> "idle"]
  /\ task = [w \in Workers |-> NoTask]
  /\ queue = [m \in Files \X (0 .. MaxRetries) |-> IF m[2] = 0 THEN 1 ELSE 0]
  /\ deliveries = [f \in Files |-> 0]
  /\ admitted = [f \in Files |-> 0]
  /\ uncounted = [f \in Files |-> 0]
  /\ source = [f \in Files |-> TRUE]
  /\ leaked = [f \in Files |-> FALSE]
  /\ slot = [f \in Files |-> [status |-> "pending", id |-> 0]]
  /\ results = [f \in Files |-> 0]
  /\ rows = [f \in Files |-> {}]
  /\ json = [f \in Files |-> {}]
  /\ history = [f \in Files |-> {}]
  /\ upload \in [Files -> {"good", "rejected", "noplant"}]
  /\ faults = MaxFaults

-----------------------------------------------------------------------------
(* Helpers *)

Goto(w, label) == pc' = [pc EXCEPT ![w] = label]

Fault(k) ==
  /\ faults[k] > 0
  /\ faults' = [faults EXCEPT ![k] = @ - 1]

NoFault == UNCHANGED faults

\* One more ready copy of the message of file f that has been retried r times.
Publish(f, r) == queue' = [queue EXCEPT ![<<f, r>>] = @ + 1]

SetSlot(f, status, id) ==
  slot' = [slot EXCEPT ![f] = [status |-> status, id |-> id]]

\* discard_source_object never raises: the object is deleted, or the failure
\* is logged and the object stays.
Discarded(f) ==
  /\ source' = [source EXCEPT ![f] = FALSE]
  /\ UNCHANGED leaked

DiscardFailed(f) ==
  /\ leaked' = [leaked EXCEPT ![f] = TRUE]
  /\ UNCHANGED source

\* Somebody will still act on file f.
Busy(f) ==
  \/ \E w \in Workers : pc[w] # "idle" /\ task[w].file = f
  \/ \E r \in 0 .. MaxRetries : queue[<<f, r>>] > 0

-----------------------------------------------------------------------------
(* Mutants: plausible slips in the steps below, which the properties detect *)

\* Marks the slot with a status of its own, which FileResult does not know.
MarkRunningMisnamed(w) ==
  /\ pc[w] = "mark"
  /\ SetSlot(task[w].file, "processing", 0)
  /\ Goto(w, "stage")
  /\ NoFault
  /\ UNCHANGED <<task, queue, counterVars, sourceVars, recordVars, upload>>

\* Compares the count from before the INCR with the cap.
CountDeliveryLate(w) ==
  LET f == task[w].file IN
  /\ pc[w] = "count"
  /\ deliveries' = [deliveries EXCEPT ![f] = @ + 1]
  /\ IF deliveries[f] > DeliveryCap
     THEN Goto(w, "drop") /\ UNCHANGED admitted
     ELSE Goto(w, "mark") /\ admitted' = [admitted EXCEPT ![f] = @ + 1]
  /\ NoFault
  /\ UNCHANGED <<task, queue, uncounted, sourceVars, slot, recordVars, upload>>

\* Keeps the source object of a file that failed for good.
DropSourceSkipped(w) ==
  /\ pc[w] = "drop"
  /\ Goto(w, "fail")
  /\ NoFault
  /\ UNCHANGED <<task, queue, counterVars, sourceVars, slot, recordVars, upload>>

\* Gives up one attempt early.
RetryTooFew(w) ==
  LET f == task[w].file  r == task[w].retries IN
  /\ pc[w] = "retry"
  /\ IF r + 1 < MaxRetries THEN Publish(f, r + 1) ELSE UNCHANGED queue
  /\ Goto(w, "ack")
  /\ NoFault
  /\ UNCHANGED <<task, counterVars, sourceVars, slot, recordVars, upload>>

\* Rejects the message with requeue instead of acknowledging it.
AckRequeues(w) ==
  /\ pc[w] = "ack"
  /\ Publish(task[w].file, task[w].retries)
  /\ Goto(w, "idle")
  /\ task' = [task EXCEPT ![w] = NoTask]
  /\ NoFault
  /\ UNCHANGED <<counterVars, sourceVars, slot, recordVars, upload>>

\* Without reject_on_worker_lost: a lost worker's message is acknowledged.
CrashAcknowledged(w) ==
  /\ pc[w] # "idle"
  /\ Fault("crash")
  /\ Goto(w, "idle")
  /\ task' = [task EXCEPT ![w] = NoTask]
  /\ UNCHANGED <<queue, counterVars, sourceVars, slot, recordVars, upload>>

-----------------------------------------------------------------------------
(* Steps of a worker executing the task *)

\* The broker hands a message to an idle worker, which resolves the planning
\* plant first: without a valid one the file fails at once.
Deliver(w, f, r) ==
  /\ pc[w] = "idle"
  /\ queue[<<f, r>>] > 0
  /\ queue' = [queue EXCEPT ![<<f, r>>] = @ - 1]
  /\ task' = [task EXCEPT ![w] = [file |-> f, retries |-> r, held |-> TRUE,
                                  timed |-> FALSE, id |-> 0]]
  /\ Goto(w, IF upload[f] = "noplant" THEN "drop" ELSE "count")
  /\ NoFault
  /\ UNCHANGED <<counterVars, sourceVars, slot, recordVars, upload>>

\* INCR spir:dlv:<key>; above the cap the file is given up.
CountDelivery(w) ==
  LET f == task[w].file IN
  /\ pc[w] = "count"
  /\ deliveries' = [deliveries EXCEPT ![f] = @ + 1]
  /\ IF deliveries[f] + 1 > DeliveryCap
     THEN Goto(w, "drop") /\ UNCHANGED admitted
     ELSE Goto(w, "mark") /\ admitted' = [admitted EXCEPT ![f] = @ + 1]
  /\ NoFault
  /\ UNCHANGED <<task, queue, uncounted, sourceVars, slot, recordVars, upload>>

\* Redis fails on the INCR, or on the EXPIRE after an applied INCR: either way
\* the count is taken to be 1, which is never above the cap.
Uncounted(f) ==
  /\ \E applied \in {0, 1} :
       deliveries' = [deliveries EXCEPT ![f] = @ + applied]
  /\ admitted' = [admitted EXCEPT ![f] = @ + 1]
  /\ uncounted' = [uncounted EXCEPT ![f] = @ + 1]

CountUnavailable(w) ==
  /\ pc[w] = "count"
  /\ Fault("redis")
  /\ Uncounted(task[w].file)
  /\ Goto(w, "mark")
  /\ UNCHANGED <<task, queue, sourceVars, slot, recordVars, upload>>

\* update_result(running).
MarkRunning(w) ==
  /\ pc[w] = "mark"
  /\ SetSlot(task[w].file, "running", 0)
  /\ Goto(w, "stage")
  /\ NoFault
  /\ UNCHANGED <<task, queue, counterVars, sourceVars, recordVars, upload>>

\* This write is outside the task's try: a Redis error fails the task, which
\* Celery acknowledges, and the slot keeps what it had.
MarkRunningFails(w) ==
  /\ pc[w] = "mark"
  /\ Fault("redis")
  /\ Goto(w, "ack")
  /\ UNCHANGED <<task, queue, counterVars, sourceVars, slot, recordVars, upload>>

\* staged_source: the object's own file, or a download of it.
Stage(w) ==
  /\ pc[w] = "stage"
  /\ Goto(w, IF source[task[w].file] THEN "extract" ELSE "missing")
  /\ NoFault
  /\ UNCHANGED <<task, queue, counterVars, sourceVars, slot, recordVars, upload>>

\* sanitize + run_pipeline succeed: a result workbook exists under a new id.
ExtractSucceeds(w) ==
  LET f == task[w].file IN
  /\ pc[w] = "extract"
  /\ upload[f] = "good"
  /\ results' = [results EXCEPT ![f] = @ + 1]
  /\ task' = [task EXCEPT ![w].id = results[f] + 1]
  /\ Goto(w, "discard")
  /\ NoFault
  /\ UNCHANGED <<queue, counterVars, sourceVars, slot, rows, json, history, upload>>

\* ValidationError / InvalidFileException: the same on every attempt.
ExtractRejects(w) ==
  /\ pc[w] = "extract"
  /\ upload[task[w].file] = "rejected"
  /\ Goto(w, "drop")
  /\ NoFault
  /\ UNCHANGED <<task, queue, counterVars, sourceVars, slot, recordVars, upload>>

\* Processed in place, the file may vanish before the pipeline opens it.
ExtractLosesFile(w) ==
  /\ pc[w] = "extract"
  /\ InPlace /\ ~source[task[w].file]
  /\ Goto(w, "retry")
  /\ NoFault
  /\ UNCHANGED <<task, queue, counterVars, sourceVars, slot, recordVars, upload>>

\* StorageUnavailable while downloading, or any other exception of the
\* pipeline, is an attempt that may be retried.
TransientFailure(w) ==
  /\ pc[w] \in {"stage", "extract"}
  /\ Fault("transient")
  /\ Goto(w, "retry")
  /\ UNCHANGED <<task, queue, counterVars, sourceVars, slot, recordVars, upload>>

\* discard_source_object after a success comes before the slot is written.
DiscardExtracted(w) ==
  LET f == task[w].file IN
  /\ pc[w] = "discard"
  /\ \/ Discarded(f) /\ NoFault
     \/ DiscardFailed(f) /\ Fault("storage")
  /\ Goto(w, "ok")
  /\ UNCHANGED <<task, queue, counterVars, slot, recordVars, upload>>

\* update_result(ok, file_id).
WriteOk(w) ==
  /\ pc[w] = "ok"
  /\ SetSlot(task[w].file, "ok", task[w].id)
  /\ Goto(w, "rows")
  /\ NoFault
  /\ UNCHANGED <<task, queue, counterVars, sourceVars, recordVars, upload>>

\* A Redis error here is caught by the generic handler and retried, although
\* the source object is gone by now.
WriteOkFails(w) ==
  /\ pc[w] = "ok"
  /\ Fault("redis")
  /\ Goto(w, "retry")
  /\ UNCHANGED <<task, queue, counterVars, sourceVars, slot, recordVars, upload>>

\* The three best-effort writes after a success: each swallows its errors.
PersistRows(w) ==
  LET f == task[w].file IN
  /\ pc[w] = "rows"
  /\ \/ rows' = [rows EXCEPT ![f] = @ \cup {task[w].id}] /\ NoFault
     \/ UNCHANGED rows /\ Fault("persist")
  /\ Goto(w, "json")
  /\ UNCHANGED <<task, queue, counterVars, sourceVars, slot, results, json, history, upload>>

PersistJson(w) ==
  LET f == task[w].file IN
  /\ pc[w] = "json"
  /\ \/ json' = [json EXCEPT ![f] = @ \cup {task[w].id}] /\ NoFault
     \/ UNCHANGED json /\ Fault("persist")
  /\ Goto(w, "history")
  /\ UNCHANGED <<task, queue, counterVars, sourceVars, slot, results, rows, history, upload>>

LogHistory(w) ==
  LET f == task[w].file IN
  /\ pc[w] = "history"
  /\ \/ history' = [history EXCEPT ![f] = @ \cup {task[w].id}] /\ NoFault
     \/ UNCHANGED history /\ Fault("persist")
  /\ Goto(w, "ack")
  /\ UNCHANGED <<task, queue, counterVars, sourceVars, slot, results, rows, json, upload>>

\* ObjectNotFound: nothing to retry against, the slot fails.  The write is
\* inside the outer try, so a Redis error goes to the generic handler.
WriteMissing(w) ==
  /\ pc[w] = "missing"
  /\ \/ /\ SetSlot(task[w].file, "error", 0)
        /\ Goto(w, "ack")
        /\ NoFault
     \/ /\ Fault("redis")
        /\ Goto(w, "retry")
        /\ UNCHANGED slot
  /\ UNCHANGED <<task, queue, counterVars, sourceVars, recordVars, upload>>

\* A failure that is final drops the source object first ...
DropSource(w) ==
  LET f == task[w].file IN
  /\ pc[w] = "drop"
  /\ \/ Discarded(f) /\ NoFault
     \/ DiscardFailed(f) /\ Fault("storage")
  /\ Goto(w, "fail")
  /\ UNCHANGED <<task, queue, counterVars, slot, recordVars, upload>>

\* ... and then writes the error.  A Redis error at this point leaves a
\* handler or the function itself and fails the task.
WriteError(w) ==
  /\ pc[w] = "fail"
  /\ \/ SetSlot(task[w].file, "error", 0) /\ NoFault
     \/ UNCHANGED slot /\ Fault("redis")
  /\ Goto(w, "ack")
  /\ UNCHANGED <<task, queue, counterVars, sourceVars, recordVars, upload>>

\* self.retry(exc=exc) publishes the next attempt.  With no retry left Celery
\* re-raises the exc it was given rather than MaxRetriesExceededError, so the
\* handler of the latter does not run and the task just fails.
Retry(w) ==
  LET f == task[w].file  r == task[w].retries IN
  /\ pc[w] = "retry"
  /\ IF r < MaxRetries THEN Publish(f, r + 1) ELSE UNCHANGED queue
  /\ Goto(w, "ack")
  /\ NoFault
  /\ UNCHANGED <<task, counterVars, sourceVars, slot, recordVars, upload>>

\* The broker fails while the next attempt is published: Celery publishes it
\* again after a lost answer, or gives up and rejects the message for good.
RetryFails(w) ==
  LET f == task[w].file  r == task[w].retries IN
  /\ pc[w] = "retry"
  /\ r < MaxRetries
  /\ Fault("redis")
  /\ \E copies \in {0, 2} : queue' = [queue EXCEPT ![<<f, r + 1>>] = @ + copies]
  /\ Goto(w, "ack")
  /\ UNCHANGED <<task, counterVars, sourceVars, slot, recordVars, upload>>

\* Late acknowledgement: return, failure and retry alike end the delivery.
Ack(w) ==
  /\ pc[w] = "ack"
  /\ Goto(w, "idle")
  /\ task' = [task EXCEPT ![w] = NoTask]
  /\ NoFault
  /\ UNCHANGED <<queue, counterVars, sourceVars, slot, recordVars, upload>>

-----------------------------------------------------------------------------
(* What can strike a worker from outside *)

\* The process dies (out of memory, SIGKILL): reject_on_worker_lost requeues
\* the message it held, with the same retry count.
Crash(w) ==
  /\ pc[w] # "idle"
  /\ Fault("crash")
  /\ IF task[w].held THEN Publish(task[w].file, task[w].retries) ELSE UNCHANGED queue
  /\ Goto(w, "idle")
  /\ task' = [task EXCEPT ![w] = NoTask]
  /\ UNCHANGED <<counterVars, sourceVars, slot, recordVars, upload>>

\* SoftTimeLimitExceeded is raised wherever worker w is, once per execution.
Interrupted(w, k, label) ==
  /\ ~task[w].timed
  /\ Fault(k)
  /\ task' = [task EXCEPT ![w].timed = TRUE]
  /\ Goto(w, label)

\* In the body of the try it is final for the file.  It may come before or
\* after the effect of the call it interrupts.
SoftLimitHandled(w) ==
  LET f == task[w].file IN
  /\ \/ /\ pc[w] \in {"stage", "extract", "missing", "discard", "ok", "rows", "json", "history"}
        /\ UNCHANGED <<sourceVars, slot>>
     \/ pc[w] = "discard" /\ Discarded(f) /\ UNCHANGED slot
     \/ pc[w] = "missing" /\ SetSlot(f, "error", 0) /\ UNCHANGED sourceVars
     \/ pc[w] = "ok" /\ SetSlot(f, "ok", task[w].id) /\ UNCHANGED sourceVars
  /\ Interrupted(w, "softlimit", "drop")
  /\ UNCHANGED <<queue, counterVars, recordVars, upload>>

\* It is an Exception, and many a try takes it for a failure of what it does and
\* goes on: the delivery counter, sanitizer and extractor, discard_source_object,
\* and the three records, of which one is lost.
SoftLimitSwallowed(w) ==
  LET f == task[w].file IN
  /\ \/ /\ pc[w] = "count" /\ Interrupted(w, "softlimit", "mark")
        /\ Uncounted(f)
        /\ UNCHANGED sourceVars
     \/ /\ \E step \in {<<"extract", "extract">>, <<"rows", "json">>,
                        <<"json", "history">>, <<"history", "ack">>} :
             pc[w] = step[1] /\ Interrupted(w, "softlimit", step[2])
        /\ UNCHANGED <<counterVars, sourceVars>>
     \/ /\ \E step \in {<<"discard", "ok">>, <<"drop", "fail">>} :
             pc[w] = step[1] /\ Interrupted(w, "softlimit", step[2])
        /\ Discarded(f) \/ DiscardFailed(f)
        /\ UNCHANGED counterVars
  /\ UNCHANGED <<queue, slot, recordVars, upload>>

\* Before the try and in its handlers nothing catches it: the task fails with the
\* exception and the message is acknowledged, the interrupted call done or not.
SoftLimitEscapes(w) ==
  LET f == task[w].file  r == task[w].retries IN
  /\ \/ /\ pc[w] \in {"count", "mark", "drop", "fail", "retry"}
        /\ UNCHANGED <<queue, sourceVars, slot>>
     \/ pc[w] = "mark" /\ SetSlot(f, "running", 0) /\ UNCHANGED <<queue, sourceVars>>
     \/ pc[w] = "drop" /\ Discarded(f) /\ UNCHANGED <<queue, slot>>
     \/ pc[w] = "fail" /\ SetSlot(f, "error", 0) /\ UNCHANGED <<queue, sourceVars>>
     \/ /\ pc[w] = "retry" /\ r < MaxRetries /\ Publish(f, r + 1)
        /\ UNCHANGED <<sourceVars, slot>>
  /\ Interrupted(w, "escape", "ack")
  /\ UNCHANGED <<counterVars, recordVars, upload>>

\* The hard limit kills the process at any line and Celery acknowledges the message.
HardTimeLimit(w) ==
  /\ pc[w] # "idle"
  /\ Fault("hardlimit")
  /\ Goto(w, "idle")
  /\ task' = [task EXCEPT ![w] = NoTask]
  /\ UNCHANGED <<queue, counterVars, sourceVars, slot, recordVars, upload>>

\* A message unacknowledged for longer than the visibility timeout is restored
\* to the queue while its worker goes on.  That takes a queue whose hard limit
\* lets a task run so long, and a worker that has been reading the workbook all
\* that time: the other steps last moments.
VisibilityLapse(w) ==
  LET f == task[w].file IN
  /\ pc[w] = "extract"
  /\ task[w].held
  /\ TimeLimit[f] > VisibilityTimeout
  /\ Fault("lapse")
  /\ Publish(f, task[w].retries)
  /\ task' = [task EXCEPT ![w].held = FALSE]
  /\ UNCHANGED <<pc, counterVars, sourceVars, slot, recordVars, upload>>

-----------------------------------------------------------------------------

Execute(w) ==
  \/ CountDelivery(w)
  \/ MarkRunning(w)
  \/ Stage(w)
  \/ ExtractSucceeds(w)
  \/ ExtractRejects(w)
  \/ ExtractLosesFile(w)
  \/ DiscardExtracted(w)
  \/ WriteOk(w)
  \/ PersistRows(w)
  \/ PersistJson(w)
  \/ LogHistory(w)
  \/ WriteMissing(w)
  \/ DropSource(w)
  \/ WriteError(w)
  \/ Retry(w)
  \/ Ack(w)

Receive(w) == \E f \in Files, r \in 0 .. MaxRetries : Deliver(w, f, r)

Disturb(w) ==
  \/ CountUnavailable(w)
  \/ MarkRunningFails(w)
  \/ TransientFailure(w)
  \/ WriteOkFails(w)
  \/ RetryFails(w)
  \/ Crash(w)
  \/ SoftLimitHandled(w)
  \/ SoftLimitSwallowed(w)
  \/ SoftLimitEscapes(w)
  \/ HardTimeLimit(w)
  \/ VisibilityLapse(w)

Next == \E w \in Workers : Receive(w) \/ Execute(w) \/ Disturb(w)

Spec == Init /\ [][Next]_vars

\* A worker process keeps executing what it started and keeps fetching: the
\* pool replaces a child that died.  Faults are owed nothing.
Fairness == \A w \in Workers : WF_vars(Execute(w)) /\ WF_vars(Receive(w))

FairSpec == Spec /\ Fairness

-----------------------------------------------------------------------------
(* Properties *)

\* No file is worked on more often than the delivery cap allows, whatever mix
\* of retries, crashes and redeliveries brings its message back; only
\* executions whose counter update failed come on top of it.
AttemptsWithinCap ==
  \A f \in Files : admitted[f] <= DeliveryCap + uncounted[f]

\* A slot reports ok or error only after its source object was discarded
\* (a discard that failed is logged, and counted here as leaked): no verdict
\* leaves an upload behind that nobody owns.
FinalMeansDiscarded ==
  \A f \in Files : slot[f].status \in Final => ~source[f] \/ leaked[f]

\* When neither a worker nor a message is left for a file, its slot is final:
\* no file is silently dropped with a slot that says pending or running.
DrainedMeansFinal ==
  \A f \in Files : Busy(f) \/ slot[f].status \in Final

\* An ok that nobody will touch any more names a file_id that has its preview
\* rows, its JSON for later combining, and its row in the user's history.
OkIsComplete ==
  \A f \in Files :
    slot[f].status = "ok" /\ ~Busy(f) =>
      slot[f].id \in rows[f] \cap json[f] \cap history[f]

\* Once all is done the verdict is the one the upload deserves: failed
\* attempts do not cost a good workbook its ok, a bad one never gets it.
VerdictMatchesUpload ==
  \A f \in Files : ~Busy(f) => (slot[f].status = "ok" <=> upload[f] = "good")

\* A slot that says ok keeps saying so.
OkIsKept ==
  [][\A f \in Files : slot[f].status = "ok" => slot'[f].status = "ok"]_slot

\* A slot that is not final although nobody will touch its file was struck where the code
\* has no handler: a Redis call that fails a task, the hard limit, or the soft limit outside
\* the task's try; and without a fault that loses a verdict, a good workbook that is done
\* with says ok.
Struck(k) == faults[k] < MaxFaults[k]
OnlyStruckFilesFail ==
  \A f \in Files : ~Busy(f) =>
    /\ slot[f].status \in Final \/ \E k \in {"redis", "hardlimit", "escape"} : Struck(k)
    /\ \/ slot[f].status = "ok" \/ upload[f] # "good"
       \/ \E k \in {"redis", "hardlimit", "escape", "softlimit", "crash", "lapse"} : Struck(k)

\* The task implements FileVerdict: a file's attempts are bounded, and whatever retries and
\* workers do, one verdict is given, the one the upload deserves, and never taken back.
Promise == INSTANCE FileVerdict WITH
  Cap <- DeliveryCap, state <- [f \in Files |-> slot[f].status], tries <- admitted
KeepsPromise == Promise!Spec

\* Every queued file gets a verdict that lasts.
EventuallySettled ==
  \A f \in Files : <>[](slot[f].status \in Final)

=============================================================================
