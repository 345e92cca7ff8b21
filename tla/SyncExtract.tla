----------------------------- MODULE SyncExtract -----------------------------
(***************************************************************************)
(* POST /api/extract (app/routes.py) with the conversion of prices in the  *)
(* pipeline it runs.                                                       *)
(*                                                                         *)
(* A request streams its file to disk. A big file goes to the Celery       *)
(* workers; any other waits for the semaphore and then for a thread of the *)
(* pool, both of the same size. A request that times out answers 504 and   *)
(* gives its permit back, while its thread, which nothing can stop, goes   *)
(* on. A thread may hang: it is owed nothing.                              *)
(***************************************************************************)
EXTENDS CurrencyRates, Sequences

CONSTANTS
  API,       \* the API's process
  Priced,    \* the currencies of a job's rows
  Permits    \* max_concurrent_extractions

ASSUME PricedAssumption == Priced \in [Jobs -> SUBSET Codes]
ASSUME PermitsAssumption == Permits \in Nat \ {0}

\* Each job is the pipeline of one request: of a file for the API's own threads, or of one
\* routed to the workers.
Big == {r \in Jobs : ProcOf[r] # API}

VARIABLES
  web,       \* per request: where its handler stands, or its answer
  thread,    \* per request: its pipeline
  pool,      \* calls no thread has taken up, cancelled ones included
  permits,   \* value of the semaphore
  temp       \* requests whose temporary file is on disk

syncVars == <<web, thread, pool, permits, temp>>
vars == <<syncVars, rateVars>>

Answers == {"ok", "queued", "error"}
WebPC == {"new", "received", "waiting", "saving"} \cup Answers
ThreadPC == {"none", "queued", "started", "converting", "ended", "failed", "cancelled"}

TypeOK ==
  /\ RateTypes
  /\ web \in [Jobs -> WebPC]
  /\ thread \in [Jobs -> ThreadPC]
  /\ pool \in Seq(Jobs)
  /\ permits \in 0..Permits
  /\ temp \subseteq Jobs

Init ==
  /\ RateInit
  /\ web = [r \in Jobs |-> "new"]
  /\ thread = [r \in Jobs |-> "none"]
  /\ pool = <<>>
  /\ permits = Permits
  /\ temp = {}

-----------------------------------------------------------------------------
(* Helpers *)

WebGoes(r, label) == web' = [web EXCEPT ![r] = label]
ThreadGoes(r, label) == thread' = [thread EXCEPT ![r] = label]

\* The handler leaves with an answer, and its finally block removes the temporary file.
Answered(r, answer) == WebGoes(r, answer) /\ temp' = temp \ {r}

Taken(r) == thread[r] \in {"started", "converting"}
Busy == {r \in Jobs \ Big : Taken(r)}
Orphan(r) == Taken(r) /\ r \notin Big /\ web[r] \in Answers

-----------------------------------------------------------------------------
(* Mutants: slips of the code that break the properties. *)

\* The semaphore is not waited for.
AcquireUnlimited(r) ==
  /\ web[r] = "received" /\ r \notin Big
  /\ permits' = IF permits > 0 THEN permits - 1 ELSE 0
  /\ WebGoes(r, "waiting") /\ ThreadGoes(r, "queued")
  /\ pool' = Append(pool, r)
  /\ UNCHANGED <<temp, rateVars>>

\* A permit is given back that was never taken.
FinishTwice(r) ==
  /\ web[r] = "waiting" /\ thread[r] = "ended"
  /\ permits' = permits + 2
  /\ WebGoes(r, "saving")
  /\ UNCHANGED <<thread, pool, temp, rateVars>>

\* The permit of a request that timed out stays with its thread.
TimeOutKeepsPermit(r) ==
  /\ web[r] = "waiting" /\ thread[r] \in {"queued", "started", "converting"}
  /\ Answered(r, "error")
  /\ thread' = IF thread[r] = "queued" THEN [thread EXCEPT ![r] = "cancelled"] ELSE thread
  /\ UNCHANGED <<pool, permits, rateVars>>

\* Only the good end removes the temporary file.
FailKeepsTemp(r) ==
  /\ web[r] = "waiting" /\ thread[r] = "failed"
  /\ permits' = permits + 1
  /\ WebGoes(r, "error")
  /\ UNCHANGED <<thread, pool, temp, rateVars>>

-----------------------------------------------------------------------------
(* The handler *)

\* _stream_to_temp; a file above the limit is refused on the way.
Receive(r) ==
  /\ web[r] = "new"
  /\ \/ WebGoes(r, "received") /\ temp' = temp \cup {r}
     \/ WebGoes(r, "error") /\ UNCHANGED temp
  /\ UNCHANGED <<thread, pool, permits, rateVars>>

\* _enqueue_single_file: the temporary file becomes the source object of a batch job of its
\* own, or is gone with the error.
HandToWorkers(r) ==
  /\ web[r] = "received" /\ r \in Big
  /\ \/ Answered(r, "queued") /\ ThreadGoes(r, "queued")
     \/ Answered(r, "error") /\ UNCHANGED thread
  /\ UNCHANGED <<pool, permits, rateVars>>

\* async with sem, then run_in_executor.
Acquire(r) ==
  /\ web[r] = "received" /\ r \notin Big
  /\ permits > 0
  /\ permits' = permits - 1
  /\ WebGoes(r, "waiting") /\ ThreadGoes(r, "queued")
  /\ pool' = Append(pool, r)
  /\ UNCHANGED <<temp, rateVars>>

\* wait_for gives up. A call no thread has taken up is cancelled, and stays in the pool's
\* queue; any other goes on.
TimeOut(r) ==
  /\ web[r] = "waiting" /\ thread[r] \in {"queued", "started", "converting"}
  /\ permits' = permits + 1
  /\ Answered(r, "error")
  /\ thread' = IF thread[r] = "queued" THEN [thread EXCEPT ![r] = "cancelled"] ELSE thread
  /\ UNCHANGED <<pool, rateVars>>

\* The pipeline raised: 422, 507 or 500.
Fail(r) ==
  /\ web[r] = "waiting" /\ thread[r] = "failed"
  /\ permits' = permits + 1
  /\ Answered(r, "error")
  /\ UNCHANGED <<thread, pool, rateVars>>

\* The permit is given back before rows and history are saved.
Finish(r) ==
  /\ web[r] = "waiting" /\ thread[r] = "ended"
  /\ permits' = permits + 1
  /\ WebGoes(r, "saving")
  /\ UNCHANGED <<thread, pool, temp, rateVars>>

\* Neither failure keeps the result from the client.
Reply(r) ==
  /\ web[r] = "saving"
  /\ Answered(r, "ok")
  /\ UNCHANGED <<thread, pool, permits, rateVars>>

Handle(r) == Receive(r) \/ HandToWorkers(r) \/ Acquire(r) \/ TimeOut(r) \/ Fail(r) \/ Finish(r) \/ Reply(r)

-----------------------------------------------------------------------------
(* The pipeline *)

\* A free thread takes up the oldest call, and drops it when it was cancelled.
Start ==
  /\ pool # <<>> /\ Cardinality(Busy) < Permits
  /\ \/ thread[Head(pool)] = "queued" /\ ThreadGoes(Head(pool), "started")
     \/ thread[Head(pool)] = "cancelled" /\ UNCHANGED thread
  /\ pool' = Tail(pool)
  /\ UNCHANGED <<web, permits, temp, rateVars>>

\* A worker takes up a big file.
Take(r) ==
  /\ r \in Big /\ thread[r] = "queued"
  /\ ThreadGoes(r, "started")
  /\ UNCHANGED <<web, pool, permits, temp, rateVars>>

\* The workbook is read from its path, unless it is gone, and its rows extracted; the
\* conversion begins with the codes they carry. Or the file is refused.
Extract(r) ==
  /\ thread[r] = "started"
  /\ \/ r \in temp \cup Big /\ NeedRates(r, Priced[r]) /\ ThreadGoes(r, "converting")
     \/ ThreadGoes(r, "failed") /\ UNCHANGED rateVars
  /\ UNCHANGED <<web, pool, permits, temp>>

Rate(r) ==
  /\ thread[r] = "converting"
  /\ RateStep(r)
  /\ UNCHANGED syncVars

\* Post-processing, the workbook and its storage follow; a missing rate fails the file.
End(r) ==
  /\ thread[r] = "converting"
  /\ \/ JobAt(r, "done") /\ ThreadGoes(r, "ended")
     \/ JobAt(r, "failed") /\ ThreadGoes(r, "failed")
  /\ Leave(r)
  /\ UNCHANGED <<web, pool, permits, temp>>

-----------------------------------------------------------------------------
(* Specification *)

Next ==
  \/ \E r \in Jobs : Handle(r) \/ Take(r) \/ Extract(r) \/ Rate(r) \/ End(r)
  \/ Start
  \/ Tick /\ UNCHANGED syncVars

Spec == Init /\ [][Next]_vars

\* The event loop runs on, and timers fire. Clients, threads, workers and the provider are
\* owed nothing.
Serving(r) == HandToWorkers(r) \/ Acquire(r) \/ TimeOut(r) \/ Fail(r) \/ Finish(r) \/ Reply(r)
FairSpec == Spec /\ \A r \in Jobs : WF_vars(Serving(r))

-----------------------------------------------------------------------------
(* Properties *)

\* A file whose extraction never began is refused with "timed out" only where a thread is
\* still at work on a request answered before: semaphore and pool have the same size, and
\* only an orphan can hold a thread without a permit.
OnlyOrphansStarve ==
  [][\A r \in Jobs : web[r] = "waiting" /\ web'[r] = "error" /\ thread[r] = "queued" /\ Cardinality(Busy) = Permits
       => \E s \in Jobs : Orphan(s)]_vars

\* Whatever ends a request, its temporary file goes with it, and no pipeline whose request
\* still waits finds its file gone.
TempIsHeld ==
  \A r \in Jobs :
    /\ r \in temp => web[r] \in {"received", "waiting", "saving"}
    /\ web[r] = "waiting" => r \in temp

\* Every upload is answered, although threads hang: a permit always comes back.
EventuallyAnswered ==
  \A r \in Jobs : web[r] = "received" ~> web[r] \in Answers

=============================================================================
