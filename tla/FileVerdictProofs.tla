-------------------------- MODULE FileVerdictProofs --------------------------
(***************************************************************************)
(* ExtractionTask implements FileVerdict as long as no worker is killed,   *)
(* no time limit strikes and Redis answers: for any number of files,       *)
(* workers, retries, transient failures, and failures of storage and of    *)
(* the records written after a success. Then: every good file ends in ok,  *)
(* and which faults alone can cost it.                                     *)
(***************************************************************************)
EXTENDS ExtractionTaskProofs

Undisturbed == \A k \in {"crash", "softlimit", "escape", "hardlimit", "redis", "lapse"} : MaxFaults[k] = 0

-----------------------------------------------------------------------------
(* The invariant. One delivery of a file is alive at a time: its message, or the worker   *)
(* that executes it. A worker that only has to acknowledge has passed the file on.        *)

\* None of the six kinds has struck.
Calm == \A k \in {"crash", "softlimit", "escape", "hardlimit", "redis", "lapse"} : ~Struck(k)

Active(w) == pc[w] \notin {"idle", "ack"}
NoOther(w, f) == \A v \in Workers \ {w} : Active(v) => task[v].file # f

\* At most one message, and as long as there is one, the file is there and undecided.
Waiting(f) ==
  /\ \A r \in 0 .. MaxRetries : queue[<<f, r>>] <= 1
  /\ \A r, s \in 0 .. MaxRetries : queue[<<f, r>>] = 1 /\ queue[<<f, s>>] = 1 => r = s
  /\ ~NoMessage(f) => Undecided(f) /\ source[f]

\* The counter and the attempts it let through.
Counted(f) == admitted[f] = IF deliveries[f] <= DeliveryCap THEN deliveries[f] ELSE DeliveryCap

\* What a worker knows of its file where it stands.
Knows(label, f) ==
  /\ label \in {"count", "mark", "stage", "extract", "retry"} => source[f] /\ upload[f] # "noplant"
  /\ label \in {"count", "mark", "drop", "fail"} => Undecided(f)
  /\ label = "mark" => admitted[f] > 0
  /\ label \in {"stage", "extract", "retry", "discard", "ok"} => slot[f].status = "running"
  /\ label \in {"discard", "ok"} => upload[f] = "good"
  /\ label \in {"drop", "fail"} => upload[f] # "good" \/ admitted[f] = DeliveryCap
  /\ label # "missing"

Executing(w) == Knows(pc[w], task[w].file) /\ NoMessage(task[w].file) /\ NoOther(w, task[w].file)

VerdictInv ==
  /\ Calm
  /\ \A f \in Files : Waiting(f) /\ Counted(f)
  /\ \A w \in Workers : Active(w) => Executing(w)

-----------------------------------------------------------------------------
(* Frame *)

\* What a step of w on file f leaves alone: the other workers, and the other files.
OthersKept(w, f) ==
  /\ \A v \in Workers \ {w} : pc'[v] = pc[v] /\ task'[v] = task[v]
  /\ \A g \in Files \ {f} :
       /\ slot'[g] = slot[g] /\ source'[g] = source[g]
       /\ admitted'[g] = admitted[g] /\ deliveries'[g] = deliveries[g]
       /\ \A r \in 0 .. MaxRetries : queue'[<<g, r>>] = queue[<<g, r>>]
  /\ upload' = upload

\* What w is left with: nothing, or file f, knowing what its new place requires.
HandsOn(w, f) ==
  /\ Waiting(f)' /\ Counted(f)'
  /\ Active(w)' => task'[w].file = f /\ Knows(pc[w], f)' /\ NoMessage(f)'

\* One delivery of f is alive, and w is its worker or takes its message: nobody else is
\* concerned by the step, so that the invariant is a matter of f and w alone.
LEMMA InvKept ==
  ASSUME TypeOK, VerdictInv, NEW w \in Workers, NEW f \in Files,
         (Active(w) /\ task[w].file = f) \/ ~NoMessage(f),
         Calm', OthersKept(w, f), HandsOn(w, f)
  PROVE  VerdictInv'
<1>1. \A g \in Files : Waiting(g)' /\ Counted(g)'
  <2>1. ASSUME NEW g \in Files \ {f} PROVE Waiting(g)' /\ Counted(g)'
    BY DEF OthersKept, VerdictInv, Waiting, Counted, NoMessage, Undecided
  <2> QED BY <2>1 DEF HandsOn
<1>2. ASSUME NEW v \in Workers \ {w}, Active(v)
      PROVE  task[v].file \in Files \ {f}
  <2>1. task[v].file \in Files BY <1>2, Holding DEF Active, TypeOK
  <2>2. NoMessage(task[v].file) BY <1>2 DEF VerdictInv, Executing
  <2>3. Active(w) => NoOther(w, task[w].file) BY DEF VerdictInv, Executing
  <2> QED BY <1>2, <2>1, <2>2, <2>3 DEF NoOther
<1>3. ASSUME NEW v \in Workers \ {w}, Active(v)'
      PROVE  /\ Active(v) /\ task'[v].file = task[v].file
             /\ task[v].file \in Files \ {f} /\ Executing(v)
  <2>1. Active(v) /\ task'[v] = task[v] BY <1>3 DEF OthersKept, Active
  <2> QED BY <2>1, <1>2 DEF VerdictInv
<1>4. ASSUME NEW v \in Workers \ {w}, Active(v)',
             NEW g \in Files \ {f}, task[v].file = g
      PROVE  Executing(v)'
  <2>1. task'[v].file = g /\ pc'[v] = pc[v] BY <1>3, <1>4 DEF OthersKept
  <2>2. Knows(pc[v], g) /\ NoMessage(g) /\ NoOther(v, g) BY <1>3, <1>4 DEF Executing
  <2>3. Knows(pc[v], g)' BY <2>1, <2>2 DEF Knows, OthersKept, Undecided
  <2>4. NoMessage(g)' BY <2>2 DEF NoMessage, OthersKept
  <2>5. ASSUME NEW u \in Workers \ {v}, Active(u)' PROVE task'[u].file # g
    <3>1. CASE u = w BY <2>5, <3>1 DEF HandsOn
    <3>2. CASE u # w BY <2>5, <3>2, <1>3, <2>2 DEF NoOther
    <3> QED BY <3>1, <3>2
  <2> QED BY <2>1, <2>3, <2>4, <2>5 DEF Executing, NoOther
<1>5. ASSUME Active(w)' PROVE Executing(w)'
  <2>1. NoOther(w, f)' BY <1>3 DEF NoOther
  <2> QED BY <1>5, <2>1 DEF HandsOn, Executing
<1> QED BY <1>1, <1>3, <1>4, <1>5 DEF VerdictInv

-----------------------------------------------------------------------------
(* Steps *)

\* Without the six kinds of fault, the steps that are left.
LEMMA CalmSteps ==
  ASSUME TypeOK, WithinBudget, Calm',
         NEW w \in Workers, Receive(w) \/ Execute(w) \/ Disturb(w)
  PROVE  /\ Calm /\ ~Fault("redis")
         /\ Receive(w) \/ Execute(w) \/ TransientFailure(w)
<1>1. \A k \in {"crash", "softlimit", "escape", "hardlimit", "redis", "lapse"} : ~Struck(k) /\ ~Fault(k)
  BY Strikes DEF Calm, FaultKinds
<1> QED BY <1>1 DEF Calm, Disturb, CountUnavailable, MarkRunningFails, WriteOkFails, RetryFails,
    Crash, SoftLimitHandled, SoftLimitSwallowed, SoftLimitEscapes, Interrupted, HardTimeLimit,
    VisibilityLapse

\* What is known of the file a worker is about.
LEMMA OwnFile ==
  ASSUME TypeOK, VerdictInv, NEW w \in Workers, Active(w)
  PROVE  \E f \in Files :
           /\ task[w].file = f /\ task[w].retries \in 0 .. MaxRetries
           /\ Knows(pc[w], f) /\ NoMessage(f) /\ Waiting(f) /\ Counted(f)
BY Holding DEF TypeOK, VerdictInv, Executing, Active

\* Taking a message, and counting the delivery.
LEMMA BeginningKept ==
  ASSUME TypeOK, VerdictInv, Calm', NEW w \in Workers
  PROVE  /\ Receive(w) => VerdictInv'
         /\ CountDelivery(w) => VerdictInv'
<1> USE DEF TypeOK
<1>1. ASSUME NEW f \in Files, NEW r \in 0 .. MaxRetries, Deliver(w, f, r) PROVE VerdictInv'
  <2>1. OthersKept(w, f)
    BY <1>1 DEF Deliver, OthersKept, Goto, WorkerTypes, CounterTypes, counterVars, sourceVars
  <2>2. Waiting(f) /\ Counted(f) /\ ~NoMessage(f)
    BY <1>1 DEF VerdictInv, Deliver, NoMessage
  <2>3. queue[<<f, r>>] = 1 /\ \A s \in 0 .. MaxRetries : s # r => queue[<<f, s>>] = 0
    <3>1. \A s \in 0 .. MaxRetries : queue[<<f, s>>] \in Nat /\ queue[<<f, s>>] <= 1
      BY <2>2 DEF Waiting, CounterTypes
    <3>2. queue[<<f, r>>] = 1 BY <1>1, <3>1 DEF Deliver
    <3> QED BY <2>2, <3>1, <3>2 DEF Waiting
  <2>4. NoMessage(f)' BY <1>1, <2>3 DEF Deliver, NoMessage, CounterTypes
  <2>5. Undecided(f)' /\ source'[f] /\ Counted(f)'
    BY <1>1, <2>2 DEF Deliver, Waiting, Undecided, Counted, counterVars, sourceVars
  <2>6. Waiting(f)' BY <2>4, <2>5 DEF Waiting, NoMessage
  <2>7. task'[w].file = f BY <1>1 DEF Deliver, WorkerTypes
  <2>8. pc'[w] = IF upload[f] = "noplant" THEN "drop" ELSE "count"
    BY <1>1 DEF Deliver, Goto, WorkerTypes
  <2>9. Knows(pc[w], f)' BY <1>1, <2>5, <2>8 DEF Knows, Deliver
  <2> QED BY <2>1, <2>2, <2>4, <2>5, <2>6, <2>7, <2>9, InvKept DEF HandsOn
<1>2. CASE CountDelivery(w)
  <2>1. Active(w) /\ pc[w] = "count" BY <1>2 DEF CountDelivery, Active
  <2>2. PICK f \in Files : /\ task[w].file = f /\ Knows("count", f)
                           /\ NoMessage(f) /\ Waiting(f) /\ Counted(f)
    BY <2>1, OwnFile
  <2>3. OthersKept(w, f)
    BY <1>2, <2>2 DEF CountDelivery, OthersKept, Goto, WorkerTypes, CounterTypes, sourceVars
  <2>4. Waiting(f)' /\ NoMessage(f)'
    BY <1>2, <2>2 DEF CountDelivery, Waiting, NoMessage, Undecided, sourceVars
  <2>5. CASE deliveries[f] + 1 > DeliveryCap
    <3>1. admitted[f] = DeliveryCap BY <2>2, <2>5, CapAssumption DEF Counted, CounterTypes
    <3>2. /\ pc'[w] = "drop" /\ admitted' = admitted /\ task' = task
          /\ deliveries'[f] = deliveries[f] + 1
      BY <1>2, <2>2, <2>5 DEF CountDelivery, Goto, WorkerTypes, CounterTypes
    <3>3. Counted(f)' BY <2>5, <3>1, <3>2, CapAssumption DEF Counted, CounterTypes
    <3>4. Knows(pc[w], f)'
      BY <1>2, <2>2, <3>1, <3>2 DEF Knows, CountDelivery, Undecided, sourceVars
    <3>5. HandsOn(w, f) BY <2>2, <2>4, <3>2, <3>3, <3>4 DEF HandsOn
    <3> QED BY <2>1, <2>2, <2>3, <3>5, InvKept
  <2>6. CASE ~(deliveries[f] + 1 > DeliveryCap)
    <3>1. admitted[f] = deliveries[f] BY <2>2, <2>6, CapAssumption DEF Counted, CounterTypes
    <3>2. /\ pc'[w] = "mark" /\ admitted'[f] = admitted[f] + 1 /\ task' = task
          /\ deliveries'[f] = deliveries[f] + 1
      BY <1>2, <2>2, <2>6 DEF CountDelivery, Goto, WorkerTypes, CounterTypes
    <3>3. Counted(f)' BY <2>6, <3>1, <3>2, <2>2, CapAssumption DEF Counted, CounterTypes
    <3>4. Knows(pc[w], f)'
      BY <1>2, <2>2, <3>2 DEF Knows, CountDelivery, Undecided, sourceVars, CounterTypes
    <3>5. HandsOn(w, f) BY <2>2, <2>4, <3>2, <3>3, <3>4 DEF HandsOn
    <3> QED BY <2>1, <2>2, <2>3, <3>5, InvKept
  <2> QED BY <2>5, <2>6
<1> QED BY <1>1, <1>2 DEF Receive

\* A step of a worker that leaves messages and counters alone, and ends where it may.
LEMMA GoesOn ==
  ASSUME TypeOK, VerdictInv, Calm', NEW w \in Workers, NEW f \in Files, NEW label \in PC,
         Active(w), task[w].file = f, Goto(w, label), task'[w].file = f,
         \A v \in Workers \ {w} : task'[v] = task[v],
         \A g \in Files \ {f} : slot'[g] = slot[g] /\ source'[g] = source[g],
         UNCHANGED <<queue, counterVars, upload>>,
         label = "ack" \/ Knows(label, f)'
  PROVE  VerdictInv'
<1>1. OthersKept(w, f) BY DEF OthersKept, Goto, TypeOK, WorkerTypes, counterVars
<1>2. NoMessage(f) /\ Counted(f) BY OwnFile
<1>3. NoMessage(f)' /\ Counted(f)' BY <1>2 DEF NoMessage, Counted, counterVars
<1>4. Waiting(f)' BY <1>3 DEF Waiting, NoMessage
<1>5. pc'[w] = label BY DEF Goto, TypeOK, WorkerTypes
<1>6. HandsOn(w, f) BY <1>3, <1>4, <1>5 DEF HandsOn, Active
<1> QED BY <1>1, <1>6, InvKept

\* Up to the verdict of the pipeline.
LEMMA AttemptKept ==
  ASSUME TypeOK, VerdictInv, Calm', NEW w \in Workers,
         MarkRunning(w) \/ Stage(w) \/ ExtractSucceeds(w) \/ ExtractRejects(w)
         \/ ExtractLosesFile(w) \/ TransientFailure(w)
  PROVE  VerdictInv'
<1> USE DEF PC, counterVars, sourceVars
<1>1. Active(w)
  BY DEF Active, MarkRunning, Stage, ExtractSucceeds, ExtractRejects, ExtractLosesFile, TransientFailure
<1>2. PICK f \in Files : task[w].file = f /\ Knows(pc[w], f) BY <1>1, OwnFile
<1>3. slot \in [Files -> [status : Status, id : Nat]] BY DEF TypeOK, StoreTypes
<1>4. CASE MarkRunning(w)
  <2>1. \A g \in Files : slot'[g] = IF g = f THEN [status |-> "running", id |-> 0] ELSE slot[g]
    BY <1>2, <1>3, <1>4 DEF MarkRunning, SetSlot
  <2>2. Knows("stage", f)' BY <1>2, <1>4, <2>1 DEF MarkRunning, Knows
  <2> QED BY <1>1, <1>2, <1>4, <2>1, <2>2, GoesOn DEF MarkRunning
<1>5. CASE Stage(w)
  <2>1. source[f] BY <1>2, <1>5 DEF Stage, Knows
  <2>2. Goto(w, "extract") BY <1>2, <1>5, <2>1 DEF Stage
  <2>3. Knows("extract", f)' BY <1>2, <1>5 DEF Stage, Knows
  <2> QED BY <1>1, <1>2, <1>5, <2>2, <2>3, GoesOn DEF Stage
<1>6. CASE ExtractSucceeds(w)
  <2>1. task'[w].file = f /\ \A v \in Workers \ {w} : task'[v] = task[v]
    BY <1>1, <1>2, <1>6, Holding DEF ExtractSucceeds, TypeOK, WorkerTypes, Active, Task
  <2>2. Knows("discard", f)' BY <1>2, <1>6 DEF ExtractSucceeds, Knows
  <2> QED BY <1>1, <1>2, <1>6, <2>1, <2>2, GoesOn DEF ExtractSucceeds
<1>7. CASE ExtractRejects(w)
  <2>1. Knows("drop", f)' BY <1>2, <1>7 DEF ExtractRejects, Knows, Undecided
  <2> QED BY <1>1, <1>2, <1>7, <2>1, GoesOn DEF ExtractRejects
<1>8. CASE ExtractLosesFile(w) BY <1>2, <1>8 DEF ExtractLosesFile, Knows
<1>9. CASE TransientFailure(w)
  <2>1. Knows("retry", f)' BY <1>2, <1>9 DEF TransientFailure, Knows
  <2> QED BY <1>1, <1>2, <1>9, <2>1, GoesOn DEF TransientFailure
<1> QED BY <1>4, <1>5, <1>6, <1>7, <1>8, <1>9

\* The verdict and what follows it.
LEMMA EndKept ==
  ASSUME TypeOK, VerdictInv, Calm', NEW w \in Workers,
         DiscardExtracted(w) \/ WriteOk(w) \/ PersistRows(w) \/ PersistJson(w) \/ LogHistory(w)
         \/ WriteMissing(w) \/ DropSource(w) \/ WriteError(w)
  PROVE  VerdictInv'
<1> USE DEF PC, counterVars, sourceVars
<1>1. Active(w)
  BY DEF Active, DiscardExtracted, WriteOk, PersistRows, PersistJson, LogHistory, WriteMissing,
    DropSource, WriteError
<1>2. PICK f \in Files : task[w].file = f /\ Knows(pc[w], f) BY <1>1, OwnFile
<1>3. /\ slot \in [Files -> [status : Status, id : Nat]]
      /\ source \in [Files -> BOOLEAN]
  BY DEF TypeOK, StoreTypes
<1>4. CASE DiscardExtracted(w)
  <2>1. \A g \in Files \ {f} : source'[g] = source[g]
    BY <1>2, <1>3, <1>4 DEF DiscardExtracted, Discarded, DiscardFailed
  <2>2. Knows("ok", f)' BY <1>2, <1>4 DEF DiscardExtracted, Knows
  <2> QED BY <1>1, <1>2, <1>4, <2>1, <2>2, GoesOn DEF DiscardExtracted
<1>5. CASE WriteOk(w)
  <2>1. \A g \in Files \ {f} : slot'[g] = slot[g] BY <1>2, <1>3, <1>5 DEF WriteOk, SetSlot
  <2>2. Knows("rows", f)' BY DEF Knows
  <2> QED BY <1>1, <1>2, <1>5, <2>1, <2>2, GoesOn DEF WriteOk
<1>6. CASE PersistRows(w)
  <2>1. Knows("json", f)' BY DEF Knows
  <2> QED BY <1>1, <1>2, <1>6, <2>1, GoesOn DEF PersistRows
<1>7. CASE PersistJson(w)
  <2>1. Knows("history", f)' BY DEF Knows
  <2> QED BY <1>1, <1>2, <1>7, <2>1, GoesOn DEF PersistJson
<1>8. CASE LogHistory(w) BY <1>1, <1>2, <1>8, GoesOn DEF LogHistory
<1>9. CASE WriteMissing(w) BY <1>2, <1>9 DEF WriteMissing, Knows
<1>10. CASE DropSource(w)
  <2>1. \A g \in Files \ {f} : source'[g] = source[g]
    BY <1>2, <1>3, <1>10 DEF DropSource, Discarded, DiscardFailed
  <2>2. Knows("fail", f)' BY <1>2, <1>10 DEF DropSource, Knows, Undecided
  <2> QED BY <1>1, <1>2, <1>10, <2>1, <2>2, GoesOn DEF DropSource
<1>11. CASE WriteError(w)
  <2>1. \A g \in Files \ {f} : slot'[g] = slot[g] BY <1>2, <1>3, <1>11 DEF WriteError, SetSlot
  <2> QED BY <1>1, <1>2, <1>11, <2>1, GoesOn DEF WriteError
<1> QED BY <1>4, <1>5, <1>6, <1>7, <1>8, <1>9, <1>10, <1>11

\* A retry passes the file on to its next message; an acknowledgement comes after all that.
LEMMA HandedBack ==
  ASSUME TypeOK, VerdictInv, Calm', NEW w \in Workers
  PROVE  /\ Retry(w) => VerdictInv'
         /\ Ack(w) => VerdictInv'
<1> USE DEF TypeOK
<1>1. CASE Retry(w)
  <2>1. Active(w) /\ pc[w] = "retry" BY <1>1 DEF Retry, Active
  <2>2. PICK f \in Files : /\ task[w].file = f /\ task[w].retries \in 0 .. MaxRetries
                           /\ Knows("retry", f) /\ NoMessage(f) /\ Counted(f)
    BY <2>1, OwnFile
  <2> DEFINE n == task[w].retries + 1
  <2>3. \A s \in 0 .. MaxRetries :
          queue'[<<f, s>>] = IF n <= MaxRetries /\ s = n THEN 1 ELSE 0
    <3>1. CASE task[w].retries < MaxRetries
      <4>1. n \in 0 .. MaxRetries BY <2>2, <3>1, RetriesAssumption
      <4>2. queue' = [queue EXCEPT ![<<f, n>>] = @ + 1] BY <1>1, <2>2, <3>1 DEF Retry, Publish
      <4> QED BY <2>2, <4>1, <4>2 DEF NoMessage, CounterTypes
    <3>2. CASE ~(task[w].retries < MaxRetries)
      BY <1>1, <2>2, <3>2, RetriesAssumption DEF Retry, NoMessage
    <3> QED BY <3>1, <3>2
  <2>4. OthersKept(w, f)
    <3>1. \A g \in Files \ {f}, s \in 0 .. MaxRetries : queue'[<<g, s>>] = queue[<<g, s>>]
      BY <1>1, <2>2 DEF Retry, Publish, CounterTypes
    <3> QED BY <1>1, <3>1 DEF OthersKept, Retry, Goto, WorkerTypes, counterVars, sourceVars
  <2>5. Undecided(f)' /\ source'[f] /\ Counted(f)'
    BY <1>1, <2>2 DEF Retry, Knows, Undecided, Counted, counterVars, sourceVars
  <2>6. Waiting(f)' BY <2>3, <2>5 DEF Waiting
  <2>7. ~Active(w)' BY <1>1 DEF Retry, Goto, Active, WorkerTypes
  <2> QED BY <2>1, <2>2, <2>4, <2>5, <2>6, <2>7, InvKept DEF HandsOn
<1>2. CASE Ack(w)
  <2>1. /\ UNCHANGED <<queue, slot, source, admitted, deliveries, upload>>
        /\ ~Active(w)' /\ \A v \in Workers \ {w} : pc'[v] = pc[v] /\ task'[v] = task[v]
    BY <1>2 DEF Ack, Goto, Active, WorkerTypes, counterVars, sourceVars
  <2>2. \A f \in Files : Waiting(f)' /\ Counted(f)'
    BY <2>1 DEF VerdictInv, Waiting, Counted, NoMessage, Undecided
  <2>3. ASSUME NEW v \in Workers, Active(v)' PROVE Executing(v)'
    BY <2>1, <2>3
    DEF VerdictInv, Active, Executing, Knows, Undecided, NoMessage, NoOther
  <2> QED BY <2>2, <2>3 DEF VerdictInv
<1> QED BY <1>1, <1>2

\* The invariant is preserved.
LEMMA VerdictInvStep ==
  ASSUME TypeOK, WithinBudget, VerdictInv, Calm',
         NEW w \in Workers, Receive(w) \/ Execute(w) \/ Disturb(w)
  PROVE  VerdictInv'
<1>1. Receive(w) \/ Execute(w) \/ TransientFailure(w) BY CalmSteps
<1>2. CASE Receive(w) \/ CountDelivery(w) BY <1>2, BeginningKept
<1>3. CASE MarkRunning(w) \/ Stage(w) \/ ExtractSucceeds(w) \/ ExtractRejects(w)
           \/ ExtractLosesFile(w) \/ TransientFailure(w)
  BY <1>3, AttemptKept
<1>4. CASE DiscardExtracted(w) \/ WriteOk(w) \/ PersistRows(w) \/ PersistJson(w) \/ LogHistory(w)
           \/ WriteMissing(w) \/ DropSource(w) \/ WriteError(w)
  BY <1>4, EndKept
<1>5. CASE Retry(w) \/ Ack(w) BY <1>5, HandedBack
<1> QED BY <1>1, <1>2, <1>3, <1>4, <1>5 DEF Execute

\* It holds at first ...
LEMMA VerdictInvInit == Init => VerdictInv
<1> SUFFICES ASSUME Init PROVE VerdictInv
  OBVIOUS
<1>1. Calm BY FaultsAssumption DEF Init, Calm, Struck, FaultKinds
<1>2. ASSUME NEW f \in Files PROVE Waiting(f) /\ Counted(f)
  BY <1>2, CapAssumption, RetriesAssumption DEF Init, Waiting, Counted, Undecided
<1>3. \A w \in Workers : ~Active(w) BY DEF Init, Active
<1> QED BY <1>1, <1>2, <1>3 DEF VerdictInv

\* ... and after every step, until one of the six strikes.
LEMMA VerdictInvNext ==
  TypeOK /\ WithinBudget /\ (Calm => VerdictInv) /\ [Next]_vars => (Calm => VerdictInv)'
<1> SUFFICES ASSUME TypeOK, WithinBudget, Calm => VerdictInv, [Next]_vars, Calm'
             PROVE  VerdictInv'
  OBVIOUS
<1>1. CASE Next BY <1>1, CalmSteps, VerdictInvStep DEF Next
<1>2. CASE UNCHANGED vars
  BY <1>2 DEF vars, VerdictInv, Calm, Struck, Waiting, Counted, Undecided, NoMessage, Active,
    Executing, Knows, NoOther
<1> QED BY <1>1, <1>2

LEMMA VerdictInvariant == Spec => [](Calm => VerdictInv)
BY VerdictInvInit, VerdictInvNext, TypeCorrect, BudgetsKept, PTL DEF Spec

-----------------------------------------------------------------------------
(* Refinement *)

\* A slot that is written is what its owner is told; the others stay.
LEMMA Told ==
  ASSUME slot \in [Files -> [status : Status, id : Nat]],
         NEW f \in Files, NEW verdict, NEW id, SetSlot(f, verdict, id),
         UNCHANGED <<admitted, upload>>
  PROVE  Promise!Tell(f, verdict)
BY DEF SetSlot, Promise!Tell

\* Every step is one of the promise, or one nobody is told of.
LEMMA StepPromised ==
  ASSUME TypeOK, WithinBudget, VerdictInv, Calm',
         NEW w \in Workers, Receive(w) \/ Execute(w) \/ Disturb(w)
  PROVE  Promise!Next \/ UNCHANGED Promise!vars
<1>0. ~Fault("redis") /\ (Receive(w) \/ Execute(w) \/ TransientFailure(w)) BY CalmSteps
<1>1. /\ slot \in [Files -> [status : Status, id : Nat]]
      /\ admitted \in [Files -> Nat]
  BY DEF TypeOK, StoreTypes, CounterTypes
<1>2. CASE CountDelivery(w)
  <2>1. PICK f \in Files : task[w].file = f /\ Knows("count", f) /\ Counted(f)
    BY <1>2, OwnFile DEF CountDelivery, Active
  <2>2. CASE deliveries[f] + 1 > DeliveryCap
    BY <1>2, <2>1, <2>2 DEF CountDelivery, Promise!vars
  <2>3. CASE ~(deliveries[f] + 1 > DeliveryCap)
    <3>1. admitted[f] < DeliveryCap
      BY <2>1, <2>3, CapAssumption DEF Counted, TypeOK, CounterTypes
    <3>2. admitted' = [admitted EXCEPT ![f] = @ + 1] /\ UNCHANGED <<slot, upload>>
      BY <1>2, <2>1, <2>3 DEF CountDelivery
    <3>3. Promise!Admit(f)
      BY <2>1, <3>1, <3>2 DEF Knows, Undecided, Promise!Admit, Promise!Open
    <3> QED BY <3>3 DEF Promise!Next
  <2> QED BY <2>2, <2>3
<1>3. CASE MarkRunning(w)
  <2>1. PICK f \in Files : task[w].file = f /\ Knows("mark", f)
    BY <1>3, OwnFile DEF MarkRunning, Active
  <2>2. Promise!Tell(f, "running")
    BY <1>1, <1>3, <2>1, Told DEF MarkRunning, counterVars
  <2>3. CASE slot[f].status = "pending"
    <3>1. Promise!Start(f) BY <2>1, <2>2, <2>3 DEF Knows, Promise!Start
    <3> QED BY <3>1 DEF Promise!Next
  <2>4. CASE slot[f].status = "running"
    <3>1. \A g \in Files : slot'[g].status = slot[g].status
      BY <1>1, <1>3, <2>1, <2>4 DEF MarkRunning, SetSlot
    <3> QED BY <1>3, <3>1 DEF MarkRunning, counterVars, Promise!vars
  <2> QED BY <2>1, <2>3, <2>4 DEF Knows, Undecided
<1>4. CASE WriteOk(w)
  <2>1. PICK f \in Files : task[w].file = f /\ Knows("ok", f)
    BY <1>4, OwnFile DEF WriteOk, Active
  <2>2. Promise!Tell(f, "ok") BY <1>1, <1>4, <2>1, Told DEF WriteOk, counterVars
  <2>3. Promise!Accept(f) BY <2>1, <2>2 DEF Knows, Promise!Accept
  <2> QED BY <2>3 DEF Promise!Next
<1>5. CASE WriteError(w)
  <2>1. PICK f \in Files : task[w].file = f /\ Knows("fail", f)
    BY <1>5, OwnFile DEF WriteError, Active
  <2>2. SetSlot(f, "error", 0) BY <1>0, <1>5, <2>1 DEF WriteError
  <2>3. Promise!Tell(f, "error") BY <1>1, <1>5, <2>2, Told DEF WriteError, counterVars
  <2>4. Promise!Refuse(f) BY <2>1, <2>3 DEF Knows, Undecided, Promise!Refuse, Promise!Open
  <2> QED BY <2>4 DEF Promise!Next
<1>6. CASE WriteMissing(w)
  BY <1>6, OwnFile DEF WriteMissing, Active, Knows
<1>7. CASE UNCHANGED <<slot, admitted, upload>>
  BY <1>7 DEF Promise!vars
<1>8. CASE ~(UNCHANGED <<slot, admitted, upload>>)
  BY <1>0, <1>2, <1>3, <1>4, <1>5, <1>6, <1>8
  DEF Receive, Execute, Deliver, Stage, ExtractSucceeds, ExtractRejects, ExtractLosesFile,
    DiscardExtracted, PersistRows, PersistJson, LogHistory, DropSource, Retry, Ack,
    TransientFailure, counterVars
<1> QED BY <1>7, <1>8

\* With no worker killed, no time limit and Redis answering, the task keeps FileVerdict's
\* promise: at most DeliveryCap attempts per file, ok only for a good workbook and error for
\* a good one only when they are used up, and a verdict is never taken back, whatever the
\* retries, the number of workers and the failures of storage and of the last records.
THEOREM PromiseKept ==
  ASSUME Undisturbed
  PROVE  Spec => KeepsPromise
<1>1. Init => Promise!Init
  BY DEF Init, Promise!Init
<1>2. TypeOK => Calm
  BY DEF Undisturbed, Calm, Struck, TypeOK, CounterTypes, FaultKinds
<1>3. TypeOK /\ WithinBudget /\ (Calm => VerdictInv) /\ [Next]_vars /\ TypeOK'
      => [Promise!Next]_(Promise!vars)
  <2> SUFFICES ASSUME TypeOK, WithinBudget, Calm => VerdictInv, [Next]_vars, TypeOK'
               PROVE  [Promise!Next]_(Promise!vars)
    OBVIOUS
  <2>1. VerdictInv /\ Calm'
    <3>1. Calm' BY DEF Undisturbed, Calm, Struck, TypeOK, CounterTypes, FaultKinds
    <3> QED BY <1>2, <3>1
  <2>2. CASE Next BY <2>1, <2>2, StepPromised DEF Next
  <2>3. CASE UNCHANGED vars BY <2>3 DEF vars, Promise!vars
  <2> QED BY <2>2, <2>3
<1> QED BY <1>1, <1>3, VerdictInvariant, TypeCorrect, BudgetsKept, PTL
        DEF Spec, KeepsPromise, Promise!Spec

-----------------------------------------------------------------------------
(***************************************************************************)
(* As long as a file's attempts fail for passing reasons no more often     *)
(* than it may be retried, and the delivery cap is above the retry limit,  *)
(* every file gets the verdict it deserves: the cap, which is there for    *)
(* redeliveries, never cuts the retries short, and no retry is the last    *)
(* one before its message is gone.                                         *)
(***************************************************************************)

\* Passing failures within the retries of one file, and these below the cap.
WithinRetries == MaxFaults["transient"] <= MaxRetries /\ MaxRetries < DeliveryCap

-----------------------------------------------------------------------------
(* The invariant. Each retry was paid for by a passing failure, and each delivery counted  *)
(* is the first one or a retry.                                                            *)

Paid(retries) == retries + faults["transient"] <= MaxFaults["transient"]

MessagePaid(f) ==
  \A r \in 0 .. MaxRetries : queue[<<f, r>>] > 0 => Paid(r) /\ deliveries[f] <= r

\* What is paid for, and what follows for a worker with t that stands at label.
Earned(label, t) ==
  /\ Paid(t.retries)
  /\ label = "retry" => Paid(t.retries + 1)
  /\ deliveries[t.file] <= t.retries + 1
  /\ label = "count" => deliveries[t.file] <= t.retries
  /\ label \in {"drop", "fail"} => upload[t.file] # "good"
  /\ label \in {"rows", "json", "history"} => slot[t.file].status = "ok"

Just(f) == ~Undecided(f) => (slot[f].status = "ok" <=> upload[f] = "good")

\* An undecided file has a message or a worker.
Cared(f) == Undecided(f) => ~NoMessage(f) \/ \E w \in Workers : Active(w) /\ task[w].file = f

BudgetInv ==
  /\ \A f \in Files : MessagePaid(f) /\ Just(f) /\ Cared(f)
  /\ \A w \in Workers : Active(w) => Earned(pc[w], task[w])

-----------------------------------------------------------------------------
(* Frame *)

\* A step of w on file f that keeps these for f keeps them for all files.
LEMMA BudgetKept ==
  ASSUME TypeOK, VerdictInv, BudgetInv, NEW w \in Workers, NEW f \in Files,
         IF Active(w) THEN task[w].file = f ELSE ~NoMessage(f),
         OthersKept(w, f), faults'["transient"] <= faults["transient"],
         faults' \in [FaultKinds -> Nat],
         MessagePaid(f)', Just(f)', Cared(f)',
         Active(w)' => task'[w].file = f /\ Earned(pc[w], task[w])'
  PROVE  BudgetInv'
<1>0. /\ faults["transient"] \in Nat /\ faults'["transient"] \in Nat
      /\ MaxFaults["transient"] \in Nat
  BY FaultsAssumption DEF TypeOK, CounterTypes, FaultKinds
<1>1. \A r \in Nat : Paid(r) => Paid(r)' BY <1>0 DEF Paid
<1>2. ASSUME NEW g \in Files \ {f} PROVE MessagePaid(g)' /\ Just(g)' /\ Cared(g)'
  <2>1. MessagePaid(g)'
    BY <1>1, RetriesAssumption DEF BudgetInv, MessagePaid, OthersKept
  <2>2. Just(g)' BY DEF BudgetInv, Just, OthersKept, Undecided
  <2>3. Cared(g)'
    <3>1. CASE Undecided(g)'
      <4>1. Undecided(g) BY <3>1 DEF OthersKept, Undecided
      <4>2. CASE ~NoMessage(g) BY <4>2 DEF OthersKept, NoMessage, Cared
      <4>3. ASSUME NEW v \in Workers, Active(v), task[v].file = g PROVE Cared(g)'
        <5>1. v # w BY <4>3
        <5> QED BY <4>3, <5>1 DEF OthersKept, Active, Cared
      <4> QED BY <4>1, <4>2, <4>3 DEF BudgetInv, Cared
    <3> QED BY <3>1 DEF Cared
  <2> QED BY <2>1, <2>2, <2>3
<1>3. ASSUME NEW v \in Workers \ {w}, Active(v)' PROVE Earned(pc[v], task[v])'
  <2>1. Active(v) /\ task'[v] = task[v] /\ pc'[v] = pc[v]
    BY <1>3 DEF OthersKept, Active
  <2>2. task[v].file \in Files /\ task[v].retries \in Nat
    BY <2>1, Holding, RetriesAssumption DEF Active, TypeOK
  <2>3. task[v].file # f
    <3>1. NoMessage(task[v].file) BY <2>1 DEF VerdictInv, Executing
    <3>2. Active(w) => NoOther(w, task[w].file) BY DEF VerdictInv, Executing
    <3> QED BY <2>1, <3>1, <3>2 DEF NoOther
  <2>4. Earned(pc[v], task[v]) BY <2>1 DEF BudgetInv
  <2>5. /\ deliveries'[task[v].file] = deliveries[task[v].file]
        /\ slot'[task[v].file] = slot[task[v].file]
        /\ upload' = upload
    BY <2>2, <2>3 DEF OthersKept
  <2>6. Paid(task[v].retries)' /\ (Paid(task[v].retries + 1) => Paid(task[v].retries + 1)')
    BY <1>1, <2>1, <2>2, <2>4 DEF Earned
  <2> QED BY <2>1, <2>4, <2>5, <2>6 DEF Earned, Paid
<1> QED BY <1>2, <1>3 DEF BudgetInv

\* A worker that goes on with its file, whose messages and deliveries stay what they are.
LEMMA StaysOn ==
  ASSUME TypeOK, VerdictInv, BudgetInv, NEW w \in Workers, NEW f \in Files,
         NEW label \in PC \ {"idle", "ack"},
         Active(w), task[w].file = f, Goto(w, label), task'[w].file = f,
         \A v \in Workers \ {w} : task'[v] = task[v],
         \A g \in Files \ {f} : slot'[g] = slot[g] /\ source'[g] = source[g],
         UNCHANGED <<queue, counterVars, upload>>,
         faults'["transient"] <= faults["transient"], faults' \in [FaultKinds -> Nat],
         Just(f)', Earned(label, task[w])'
  PROVE  BudgetInv'
<1>1. OthersKept(w, f) BY DEF OthersKept, Goto, TypeOK, WorkerTypes, counterVars
<1>2. NoMessage(f)' BY OwnFile DEF NoMessage
<1>3. MessagePaid(f)' BY <1>2 DEF MessagePaid, NoMessage
<1>4. pc'[w] = label BY DEF Goto, TypeOK, WorkerTypes
<1>5. Cared(f)' BY <1>4 DEF Cared, Active
<1> QED BY <1>1, <1>3, <1>4, <1>5, BudgetKept

\* Passing failures do not come back.
LEMMA TransientSpent ==
  ASSUME TypeOK, WithinBudget, NEW w \in Workers, Receive(w) \/ Execute(w) \/ Disturb(w)
  PROVE  /\ faults' \in [FaultKinds -> Nat]
         /\ faults'["transient"] <= faults["transient"]
BY CounterTypesStep, Strikes DEF CounterTypes, FaultKinds

-----------------------------------------------------------------------------
(* Steps *)

\* What is known of the worker that takes a step, and of its file.
LEMMA OwnBudget ==
  ASSUME TypeOK, VerdictInv, BudgetInv, NEW w \in Workers, Active(w)
  PROVE  \E f \in Files :
           /\ task[w].file = f /\ task[w].retries \in 0 .. MaxRetries
           /\ Knows(pc[w], f) /\ NoMessage(f)
           /\ Just(f) /\ Earned(pc[w], task[w])
BY OwnFile DEF BudgetInv

\* Taking a message, and counting the delivery: a delivery paid for is below the cap.
LEMMA BeginningPaid ==
  ASSUME TypeOK, VerdictInv, BudgetInv, WithinRetries, NEW w \in Workers
  PROVE  /\ Receive(w) => BudgetInv'
         /\ CountDelivery(w) => BudgetInv'
<1> USE DEF TypeOK
<1>1. ASSUME NEW f \in Files, NEW r \in 0 .. MaxRetries, Deliver(w, f, r) PROVE BudgetInv'
  <2>1. OthersKept(w, f)
    BY <1>1 DEF Deliver, OthersKept, Goto, WorkerTypes, CounterTypes, counterVars, sourceVars
  <2>2. ~Active(w) /\ ~NoMessage(f) /\ queue[<<f, r>>] > 0
    BY <1>1 DEF Deliver, Active, NoMessage
  <2>3. MessagePaid(f) /\ Just(f) /\ Waiting(f) BY DEF BudgetInv, VerdictInv
  <2>4. /\ UNCHANGED <<deliveries, faults, slot, upload>>
        /\ task'[w] = [file |-> f, retries |-> r, held |-> TRUE, timed |-> FALSE, id |-> 0]
        /\ pc'[w] = IF upload[f] = "noplant" THEN "drop" ELSE "count"
    BY <1>1 DEF Deliver, Goto, NoFault, WorkerTypes, counterVars
  <2>5. Paid(r) /\ deliveries[f] <= r BY <2>2, <2>3 DEF MessagePaid
  <2>6. Earned(pc[w], task[w])'
    BY <2>4, <2>5, RetriesAssumption DEF Earned, Paid, CounterTypes
  <2>7. MessagePaid(f)'
    <3>1. \A s \in 0 .. MaxRetries : queue'[<<f, s>>] <= queue[<<f, s>>]
      BY <1>1 DEF Deliver, CounterTypes
    <3>2. ASSUME NEW s \in 0 .. MaxRetries, queue'[<<f, s>>] > 0 PROVE queue[<<f, s>>] > 0
      BY <1>1, <3>2 DEF Deliver, CounterTypes
    <3> QED BY <3>2, <2>3, <2>4 DEF MessagePaid, Paid
  <2>8. Just(f)' BY <2>3, <2>4 DEF Just, Undecided
  <2>9. Active(w)' /\ task'[w].file = f BY <2>4 DEF Active
  <2>10. Cared(f)' BY <2>9 DEF Cared
  <2>11. faults'["transient"] <= faults["transient"] /\ faults' \in [FaultKinds -> Nat]
    BY <2>4 DEF CounterTypes, FaultKinds
  <2> QED BY <2>1, <2>2, <2>6, <2>7, <2>8, <2>9, <2>10, <2>11, BudgetKept
<1>2. CASE CountDelivery(w)
  <2>1. Active(w) /\ pc[w] = "count" BY <1>2 DEF CountDelivery, Active
  <2>2. PICK f \in Files : /\ task[w].file = f /\ task[w].retries \in 0 .. MaxRetries
                           /\ Knows("count", f) /\ NoMessage(f)
                           /\ Just(f) /\ Earned("count", task[w])
    BY <2>1, OwnBudget
  <2>3. OthersKept(w, f)
    BY <1>2, <2>2 DEF CountDelivery, OthersKept, Goto, WorkerTypes, CounterTypes, sourceVars
  <2>4. deliveries[f] <= task[w].retries /\ Paid(task[w].retries) BY <2>2 DEF Earned
  <2>5. deliveries[f] + 1 <= DeliveryCap
    <3>1. /\ deliveries[f] \in Nat /\ faults["transient"] \in Nat
          /\ MaxFaults["transient"] \in Nat
      BY FaultsAssumption DEF CounterTypes, FaultKinds
    <3> QED BY <3>1, <2>2, <2>4, RetriesAssumption, CapAssumption DEF Paid, WithinRetries
  <2>6. /\ pc'[w] = "mark" /\ deliveries'[f] = deliveries[f] + 1
        /\ UNCHANGED <<task, faults, slot, upload, queue>>
    BY <1>2, <2>2, <2>5, CapAssumption DEF CountDelivery, Goto, NoFault, WorkerTypes, CounterTypes
  <2>7. Earned(pc[w], task[w])'
    BY <2>2, <2>4, <2>6, RetriesAssumption DEF Earned, Paid, CounterTypes
  <2>8. MessagePaid(f)' BY <2>2, <2>6 DEF MessagePaid, NoMessage
  <2>9. Just(f)' /\ Cared(f)' BY <2>2, <2>6 DEF Just, Undecided, Cared, Active
  <2>10. faults'["transient"] <= faults["transient"] /\ faults' \in [FaultKinds -> Nat]
    BY <2>6 DEF CounterTypes, FaultKinds
  <2> QED BY <2>1, <2>2, <2>3, <2>6, <2>7, <2>8, <2>9, <2>10, BudgetKept
<1> QED BY <1>1, <1>2 DEF Receive

\* Up to the verdict of the pipeline: a passing failure pays for one retry.
LEMMA AttemptPaid ==
  ASSUME TypeOK, WithinBudget, VerdictInv, BudgetInv, NEW w \in Workers,
         MarkRunning(w) \/ Stage(w) \/ ExtractSucceeds(w) \/ ExtractRejects(w)
         \/ ExtractLosesFile(w) \/ TransientFailure(w)
  PROVE  BudgetInv'
<1> USE DEF PC, counterVars, sourceVars
<1>1. Active(w)
  BY DEF Active, MarkRunning, Stage, ExtractSucceeds, ExtractRejects, ExtractLosesFile, TransientFailure
<1>2. PICK f \in Files : /\ task[w].file = f /\ task[w].retries \in 0 .. MaxRetries
                         /\ Knows(pc[w], f) /\ Just(f) /\ Earned(pc[w], task[w])
  BY <1>1, OwnBudget
<1>3. /\ slot \in [Files -> [status : Status, id : Nat]]
      /\ faults' \in [FaultKinds -> Nat] /\ faults'["transient"] <= faults["transient"]
      /\ faults \in [FaultKinds -> Nat] /\ MaxFaults["transient"] \in Nat
  BY TransientSpent, FaultsAssumption
  DEF TypeOK, StoreTypes, CounterTypes, Execute, Disturb, FaultKinds
<1>4. CASE MarkRunning(w)
  <2>1. \A g \in Files : slot'[g] = IF g = f THEN [status |-> "running", id |-> 0] ELSE slot[g]
    BY <1>2, <1>3, <1>4 DEF MarkRunning, SetSlot
  <2>2. Just(f)' BY <2>1 DEF Just, Undecided
  <2>3. Earned("stage", task[w])'
    BY <1>2, <1>4 DEF MarkRunning, Earned, Paid, NoFault
  <2> QED BY <1>1, <1>2, <1>3, <1>4, <2>1, <2>2, <2>3, StaysOn DEF MarkRunning
<1>5. CASE Stage(w)
  <2>1. Goto(w, "extract") BY <1>2, <1>5 DEF Stage, Knows
  <2>2. Just(f)' BY <1>2, <1>5 DEF Stage, Just, Undecided
  <2>3. Earned("extract", task[w])' BY <1>2, <1>5 DEF Stage, Earned, Paid, NoFault
  <2> QED BY <1>1, <1>2, <1>3, <1>5, <2>1, <2>2, <2>3, StaysOn DEF Stage
<1>6. CASE ExtractSucceeds(w)
  <2>1. /\ task'[w].file = f /\ task'[w].retries = task[w].retries
        /\ \A v \in Workers \ {w} : task'[v] = task[v]
    BY <1>1, <1>2, <1>6, Holding DEF ExtractSucceeds, TypeOK, WorkerTypes, Active, Task
  <2>2. Just(f)' BY <1>2, <1>6 DEF ExtractSucceeds, Just, Undecided
  <2>3. Earned("discard", task[w])'
    BY <1>2, <1>6, <2>1 DEF ExtractSucceeds, Earned, Paid, NoFault
  <2> QED BY <1>1, <1>2, <1>3, <1>6, <2>1, <2>2, <2>3, StaysOn DEF ExtractSucceeds
<1>7. CASE ExtractRejects(w)
  <2>1. Just(f)' BY <1>2, <1>7 DEF ExtractRejects, Just, Undecided
  <2>2. Earned("drop", task[w])' BY <1>2, <1>7 DEF ExtractRejects, Earned, Paid, NoFault
  <2> QED BY <1>1, <1>2, <1>3, <1>7, <2>1, <2>2, StaysOn DEF ExtractRejects
<1>8. CASE ExtractLosesFile(w) BY <1>2, <1>8 DEF ExtractLosesFile, Knows
<1>9. CASE TransientFailure(w)
  <2>1. Just(f)' BY <1>2, <1>9 DEF TransientFailure, Just, Undecided
  <2>2. faults'["transient"] = faults["transient"] - 1
    BY <1>3, <1>9 DEF TransientFailure, Fault, FaultKinds
  <2>3. Paid(task[w].retries) BY <1>2 DEF Earned
  <2>4. faults["transient"] \in Nat BY <1>3 DEF FaultKinds
  <2>5. Paid(task[w].retries)' /\ Paid(task[w].retries + 1)'
    BY <1>2, <1>3, <1>9, <2>2, <2>3, <2>4, RetriesAssumption DEF TransientFailure, Paid
  <2>6. Earned("retry", task[w])' BY <1>2, <1>9, <2>5 DEF TransientFailure, Earned
  <2> QED BY <1>1, <1>2, <1>3, <1>9, <2>1, <2>6, StaysOn DEF TransientFailure
<1> QED BY <1>4, <1>5, <1>6, <1>7, <1>8, <1>9

\* A worker that is left with the acknowledgement of a file that has its verdict.
LEMMA LetsGo ==
  ASSUME TypeOK, VerdictInv, BudgetInv, NEW w \in Workers, NEW f \in Files,
         Active(w), task[w].file = f, Goto(w, "ack"), UNCHANGED task,
         \A g \in Files \ {f} : slot'[g] = slot[g],
         UNCHANGED <<queue, counterVars, sourceVars, upload>>,
         faults'["transient"] <= faults["transient"], faults' \in [FaultKinds -> Nat],
         Just(f)', ~Undecided(f)'
  PROVE  BudgetInv'
<1>1. OthersKept(w, f)
  BY DEF OthersKept, Goto, TypeOK, WorkerTypes, counterVars, sourceVars
<1>2. NoMessage(f)' BY OwnFile DEF NoMessage
<1>3. MessagePaid(f)' BY <1>2 DEF MessagePaid, NoMessage
<1>4. pc'[w] = "ack" BY DEF Goto, TypeOK, WorkerTypes
<1>5. Cared(f)' BY DEF Cared
<1> QED BY <1>1, <1>3, <1>4, <1>5, BudgetKept DEF Active

\* The verdict and what follows it: only a bad workbook comes as far as an error.
LEMMA EndPaid ==
  ASSUME TypeOK, WithinBudget, VerdictInv, BudgetInv, Calm', NEW w \in Workers,
         DiscardExtracted(w) \/ WriteOk(w) \/ PersistRows(w) \/ PersistJson(w) \/ LogHistory(w)
         \/ WriteMissing(w) \/ DropSource(w) \/ WriteError(w)
  PROVE  BudgetInv'
<1> USE DEF PC, counterVars, sourceVars
<1>1. Active(w)
  BY DEF Active, DiscardExtracted, WriteOk, PersistRows, PersistJson, LogHistory, WriteMissing,
    DropSource, WriteError
<1>2. PICK f \in Files : /\ task[w].file = f /\ task[w].retries \in 0 .. MaxRetries
                         /\ Knows(pc[w], f) /\ Just(f) /\ Earned(pc[w], task[w])
  BY <1>1, OwnBudget
<1>3. /\ slot \in [Files -> [status : Status, id : Nat]]
      /\ source \in [Files -> BOOLEAN]
      /\ faults' \in [FaultKinds -> Nat] /\ faults'["transient"] <= faults["transient"]
  BY TransientSpent DEF TypeOK, StoreTypes, Execute
<1>4. ASSUME UNCHANGED <<task, deliveries>> PROVE Paid(task[w].retries)'
  BY <1>2, <1>3, <1>4, RetriesAssumption, FaultsAssumption
  DEF Earned, Paid, TypeOK, CounterTypes, FaultKinds
<1>5. CASE DiscardExtracted(w)
  <2>1. \A g \in Files \ {f} : source'[g] = source[g]
    BY <1>2, <1>3, <1>5 DEF DiscardExtracted, Discarded, DiscardFailed
  <2>2. Just(f)' BY <1>2, <1>5 DEF DiscardExtracted, Just, Undecided
  <2>3. Earned("ok", task[w])' BY <1>2, <1>4, <1>5 DEF DiscardExtracted, Earned
  <2> QED BY <1>1, <1>2, <1>3, <1>5, <2>1, <2>2, <2>3, StaysOn DEF DiscardExtracted
<1>6. CASE WriteOk(w)
  <2>1. \A g \in Files : slot'[g] = IF g = f THEN [status |-> "ok", id |-> task[w].id] ELSE slot[g]
    BY <1>2, <1>3, <1>6 DEF WriteOk, SetSlot
  <2>2. Just(f)' BY <1>2, <1>6, <2>1 DEF WriteOk, Just, Knows
  <2>3. Earned("rows", task[w])' BY <1>2, <1>4, <1>6, <2>1 DEF WriteOk, Earned
  <2> QED BY <1>1, <1>2, <1>3, <1>6, <2>1, <2>2, <2>3, StaysOn DEF WriteOk
<1>7. CASE PersistRows(w)
  <2>1. Just(f)' BY <1>2, <1>7 DEF PersistRows, Just, Undecided
  <2>2. Earned("json", task[w])' BY <1>2, <1>4, <1>7 DEF PersistRows, Earned
  <2> QED BY <1>1, <1>2, <1>3, <1>7, <2>1, <2>2, StaysOn DEF PersistRows
<1>8. CASE PersistJson(w)
  <2>1. Just(f)' BY <1>2, <1>8 DEF PersistJson, Just, Undecided
  <2>2. Earned("history", task[w])' BY <1>2, <1>4, <1>8 DEF PersistJson, Earned
  <2> QED BY <1>1, <1>2, <1>3, <1>8, <2>1, <2>2, StaysOn DEF PersistJson
<1>9. CASE LogHistory(w)
  <2>1. slot[f].status = "ok" BY <1>2, <1>9 DEF LogHistory, Earned
  <2>2. Just(f)' /\ ~Undecided(f)' BY <1>2, <1>9, <2>1 DEF LogHistory, Just, Undecided
  <2> QED BY <1>1, <1>2, <1>3, <1>9, <2>2, LetsGo DEF LogHistory
<1>10. CASE WriteMissing(w) BY <1>2, <1>10 DEF WriteMissing, Knows
<1>11. CASE DropSource(w)
  <2>1. \A g \in Files \ {f} : source'[g] = source[g]
    BY <1>2, <1>3, <1>11 DEF DropSource, Discarded, DiscardFailed
  <2>2. Just(f)' BY <1>2, <1>11 DEF DropSource, Just, Undecided
  <2>3. Earned("fail", task[w])' BY <1>2, <1>4, <1>11 DEF DropSource, Earned
  <2> QED BY <1>1, <1>2, <1>3, <1>11, <2>1, <2>2, <2>3, StaysOn DEF DropSource
<1>12. CASE WriteError(w)
  <2>1. SetSlot(f, "error", 0) BY <1>2, <1>12, CalmSteps DEF WriteError, Execute
  <2>2. \A g \in Files : slot'[g] = IF g = f THEN [status |-> "error", id |-> 0] ELSE slot[g]
    BY <1>3, <2>1 DEF SetSlot
  <2>3. Just(f)' /\ ~Undecided(f)'
    BY <1>2, <1>12, <2>2 DEF WriteError, Just, Undecided, Earned
  <2> QED BY <1>1, <1>2, <1>3, <1>12, <2>2, <2>3, LetsGo DEF WriteError
<1> QED BY <1>5, <1>6, <1>7, <1>8, <1>9, <1>10, <1>11, <1>12

\* A retry that was paid for is published; an acknowledgement concerns no one.
LEMMA HandedBackPaid ==
  ASSUME TypeOK, VerdictInv, BudgetInv, WithinRetries, NEW w \in Workers
  PROVE  /\ Retry(w) => BudgetInv'
         /\ Ack(w) => BudgetInv'
<1> USE DEF TypeOK
<1>1. CASE Retry(w)
  <2>1. Active(w) /\ pc[w] = "retry" BY <1>1 DEF Retry, Active
  <2>2. PICK f \in Files : /\ task[w].file = f /\ task[w].retries \in 0 .. MaxRetries
                           /\ NoMessage(f) /\ Just(f) /\ Earned("retry", task[w])
    BY <2>1, OwnBudget
  <2> DEFINE n == task[w].retries + 1
  <2>3. Paid(n) /\ deliveries[f] <= n BY <2>2 DEF Earned
  <2>4. n \in 0 .. MaxRetries
    <3>1. faults["transient"] \in Nat /\ MaxFaults["transient"] \in Nat
      BY FaultsAssumption DEF CounterTypes, FaultKinds
    <3> QED BY <2>2, <2>3, <3>1, RetriesAssumption DEF Paid, WithinRetries
  <2>5. queue' = [queue EXCEPT ![<<f, n>>] = @ + 1]
    BY <1>1, <2>2, <2>4, RetriesAssumption DEF Retry, Publish
  <2>6. \A s \in 0 .. MaxRetries : queue'[<<f, s>>] = IF s = n THEN 1 ELSE 0
    BY <2>2, <2>4, <2>5 DEF NoMessage, CounterTypes
  <2>7. OthersKept(w, f)
    <3>1. \A g \in Files \ {f}, s \in 0 .. MaxRetries : queue'[<<g, s>>] = queue[<<g, s>>]
      BY <2>5 DEF CounterTypes
    <3> QED BY <1>1, <3>1 DEF OthersKept, Retry, Goto, WorkerTypes, counterVars, sourceVars
  <2>8. MessagePaid(f)'
    BY <1>1, <2>3, <2>6 DEF MessagePaid, Paid, Retry, NoFault, counterVars
  <2>9. Just(f)' BY <1>1, <2>2 DEF Retry, Just, Undecided
  <2>10. Cared(f)'
    <3>1. queue'[<<f, n>>] = 1 BY <2>4, <2>6
    <3>2. ~NoMessage(f)' BY <3>1, <2>4 DEF NoMessage
    <3> QED BY <3>2 DEF Cared
  <2>11. ~Active(w)' BY <1>1 DEF Retry, Goto, Active, WorkerTypes
  <2>12. faults'["transient"] <= faults["transient"] /\ faults' \in [FaultKinds -> Nat]
    BY <1>1 DEF Retry, NoFault, CounterTypes, FaultKinds
  <2> QED BY <2>1, <2>2, <2>7, <2>8, <2>9, <2>10, <2>11, <2>12, BudgetKept
<1>2. CASE Ack(w)
  <2>1. /\ UNCHANGED <<queue, slot, deliveries, upload, faults>>
        /\ ~Active(w) /\ ~Active(w)'
        /\ \A v \in Workers \ {w} : pc'[v] = pc[v] /\ task'[v] = task[v]
    BY <1>2 DEF Ack, Goto, NoFault, Active, WorkerTypes, counterVars
  <2>2. ASSUME NEW f \in Files PROVE MessagePaid(f)' /\ Just(f)'
    BY <2>1 DEF BudgetInv, MessagePaid, Just, Undecided, Paid
  <2>3. ASSUME NEW f \in Files PROVE Cared(f)'
    BY <2>1 DEF BudgetInv, Cared, Undecided, NoMessage, Active
  <2>4. ASSUME NEW v \in Workers, Active(v)' PROVE Earned(pc[v], task[v])'
    BY <2>1, <2>4 DEF BudgetInv, Active, Earned, Paid
  <2> QED BY <2>2, <2>3, <2>4 DEF BudgetInv
<1> QED BY <1>1, <1>2

\* Every step keeps the invariant, until one of the six kinds of fault strikes.
LEMMA BudgetInvStep ==
  ASSUME TypeOK, WithinBudget, VerdictInv, BudgetInv, WithinRetries, Calm',
         NEW w \in Workers, Receive(w) \/ Execute(w) \/ Disturb(w)
  PROVE  BudgetInv'
<1>1. Receive(w) \/ Execute(w) \/ TransientFailure(w) BY CalmSteps
<1>2. CASE Receive(w) \/ CountDelivery(w) BY <1>2, BeginningPaid
<1>3. CASE MarkRunning(w) \/ Stage(w) \/ ExtractSucceeds(w) \/ ExtractRejects(w)
           \/ ExtractLosesFile(w) \/ TransientFailure(w)
  BY <1>3, AttemptPaid
<1>4. CASE DiscardExtracted(w) \/ WriteOk(w) \/ PersistRows(w) \/ PersistJson(w) \/ LogHistory(w)
           \/ WriteMissing(w) \/ DropSource(w) \/ WriteError(w)
  BY <1>4, EndPaid
<1>5. CASE Retry(w) \/ Ack(w) BY <1>5, HandedBackPaid
<1> QED BY <1>1, <1>2, <1>3, <1>4, <1>5 DEF Execute

-----------------------------------------------------------------------------
(* Theorems *)

\* BudgetInv holds until one of the six kinds of fault strikes.
LEMMA Budget ==
  ASSUME WithinRetries
  PROVE  Spec => [](Calm => BudgetInv)
<1>1. Init => BudgetInv
  <2> SUFFICES ASSUME Init PROVE BudgetInv
    OBVIOUS
  <2>1. ASSUME NEW f \in Files PROVE MessagePaid(f) /\ Just(f) /\ Cared(f)
    <3>1. queue[<<f, 0>>] = 1 /\ slot[f].status = "pending" /\ deliveries[f] = 0
      BY RetriesAssumption DEF Init
    <3>2. MessagePaid(f)
      BY FaultsAssumption, RetriesAssumption DEF Init, MessagePaid, Paid, FaultKinds
    <3>3. Just(f) BY <3>1 DEF Just, Undecided
    <3>4. ~NoMessage(f) BY <3>1, RetriesAssumption DEF NoMessage
    <3> QED BY <3>2, <3>3, <3>4 DEF Cared
  <2>2. \A w \in Workers : ~Active(w) BY DEF Init, Active
  <2> QED BY <2>1, <2>2 DEF BudgetInv
<1>2. TypeOK /\ WithinBudget /\ (Calm => VerdictInv) /\ (Calm => BudgetInv) /\ [Next]_vars
      => (Calm => BudgetInv)'
  <2> SUFFICES ASSUME TypeOK, WithinBudget, Calm => VerdictInv, Calm => BudgetInv,
                      [Next]_vars, Calm'
               PROVE  BudgetInv'
    OBVIOUS
  <2>1. CASE Next BY <2>1, CalmSteps, BudgetInvStep DEF Next
  <2>2. CASE UNCHANGED vars
    BY <2>2 DEF vars, Calm, Struck, BudgetInv, MessagePaid, Just, Cared, Undecided, NoMessage,
      Active, Earned, Paid
  <2> QED BY <2>1, <2>2
<1> QED BY <1>1, <1>2, VerdictInvariant, TypeCorrect, BudgetsKept, PTL DEF Spec

\* A file that is done with has the verdict it deserves.
LEMMA DeservedWhenDrained ==
  ASSUME TypeOK, BudgetInv, NEW f \in Files, ~Busy(f)
  PROVE  /\ slot[f].status \in Final
         /\ slot[f].status = "ok" <=> upload[f] = "good"
<1>1. NoMessage(f) BY NotBusy
<1>2. ~Undecided(f) BY <1>1 DEF BudgetInv, Cared, Busy, Active
<1>3. slot[f].status \in Final BY <1>2 DEF Undecided, Final, TypeOK, StoreTypes, Status
<1> QED BY <1>2, <1>3 DEF BudgetInv, Just

\* With no more passing failures than retries, and a cap above the retry limit: a file that
\* nobody will touch any more says ok if its workbook is good, and does not if it is not.
THEOREM EveryGoodFileOk ==
  ASSUME Undisturbed, WithinRetries
  PROVE  Spec => []VerdictMatchesUpload
<1>1. TypeOK /\ (Calm => BudgetInv) => VerdictMatchesUpload
  <2> SUFFICES ASSUME TypeOK, Calm => BudgetInv PROVE VerdictMatchesUpload
    OBVIOUS
  <2>1. Calm BY DEF Undisturbed, Calm, Struck, TypeOK, CounterTypes, FaultKinds
  <2> QED BY <2>1, DeservedWhenDrained DEF VerdictMatchesUpload
<1> QED BY <1>1, Budget, TypeCorrect, PTL

\* And no file is dropped with a slot that says pending or running.
THEOREM NoFileDropped ==
  ASSUME Undisturbed, WithinRetries
  PROVE  Spec => []DrainedMeansFinal
<1>1. TypeOK /\ (Calm => BudgetInv) => DrainedMeansFinal
  <2> SUFFICES ASSUME TypeOK, Calm => BudgetInv PROVE DrainedMeansFinal
    OBVIOUS
  <2>1. Calm BY DEF Undisturbed, Calm, Struck, TypeOK, CounterTypes, FaultKinds
  <2> QED BY <2>1, DeservedWhenDrained DEF DrainedMeansFinal
<1> QED BY <1>1, Budget, TypeCorrect, PTL

\* Whatever strikes, how often and in whatever order: a file that is done with without a
\* verdict was struck by a Redis error, the hard limit or a soft limit nothing handles, and a
\* good workbook that is done with and does not say ok was struck by one of the six kinds of
\* fault that can cost it.
THEOREM OnlyStruckFail ==
  ASSUME RetriesCover, MaxRetries < DeliveryCap
  PROVE  Spec => []OnlyStruckFilesFail
<1>0. WithinRetries
  BY FaultsAssumption, RetriesAssumption, CapAssumption
  DEF RetriesCover, WithinRetries, FaultKinds
<1>1. TypeOK /\ (Handled => CareInv) /\ (Calm => BudgetInv) => OnlyStruckFilesFail
  <2> SUFFICES ASSUME TypeOK, Handled => CareInv, Calm => BudgetInv, NEW f \in Files, ~Busy(f)
               PROVE  /\ slot[f].status \in Final \/ \E k \in {"redis", "hardlimit", "escape"} : Struck(k)
                      /\ \/ slot[f].status = "ok" \/ upload[f] # "good"
                         \/ \E k \in {"redis", "hardlimit", "escape", "softlimit", "crash",
                                   "lapse"} : Struck(k)
    BY DEF OnlyStruckFilesFail
  <2>1. Handled => slot[f].status \in Final BY DecidedWhenDrained
  <2>2. Calm => (slot[f].status = "ok" <=> upload[f] = "good") BY DeservedWhenDrained
  <2> QED BY <2>1, <2>2 DEF Handled, Calm
<1> QED BY <1>0, <1>1, Care, Budget, TypeCorrect, PTL

=============================================================================
