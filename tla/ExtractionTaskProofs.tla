------------------------ MODULE ExtractionTaskProofs ------------------------
(***************************************************************************)
(* Proofs about ExtractionTask, for any number of files and workers, any   *)
(* retry limit, delivery cap and fault budget.                             *)
(***************************************************************************)
EXTENDS ExtractionTask, TLAPS

-----------------------------------------------------------------------------
(* Facts about the helpers *)

\* A worker that is not idle holds a well-formed delivery.
LEMMA Holding ==
  ASSUME WorkerTypes, NEW w \in Workers, pc[w] # "idle"
  PROVE  /\ task[w] \in Task
         /\ task[w].file \in Files
         /\ task[w].retries \in 0 .. MaxRetries
         /\ task[w].id \in Nat
BY DEF WorkerTypes, Task

\* Publishing a message leaves a well-formed queue.
LEMMA Published ==
  ASSUME queue \in [Files \X (0 .. MaxRetries) -> Nat],
         NEW f \in Files, NEW r \in 0 .. MaxRetries, Publish(f, r)
  PROVE  queue' \in [Files \X (0 .. MaxRetries) -> Nat]
BY DEF Publish

\* A worker that moves on with the delivery it has ...
LEMMA Moved ==
  ASSUME WorkerTypes, NEW w \in Workers, NEW label \in PC,
         pc[w] # "idle", Goto(w, label), UNCHANGED task
  PROVE  WorkerTypes'
BY DEF WorkerTypes, Goto

\* ... that moves on with another one ...
LEMMA MovedWith ==
  ASSUME WorkerTypes, NEW w \in Workers, NEW label \in PC, NEW t \in Task,
         Goto(w, label), task' = [task EXCEPT ![w] = t]
  PROVE  WorkerTypes'
BY DEF WorkerTypes, Goto

\* ... and that becomes idle.
LEMMA Freed ==
  ASSUME WorkerTypes, NEW w \in Workers,
         Goto(w, "idle"), task' = [task EXCEPT ![w] = NoTask]
  PROVE  WorkerTypes'
BY DEF WorkerTypes, Goto, PC

\* The soft time limit leaves a worker with the delivery it had, somewhere else.
LEMMA SoftLimitStep ==
  ASSUME WorkerTypes, NEW w \in Workers,
         SoftLimitHandled(w) \/ SoftLimitSwallowed(w) \/ SoftLimitEscapes(w)
  PROVE  /\ pc[w] # "idle" /\ task[w] \in Task /\ task[w].file \in Files
         /\ task'[w] \in Task
         /\ task'[w].file = task[w].file /\ task'[w].retries = task[w].retries
         /\ task'[w].held = task[w].held /\ task'[w].id = task[w].id
         /\ task' = [task EXCEPT ![w] = task'[w]]
         /\ \E label \in PC \ {"idle"} : Goto(w, label) /\ pc'[w] = label
         /\ UNCHANGED <<recordVars, upload>>
<1> DEFINE t == [task[w] EXCEPT !.timed = TRUE]
<1>1. /\ pc[w] # "idle" /\ UNCHANGED <<recordVars, upload>>
      /\ task' = [task EXCEPT ![w].timed = TRUE]
  BY DEF SoftLimitHandled, SoftLimitSwallowed, SoftLimitEscapes, Interrupted
<1>2. \E label \in PC \ {"idle"} : Goto(w, label)
  BY DEF SoftLimitHandled, SoftLimitSwallowed, SoftLimitEscapes, Interrupted, PC
<1>3. task[w] \in Task /\ task[w].file \in Files BY <1>1, Holding
<1>4. t \in Task BY <1>3 DEF Task
<1>5. task' = [task EXCEPT ![w] = t] /\ task'[w] = t BY <1>1 DEF WorkerTypes
<1>6. t.file = task[w].file /\ t.retries = task[w].retries /\ t.held = task[w].held /\ t.id = task[w].id
  BY <1>3 DEF Task
<1> HIDE DEF t
<1> QED BY <1>1, <1>2, <1>3, <1>4, <1>5, <1>6 DEF Goto, WorkerTypes

-----------------------------------------------------------------------------
(* Type correctness *)

\* Every step keeps the types of what a worker is and carries.
LEMMA WorkerTypesStep ==
  ASSUME TypeOK, NEW w \in Workers, Receive(w) \/ Execute(w) \/ Disturb(w)
  PROVE  WorkerTypes'
<1> USE DEF TypeOK
<1>1. ASSUME NEW f \in Files, NEW r \in 0 .. MaxRetries, Deliver(w, f, r)
      PROVE  WorkerTypes'
  <2> DEFINE t == [file |-> f, retries |-> r, held |-> TRUE,
                   timed |-> FALSE, id |-> 0]
  <2>1. t \in Task BY DEF Task
  <2> QED BY <1>1, <2>1, MovedWith DEF Deliver, PC
<1>2. CASE CountDelivery(w) BY <1>2, Moved DEF CountDelivery, PC
<1>3. CASE MarkRunning(w) BY <1>3, Moved DEF MarkRunning, PC
<1>4. CASE Stage(w) BY <1>4, Moved DEF Stage, PC
<1>5. CASE ExtractSucceeds(w)
  <2> DEFINE t == [task[w] EXCEPT !.id = results[task[w].file] + 1]
  <2>1. task[w] \in Task /\ task[w].file \in Files
    BY <1>5, Holding DEF ExtractSucceeds
  <2>2. results[task[w].file] + 1 \in Nat BY <2>1 DEF CounterTypes
  <2> HIDE DEF TypeOK
  <2>4. t \in Task BY <2>1, <2>2 DEF Task
  <2>3. task' = [task EXCEPT ![w] = t] BY <1>5 DEF ExtractSucceeds
  <2> QED BY <1>5, <2>4, <2>3, MovedWith DEF TypeOK, ExtractSucceeds, PC
<1>6. CASE ExtractRejects(w) BY <1>6, Moved DEF ExtractRejects, PC
<1>7. CASE ExtractLosesFile(w) BY <1>7, Moved DEF ExtractLosesFile, PC
<1>8. CASE DiscardExtracted(w) BY <1>8, Moved DEF DiscardExtracted, PC
<1>9. CASE WriteOk(w) BY <1>9, Moved DEF WriteOk, PC
<1>10. CASE PersistRows(w) BY <1>10, Moved DEF PersistRows, PC
<1>11. CASE PersistJson(w) BY <1>11, Moved DEF PersistJson, PC
<1>12. CASE LogHistory(w) BY <1>12, Moved DEF LogHistory, PC
<1>13. CASE WriteMissing(w) BY <1>13, Moved DEF WriteMissing, PC
<1>14. CASE DropSource(w) BY <1>14, Moved DEF DropSource, PC
<1>15. CASE WriteError(w) BY <1>15, Moved DEF WriteError, PC
<1>16. CASE Retry(w) BY <1>16, Moved DEF Retry, PC
<1>17. CASE Ack(w) BY <1>17, Freed DEF Ack
<1>18. CASE CountUnavailable(w) BY <1>18, Moved DEF CountUnavailable, PC
<1>19. CASE MarkRunningFails(w) BY <1>19, Moved DEF MarkRunningFails, PC
<1>20. CASE TransientFailure(w) BY <1>20, Moved DEF TransientFailure, PC
<1>21. CASE WriteOkFails(w) BY <1>21, Moved DEF WriteOkFails, PC
<1>22. CASE Crash(w) BY <1>22, Freed DEF Crash
<1>23. CASE HardTimeLimit(w) BY <1>23, Freed DEF HardTimeLimit
<1>24. CASE SoftLimitHandled(w) \/ SoftLimitSwallowed(w) \/ SoftLimitEscapes(w)
  <2>1. task'[w] \in Task /\ task' = [task EXCEPT ![w] = task'[w]] BY <1>24, SoftLimitStep
  <2>2. PICK label \in PC : Goto(w, label) BY <1>24, SoftLimitStep
  <2> QED BY <2>1, <2>2, MovedWith
<1>26. CASE RetryFails(w) BY <1>26, Moved DEF RetryFails, PC
<1>25. CASE VisibilityLapse(w)
  <2> DEFINE t == [task[w] EXCEPT !.held = FALSE]
  <2>1. task[w] \in Task BY <1>25, Holding DEF VisibilityLapse
  <2>2. t \in Task BY <2>1 DEF Task
  <2>3. task' = [task EXCEPT ![w] = t] /\ UNCHANGED pc
    BY <1>25 DEF VisibilityLapse
  <2> QED BY <2>2, <2>3 DEF WorkerTypes
<1> QED
  BY <1>1, <1>2, <1>3, <1>4, <1>5, <1>6, <1>7, <1>8, <1>9, <1>10, <1>11, <1>12,
     <1>13, <1>14, <1>15, <1>16, <1>17, <1>18, <1>19, <1>20, <1>21, <1>22, <1>23,
     <1>24, <1>25, <1>26
  DEF Receive, Execute, Disturb

\* Every step keeps the types of the counters and fault budgets.
LEMMA CounterTypesStep ==
  ASSUME TypeOK, NEW w \in Workers, Receive(w) \/ Execute(w) \/ Disturb(w)
  PROVE  CounterTypes'
<1> USE DEF TypeOK, CounterTypes, NoFault, counterVars, recordVars
<1>1. ASSUME NEW f \in Files, NEW r \in 0 .. MaxRetries, Deliver(w, f, r)
      PROVE  CounterTypes'
  <2>1. queue' \in [Files \X (0 .. MaxRetries) -> Nat] BY <1>1 DEF Deliver
  <2> QED BY <1>1, <2>1 DEF Deliver
<1>2. CASE CountDelivery(w) BY <1>2, Holding DEF CountDelivery
<1>3. CASE MarkRunning(w) BY <1>3 DEF MarkRunning
<1>4. CASE Stage(w) BY <1>4 DEF Stage
<1>5. CASE ExtractSucceeds(w) BY <1>5, Holding DEF ExtractSucceeds
<1>6. CASE ExtractRejects(w) BY <1>6 DEF ExtractRejects
<1>7. CASE ExtractLosesFile(w) BY <1>7 DEF ExtractLosesFile
<1>8. CASE DiscardExtracted(w) BY <1>8 DEF DiscardExtracted, Fault, FaultKinds
<1>9. CASE WriteOk(w) BY <1>9 DEF WriteOk
<1>10. CASE PersistRows(w) BY <1>10 DEF PersistRows, Fault, FaultKinds
<1>11. CASE PersistJson(w) BY <1>11 DEF PersistJson, Fault, FaultKinds
<1>12. CASE LogHistory(w) BY <1>12 DEF LogHistory, Fault, FaultKinds
<1>13. CASE WriteMissing(w) BY <1>13 DEF WriteMissing, Fault, FaultKinds
<1>14. CASE DropSource(w) BY <1>14 DEF DropSource, Fault, FaultKinds
<1>15. CASE WriteError(w) BY <1>15 DEF WriteError, Fault, FaultKinds
<1>16. CASE Retry(w)
  <2>1. task[w].file \in Files /\ task[w].retries \in 0 .. MaxRetries
    BY <1>16, Holding DEF Retry
  <2>2. task[w].retries < MaxRetries => task[w].retries + 1 \in 0 .. MaxRetries
    BY <2>1, RetriesAssumption
  <2>3. queue' \in [Files \X (0 .. MaxRetries) -> Nat]
    BY <1>16, <2>1, <2>2, Published DEF Retry
  <2> QED BY <1>16, <2>3 DEF Retry
<1>17. CASE Ack(w) BY <1>17 DEF Ack
<1>18. CASE CountUnavailable(w)
  BY <1>18, Holding DEF CountUnavailable, Uncounted, Fault, FaultKinds
<1>19. CASE MarkRunningFails(w) BY <1>19 DEF MarkRunningFails, Fault, FaultKinds
<1>20. CASE TransientFailure(w) BY <1>20 DEF TransientFailure, Fault, FaultKinds
<1>21. CASE WriteOkFails(w) BY <1>21 DEF WriteOkFails, Fault, FaultKinds
<1>22. CASE Crash(w)
  <2>1. task[w].file \in Files /\ task[w].retries \in 0 .. MaxRetries
    BY <1>22, Holding DEF Crash
  <2>3. queue' \in [Files \X (0 .. MaxRetries) -> Nat]
    BY <1>22, <2>1, Published DEF Crash
  <2> QED BY <1>22, <2>3 DEF Crash, Fault, FaultKinds
<1>23. CASE SoftLimitHandled(w)
  BY <1>23 DEF SoftLimitHandled, Interrupted, Fault, FaultKinds
<1>24. CASE SoftLimitSwallowed(w)
  BY <1>24, Holding DEF SoftLimitSwallowed, Interrupted, Uncounted, Fault, FaultKinds
<1>25. CASE SoftLimitEscapes(w)
  <2>1. task[w].file \in Files /\ task[w].retries \in 0 .. MaxRetries
    BY <1>25, SoftLimitStep, Holding
  <2>2. task[w].retries < MaxRetries => task[w].retries + 1 \in 0 .. MaxRetries
    BY <2>1, RetriesAssumption
  <2>3. queue' \in [Files \X (0 .. MaxRetries) -> Nat]
    BY <1>25, <2>1, <2>2, Published DEF SoftLimitEscapes
  <2> QED BY <1>25, <2>3 DEF SoftLimitEscapes, Interrupted, Fault, FaultKinds
<1>28. CASE RetryFails(w)
  <2>1. task[w].file \in Files /\ task[w].retries \in 0 .. MaxRetries
    BY <1>28, Holding DEF RetryFails
  <2>3. <<task[w].file, task[w].retries + 1>> \in Files \X (0 .. MaxRetries)
    BY <1>28, <2>1, RetriesAssumption DEF RetryFails
  <2>4. PICK copies \in {0, 2} :
          queue' = [queue EXCEPT ![<<task[w].file, task[w].retries + 1>>] = @ + copies]
    BY <1>28 DEF RetryFails
  <2>2. queue' \in [Files \X (0 .. MaxRetries) -> Nat] BY <2>3, <2>4
  <2> QED BY <1>28, <2>2 DEF RetryFails, Fault, FaultKinds
<1>26. CASE HardTimeLimit(w) BY <1>26 DEF HardTimeLimit, Fault, FaultKinds
<1>27. CASE VisibilityLapse(w)
  <2>1. task[w].file \in Files /\ task[w].retries \in 0 .. MaxRetries
    BY <1>27, Holding DEF VisibilityLapse
  <2>3. queue' \in [Files \X (0 .. MaxRetries) -> Nat]
    BY <1>27, <2>1, Published DEF VisibilityLapse
  <2> QED BY <1>27, <2>3 DEF VisibilityLapse, Fault, FaultKinds
<1> QED
  BY <1>1, <1>2, <1>3, <1>4, <1>5, <1>6, <1>7, <1>8, <1>9, <1>10, <1>11, <1>12,
     <1>13, <1>14, <1>15, <1>16, <1>17, <1>18, <1>19, <1>20, <1>21, <1>22,
     <1>23, <1>24, <1>25, <1>26, <1>27, <1>28
  DEF Receive, Execute, Disturb

\* Every step keeps the types of slots, objects and records.
LEMMA StoreTypesStep ==
  ASSUME TypeOK, NEW w \in Workers, Receive(w) \/ Execute(w) \/ Disturb(w)
  PROVE  StoreTypes'
<1> USE DEF TypeOK, StoreTypes, sourceVars, recordVars
<1>1. ASSUME NEW f \in Files, NEW r \in 0 .. MaxRetries, Deliver(w, f, r)
      PROVE  StoreTypes'
  BY <1>1 DEF Deliver
<1>2. CASE CountDelivery(w) BY <1>2 DEF CountDelivery
<1>3. CASE MarkRunning(w) BY <1>3, Holding DEF MarkRunning, SetSlot, Status
<1>4. CASE Stage(w) BY <1>4 DEF Stage
<1>5. CASE ExtractSucceeds(w) BY <1>5 DEF ExtractSucceeds
<1>6. CASE ExtractRejects(w) BY <1>6 DEF ExtractRejects
<1>7. CASE ExtractLosesFile(w) BY <1>7 DEF ExtractLosesFile
<1>8. CASE DiscardExtracted(w)
  BY <1>8, Holding DEF DiscardExtracted, Discarded, DiscardFailed
<1>9. CASE WriteOk(w) BY <1>9, Holding DEF WriteOk, SetSlot, Status, Final
<1>10. CASE PersistRows(w) BY <1>10, Holding DEF PersistRows
<1>11. CASE PersistJson(w) BY <1>11, Holding DEF PersistJson
<1>12. CASE LogHistory(w) BY <1>12, Holding DEF LogHistory
<1>13. CASE WriteMissing(w)
  BY <1>13, Holding DEF WriteMissing, SetSlot, Status, Final
<1>14. CASE DropSource(w)
  BY <1>14, Holding DEF DropSource, Discarded, DiscardFailed
<1>15. CASE WriteError(w)
  BY <1>15, Holding DEF WriteError, SetSlot, Status, Final
<1>16. CASE Retry(w) BY <1>16 DEF Retry
<1>17. CASE Ack(w) BY <1>17 DEF Ack
<1>18. CASE CountUnavailable(w) BY <1>18 DEF CountUnavailable
<1>19. CASE MarkRunningFails(w) BY <1>19 DEF MarkRunningFails
<1>20. CASE TransientFailure(w) BY <1>20 DEF TransientFailure
<1>21. CASE WriteOkFails(w) BY <1>21 DEF WriteOkFails
<1>22. CASE Crash(w) BY <1>22 DEF Crash
<1>23. CASE SoftLimitHandled(w)
  <2>1. task[w].file \in Files /\ task[w].id \in Nat BY <1>23, SoftLimitStep, Holding
  <2>2. UNCHANGED <<source, leaked>> \/ Discarded(task[w].file) BY <1>23 DEF SoftLimitHandled
  <2>3. UNCHANGED slot \/ SetSlot(task[w].file, "error", 0) \/ SetSlot(task[w].file, "ok", task[w].id)
    BY <1>23 DEF SoftLimitHandled
  <2>4. \A st \in Status, i \in Nat : SetSlot(task[w].file, st, i)
          => slot' \in [Files -> [status : Status, id : Nat]]
    BY <2>1 DEF SetSlot
  <2>5. {"ok", "error", "running"} \subseteq Status /\ 0 \in Nat BY DEF Status, Final
  <2>6. slot' \in [Files -> [status : Status, id : Nat]]
    BY <2>1, <2>3, <2>4, <2>5
  <2> QED BY <1>23, <2>1, <2>2, <2>6, SoftLimitStep DEF Discarded
<1>24. CASE SoftLimitSwallowed(w)
  BY <1>24, SoftLimitStep DEF SoftLimitSwallowed, Discarded, DiscardFailed
<1>25. CASE SoftLimitEscapes(w)
  <2>1. task[w].file \in Files BY <1>25, SoftLimitStep
  <2>2. UNCHANGED <<source, leaked>> \/ Discarded(task[w].file) BY <1>25 DEF SoftLimitEscapes
  <2>3. UNCHANGED slot \/ SetSlot(task[w].file, "error", 0) \/ SetSlot(task[w].file, "running", 0)
    BY <1>25 DEF SoftLimitEscapes
  <2>4. \A st \in Status, i \in Nat : SetSlot(task[w].file, st, i)
          => slot' \in [Files -> [status : Status, id : Nat]]
    BY <2>1 DEF SetSlot
  <2>5. {"ok", "error", "running"} \subseteq Status /\ 0 \in Nat BY DEF Status, Final
  <2>6. slot' \in [Files -> [status : Status, id : Nat]]
    BY <2>1, <2>3, <2>4, <2>5
  <2> QED BY <1>25, <2>1, <2>2, <2>6, SoftLimitStep DEF Discarded
<1>28. CASE RetryFails(w) BY <1>28 DEF RetryFails
<1>26. CASE HardTimeLimit(w) BY <1>26 DEF HardTimeLimit
<1>27. CASE VisibilityLapse(w) BY <1>27 DEF VisibilityLapse
<1> QED
  BY <1>1, <1>2, <1>3, <1>4, <1>5, <1>6, <1>7, <1>8, <1>9, <1>10, <1>11, <1>12,
     <1>13, <1>14, <1>15, <1>16, <1>17, <1>18, <1>19, <1>20, <1>21, <1>22,
     <1>23, <1>24, <1>25, <1>26, <1>27, <1>28
  DEF Receive, Execute, Disturb

\* Every variable keeps its type: a worker that is not idle always holds a
\* delivery, and no message count or fault budget is ever taken below zero.
THEOREM TypeCorrect == Spec => []TypeOK
<1>1. Init => TypeOK
  BY RetriesAssumption, FaultsAssumption
  DEF Init, TypeOK, WorkerTypes, CounterTypes, StoreTypes, PC, Status, Final
<1>2. TypeOK /\ [Next]_vars => TypeOK'
  <2> SUFFICES ASSUME TypeOK, [Next]_vars
               PROVE  TypeOK'
    OBVIOUS
  <2>1. CASE Next
    BY <2>1, WorkerTypesStep, CounterTypesStep, StoreTypesStep DEF Next, TypeOK
  <2>2. CASE UNCHANGED vars
    BY <2>2 DEF vars, TypeOK, WorkerTypes, CounterTypes, StoreTypes
  <2> QED BY <2>1, <2>2
<1> QED BY <1>1, <1>2, PTL DEF Spec

-----------------------------------------------------------------------------
(* What a step may do *)

\* A step of one worker leaves the others where they are.
LEMMA OtherWorkers ==
  ASSUME WorkerTypes, NEW w \in Workers, Receive(w) \/ Execute(w) \/ Disturb(w),
         NEW v \in Workers \ {w}
  PROVE  pc'[v] = pc[v] /\ task'[v] = task[v]
BY DEF WorkerTypes, Goto, Receive, Execute, Disturb, Deliver,
  CountDelivery, MarkRunning, Stage, ExtractSucceeds, ExtractRejects,
  ExtractLosesFile, DiscardExtracted, WriteOk, PersistRows, PersistJson,
  LogHistory, WriteMissing, DropSource, WriteError, Retry, Ack,
  CountUnavailable, MarkRunningFails, TransientFailure, WriteOkFails,
  RetryFails, Crash, SoftLimitHandled, SoftLimitSwallowed, SoftLimitEscapes, Interrupted,
  HardTimeLimit, VisibilityLapse

\* At most one fault strikes in a step.
LEMMA FaultsStep ==
  ASSUME NEW w \in Workers, Receive(w) \/ Execute(w) \/ Disturb(w)
  PROVE  NoFault \/ \E k \in FaultKinds : Fault(k)
BY DEF FaultKinds, Receive, Execute, Disturb, Deliver,
  CountDelivery, MarkRunning, Stage, ExtractSucceeds, ExtractRejects,
  ExtractLosesFile, DiscardExtracted, WriteOk, PersistRows, PersistJson,
  LogHistory, WriteMissing, DropSource, WriteError, Retry, Ack,
  CountUnavailable, MarkRunningFails, TransientFailure, WriteOkFails,
  RetryFails, Crash, SoftLimitHandled, SoftLimitSwallowed, SoftLimitEscapes, Interrupted,
  HardTimeLimit, VisibilityLapse

\* The budgets are spent and never refilled.
WithinBudget == \A k \in FaultKinds : faults[k] <= MaxFaults[k]

\* What has struck has struck for good, and a kind of fault without a budget never does.
LEMMA Strikes ==
  ASSUME TypeOK, WithinBudget, NEW w \in Workers, Receive(w) \/ Execute(w) \/ Disturb(w),
         NEW k \in FaultKinds
  PROVE  /\ faults'[k] <= faults[k] /\ faults'[k] \in Nat
         /\ Struck(k) => Struck(k)'
         /\ Fault(k) => Struck(k)'
         /\ MaxFaults[k] = 0 => ~Fault(k)
<1>1. /\ faults \in [FaultKinds -> Nat] /\ MaxFaults \in [FaultKinds -> Nat]
      /\ faults[k] <= MaxFaults[k]
  BY FaultsAssumption DEF TypeOK, CounterTypes, WithinBudget
<1>2. NoFault \/ \E i \in FaultKinds : Fault(i) BY FaultsStep
<1> QED BY <1>1, <1>2 DEF NoFault, Fault, Struck

LEMMA BudgetsKept == Spec => []WithinBudget
<1>1. Init => WithinBudget
  BY FaultsAssumption DEF Init, WithinBudget
<1>2. TypeOK /\ WithinBudget /\ [Next]_vars => WithinBudget'
  <2> SUFFICES ASSUME TypeOK, WithinBudget, [Next]_vars PROVE WithinBudget'
    OBVIOUS
  <2>1. ASSUME NEW k \in FaultKinds
        PROVE  faults[k] <= MaxFaults[k] /\ faults[k] \in Nat /\ MaxFaults[k] \in Nat
    BY FaultsAssumption DEF TypeOK, CounterTypes, WithinBudget
  <2>2. CASE Next
    <3>1. \A k \in FaultKinds : faults'[k] <= faults[k] /\ faults'[k] \in Nat
      BY <2>2, Strikes DEF Next
    <3> QED BY <2>1, <3>1 DEF WithinBudget
  <2>3. CASE UNCHANGED vars BY <2>3 DEF vars, WithinBudget
  <2> QED BY <2>2, <2>3
<1> QED BY <1>1, <1>2, TypeCorrect, PTL DEF Spec

\* Only a delivery takes a message, and it takes one.
LEMMA MessageStays ==
  ASSUME TypeOK, NEW w \in Workers, Receive(w) \/ Execute(w) \/ Disturb(w),
         NEW f \in Files, NEW r \in 0 .. MaxRetries, queue[<<f, r>>] > 0
  PROVE  queue'[<<f, r>>] > 0 \/ Deliver(w, f, r)
<1>1. queue \in [Files \X (0 .. MaxRetries) -> Nat] BY DEF TypeOK, CounterTypes
<1>2. ASSUME NEW g \in Files, NEW s \in 0 .. MaxRetries, Deliver(w, g, s), <<g, s>> # <<f, r>>
      PROVE  queue'[<<f, r>>] > 0
  BY <1>1, <1>2 DEF Deliver
<1>3. ASSUME NEW g \in Files, NEW s \in 0 .. MaxRetries, Publish(g, s)
      PROVE  queue'[<<f, r>>] > 0
  BY <1>1, <1>3 DEF Publish
<1>4. CASE Retry(w) \/ Crash(w) \/ VisibilityLapse(w)
  <2>1. task[w].file \in Files /\ task[w].retries \in 0 .. MaxRetries
    BY <1>4, Holding DEF TypeOK, Retry, Crash, VisibilityLapse
  <2>2. task[w].retries < MaxRetries => task[w].retries + 1 \in 0 .. MaxRetries
    BY <2>1, RetriesAssumption
  <2> QED BY <1>3, <1>4, <2>1, <2>2 DEF Retry, Crash, VisibilityLapse
<1>5. CASE UNCHANGED queue BY <1>5
<1>6. CASE Receive(w) BY <1>2, <1>6 DEF Receive
<1>7. CASE ~Receive(w) /\ ~Retry(w) /\ ~Crash(w) /\ ~VisibilityLapse(w)
           /\ ~RetryFails(w) /\ ~SoftLimitEscapes(w)
  <2>1. UNCHANGED queue
    BY <1>7 DEF Execute, Disturb, CountDelivery, MarkRunning, Stage, ExtractSucceeds,
      ExtractRejects, ExtractLosesFile, DiscardExtracted, WriteOk, PersistRows, PersistJson,
      LogHistory, WriteMissing, DropSource, WriteError, Ack, CountUnavailable, MarkRunningFails,
      TransientFailure, WriteOkFails, SoftLimitHandled, SoftLimitSwallowed, HardTimeLimit
  <2> QED BY <1>5, <2>1
<1>8. CASE RetryFails(w)
  BY <1>1, <1>8, Holding, RetriesAssumption DEF RetryFails, TypeOK
<1>9. CASE SoftLimitEscapes(w)
  <2>1. task[w].file \in Files /\ task[w].retries \in 0 .. MaxRetries
    BY <1>9, SoftLimitStep, Holding DEF TypeOK
  <2>2. task[w].retries < MaxRetries => task[w].retries + 1 \in 0 .. MaxRetries
    BY <2>1, RetriesAssumption
  <2> QED BY <1>3, <1>5, <1>9, <2>1, <2>2 DEF SoftLimitEscapes
<1> QED BY <1>4, <1>6, <1>7, <1>8, <1>9

\* A new message is that of a worker who gives it back, or retries.
LEMMA MessageSent ==
  ASSUME TypeOK, NEW w \in Workers, Receive(w) \/ Execute(w) \/ Disturb(w),
         NEW f \in Files, NEW r \in 0 .. MaxRetries, queue'[<<f, r>>] > 0
  PROVE  \/ queue[<<f, r>>] > 0
         \/ /\ pc[w] # "idle" /\ task[w].file = f
            /\ r = task[w].retries \/ (pc[w] = "retry" /\ r = task[w].retries + 1)
<1>1. queue \in [Files \X (0 .. MaxRetries) -> Nat] BY DEF TypeOK, CounterTypes
<1>2. ASSUME NEW g \in Files, NEW s \in 0 .. MaxRetries, Deliver(w, g, s)
      PROVE  queue[<<f, r>>] > 0
  BY <1>1, <1>2 DEF Deliver
<1>3. ASSUME NEW g \in Files, NEW s \in 0 .. MaxRetries, Publish(g, s)
      PROVE  queue[<<f, r>>] > 0 \/ (f = g /\ r = s)
  BY <1>1, <1>3 DEF Publish
<1>4. CASE Retry(w) \/ Crash(w) \/ VisibilityLapse(w)
  <2>1. task[w].file \in Files /\ task[w].retries \in 0 .. MaxRetries
    BY <1>4, Holding DEF TypeOK, Retry, Crash, VisibilityLapse
  <2>2. task[w].retries < MaxRetries => task[w].retries + 1 \in 0 .. MaxRetries
    BY <2>1, RetriesAssumption
  <2> QED BY <1>3, <1>4, <2>1, <2>2 DEF Retry, Crash, VisibilityLapse
<1>6. CASE Receive(w) BY <1>2, <1>6 DEF Receive
<1>7. CASE ~Receive(w) /\ ~Retry(w) /\ ~Crash(w) /\ ~VisibilityLapse(w)
           /\ ~RetryFails(w) /\ ~SoftLimitEscapes(w)
  <2>1. UNCHANGED queue
    BY <1>7 DEF Execute, Disturb, CountDelivery, MarkRunning, Stage, ExtractSucceeds,
      ExtractRejects, ExtractLosesFile, DiscardExtracted, WriteOk, PersistRows, PersistJson,
      LogHistory, WriteMissing, DropSource, WriteError, Ack, CountUnavailable, MarkRunningFails,
      TransientFailure, WriteOkFails, SoftLimitHandled, SoftLimitSwallowed, HardTimeLimit
  <2> QED BY <2>1
<1>8. CASE RetryFails(w)
  BY <1>1, <1>8, Holding, RetriesAssumption DEF RetryFails, TypeOK
<1>9. CASE SoftLimitEscapes(w)
  <2>1. task[w].file \in Files /\ task[w].retries \in 0 .. MaxRetries /\ pc[w] # "idle"
    BY <1>9, SoftLimitStep, Holding DEF TypeOK
  <2>2. task[w].retries < MaxRetries => task[w].retries + 1 \in 0 .. MaxRetries
    BY <2>1, RetriesAssumption
  <2> QED BY <1>3, <1>9, <2>1, <2>2 DEF SoftLimitEscapes
<1> QED BY <1>4, <1>6, <1>7, <1>8, <1>9

-----------------------------------------------------------------------------
(* The delivery cap *)

\* Each admitted execution was counted, or its counting failed; and a counted
\* one was let through only up to the cap.  The first half makes the second
\* inductive: the test is on deliveries, not on admitted.
CapInv ==
  \A f \in Files :
    /\ admitted[f] <= deliveries[f] + uncounted[f]
    /\ admitted[f] <= DeliveryCap + uncounted[f]

\* An execution is admitted only by the comparison with the cap, and every
\* admission is counted, or counted as uncounted.
LEMMA CapInvStep ==
  ASSUME TypeOK, CapInv, NEW w \in Workers,
         Receive(w) \/ Execute(w) \/ Disturb(w)
  PROVE  CapInv'
<1> USE CapAssumption DEF TypeOK, CounterTypes, CapInv
<1>1. CASE CountDelivery(w)
  <2>1. pc[w] # "idle" BY <1>1 DEF CountDelivery
  <2>2. task[w].file \in Files BY <2>1, Holding
  <2>3. CASE deliveries[task[w].file] + 1 > DeliveryCap
    BY <1>1, <2>2, <2>3 DEF CountDelivery
  <2>4. CASE ~(deliveries[task[w].file] + 1 > DeliveryCap)
    BY <1>1, <2>2, <2>4 DEF CountDelivery
  <2> QED BY <2>3, <2>4
<1>2. CASE CountUnavailable(w)
  <2>1. pc[w] # "idle" BY <1>2 DEF CountUnavailable
  <2>2. task[w].file \in Files BY <2>1, Holding
  <2> QED BY <1>2, <2>2 DEF CountUnavailable, Uncounted
<1>4. CASE SoftLimitSwallowed(w)
  <2>1. task[w].file \in Files BY <1>4, SoftLimitStep
  <2>2. CASE UNCHANGED counterVars BY <2>2 DEF counterVars
  <2>3. CASE Uncounted(task[w].file) BY <2>1, <2>3 DEF Uncounted
  <2> QED BY <1>4, <2>2, <2>3 DEF SoftLimitSwallowed
<1>3. CASE ~CountDelivery(w) /\ ~CountUnavailable(w) /\ ~SoftLimitSwallowed(w)
  <2>1. UNCHANGED counterVars
    BY <1>3
    DEF Receive, Execute, Disturb, Deliver, MarkRunning, Stage,
      ExtractSucceeds, ExtractRejects, ExtractLosesFile, DiscardExtracted,
      WriteOk, PersistRows, PersistJson, LogHistory, WriteMissing, DropSource,
      WriteError, Retry, Ack, MarkRunningFails, TransientFailure,
      WriteOkFails, RetryFails, Crash, SoftLimitHandled, SoftLimitEscapes,
      HardTimeLimit, VisibilityLapse
  <2> QED BY <2>1 DEF counterVars
<1> QED BY <1>1, <1>2, <1>3, <1>4

\* Whatever retries, crashes and redeliveries bring a file's message back, at
\* most DeliveryCap executions of it get past the counter, plus those for
\* which the counter could not be updated.
THEOREM CapRespected == Spec => []AttemptsWithinCap
<1>1. Init => CapInv
  BY CapAssumption DEF Init, CapInv
<1>2. TypeOK /\ CapInv /\ [Next]_vars => CapInv'
  <2> SUFFICES ASSUME TypeOK, CapInv, [Next]_vars
               PROVE  CapInv'
    OBVIOUS
  <2>1. CASE Next BY <2>1, CapInvStep DEF Next
  <2>2. CASE UNCHANGED vars BY <2>2 DEF vars, CapInv
  <2> QED BY <2>1, <2>2
<1>3. CapInv => AttemptsWithinCap
  BY DEF CapInv, AttemptsWithinCap
<1> QED BY <1>1, <1>2, <1>3, TypeCorrect, PTL DEF Spec

-----------------------------------------------------------------------------
(* Source objects *)

Unowned(f) == ~source[f] \/ leaked[f]

\* A worker about to write a verdict has been past a discard, or has found
\* the object missing.  Objects never come back while a file is processed.
DiscardInv ==
  /\ FinalMeansDiscarded
  /\ \A w \in Workers :
       pc[w] \in {"ok", "fail", "missing"} => Unowned(task[w].file)

\* A step only ever adds to the files without an owned object.
LEMMA UnownedStays ==
  ASSUME TypeOK, NEW w \in Workers, Receive(w) \/ Execute(w) \/ Disturb(w),
         NEW f \in Files, Unowned(f)
  PROVE  Unowned(f)'
<1> USE DEF TypeOK, StoreTypes, Unowned, sourceVars
<1>1. CASE DiscardExtracted(w) \/ DropSource(w)
  BY <1>1, Holding DEF DiscardExtracted, DropSource, Discarded, DiscardFailed
<1>2. CASE SoftLimitHandled(w) \/ SoftLimitSwallowed(w) \/ SoftLimitEscapes(w)
  <2>1. UNCHANGED sourceVars \/ Discarded(task[w].file) \/ DiscardFailed(task[w].file)
    BY <1>2 DEF SoftLimitHandled, SoftLimitSwallowed, SoftLimitEscapes, Discarded
  <2> QED BY <1>2, <2>1, SoftLimitStep DEF Discarded, DiscardFailed
<1>3. CASE ~DiscardExtracted(w) /\ ~DropSource(w)
           /\ ~SoftLimitHandled(w) /\ ~SoftLimitSwallowed(w) /\ ~SoftLimitEscapes(w)
  <2>1. UNCHANGED sourceVars
    BY <1>3
    DEF Receive, Execute, Disturb, Deliver, CountDelivery, MarkRunning, Stage,
      ExtractSucceeds, ExtractRejects, ExtractLosesFile, WriteOk, PersistRows,
      PersistJson, LogHistory, WriteMissing, WriteError, Retry, Ack,
      CountUnavailable, MarkRunningFails, TransientFailure, WriteOkFails,
      RetryFails, Crash, HardTimeLimit, VisibilityLapse
  <2> QED BY <2>1
<1> QED BY <1>1, <1>2, <1>3

\* A worker at a verdict either was there before, with the same delivery, or
\* has just come past the discard or the failed staging.
LEMMA VerdictsUnowned ==
  ASSUME TypeOK, DiscardInv, NEW w \in Workers,
         Receive(w) \/ Execute(w) \/ Disturb(w),
         NEW v \in Workers, pc'[v] \in {"ok", "fail", "missing"}
  PROVE  Unowned(task[v].file)'
<1> USE DEF TypeOK, DiscardInv
<1>1. CASE v # w
  <2>1. pc'[v] = pc[v] /\ task'[v] = task[v] BY <1>1, OtherWorkers
  <2>2. task[v].file \in Files BY <2>1, Holding
  <2> QED BY <2>1, <2>2, UnownedStays
<1>2. CASE v = w
  <2>1. CASE DiscardExtracted(w) \/ DropSource(w)
    BY <1>2, <2>1, Holding DEF DiscardExtracted, DropSource, Discarded,
       DiscardFailed, Unowned, StoreTypes
  <2>2. CASE SoftLimitHandled(w) \/ SoftLimitSwallowed(w) \/ SoftLimitEscapes(w)
    <3>1. /\ task'[w].file = task[w].file /\ task[w].file \in Files
      BY <2>2, SoftLimitStep
    <3>2. Discarded(task[w].file) \/ DiscardFailed(task[w].file)
      BY <1>2, <2>2
      DEF SoftLimitHandled, SoftLimitSwallowed, SoftLimitEscapes, Interrupted, Goto, WorkerTypes
    <3> QED BY <1>2, <3>1, <3>2 DEF Discarded, DiscardFailed, Unowned, StoreTypes
  <2>3. CASE Stage(w)
    BY <1>2, <2>3, Holding DEF Stage, Goto, WorkerTypes, Unowned, sourceVars
  <2>4. CASE ~DiscardExtracted(w) /\ ~DropSource(w) /\ ~Stage(w)
             /\ ~SoftLimitHandled(w) /\ ~SoftLimitSwallowed(w) /\ ~SoftLimitEscapes(w)
    <3>1. pc'[w] \notin {"ok", "fail", "missing"}
      BY <2>4 DEF WorkerTypes, Goto, Receive, Execute, Disturb, Deliver,
         CountDelivery, MarkRunning, ExtractSucceeds, ExtractRejects,
         ExtractLosesFile, WriteOk, PersistRows, PersistJson, LogHistory,
         WriteMissing, WriteError, Retry, Ack, CountUnavailable,
         MarkRunningFails, TransientFailure, WriteOkFails, RetryFails, Crash,
         HardTimeLimit, VisibilityLapse
    <3> QED BY <1>2, <3>1
  <2> QED BY <2>1, <2>2, <2>3, <2>4
<1> QED BY <1>1, <1>2

\* Every write of a verdict is made by a worker whose file is unowned.
LEMMA FinalsUnowned ==
  ASSUME TypeOK, DiscardInv, NEW w \in Workers,
         Receive(w) \/ Execute(w) \/ Disturb(w)
  PROVE  FinalMeansDiscarded'
<1> USE DEF TypeOK, DiscardInv
<1> SUFFICES ASSUME NEW f \in Files, slot'[f].status \in Final
             PROVE  Unowned(f)'
  BY DEF FinalMeansDiscarded, Unowned
<1>1. CASE UNCHANGED slot
  BY <1>1, UnownedStays DEF FinalMeansDiscarded, Unowned
<1>2. CASE MarkRunning(w)
  <2>1. task[w].file \in Files BY <1>2, Holding DEF MarkRunning
  <2>2. slot[f] = slot'[f]
    BY <1>2, <2>1 DEF MarkRunning, SetSlot, StoreTypes, Final
  <2> QED BY <2>2, UnownedStays DEF FinalMeansDiscarded, Unowned
<1>3. CASE WriteOk(w) \/ WriteMissing(w) \/ WriteError(w)
  <2>1. /\ pc[w] \in {"ok", "fail", "missing"}
        /\ \A g \in Files \ {task[w].file} : slot'[g] = slot[g]
    BY <1>3, Holding
       DEF WriteOk, WriteMissing, WriteError, SetSlot, StoreTypes
  <2>2. CASE f = task[w].file BY <2>1, <2>2, UnownedStays
  <2>3. CASE f # task[w].file
    BY <2>1, <2>3, UnownedStays DEF FinalMeansDiscarded, Unowned
  <2> QED BY <2>2, <2>3
<1>5. CASE SoftLimitHandled(w) \/ SoftLimitEscapes(w)
  <2>1. task[w].file \in Files BY <1>5, SoftLimitStep
  <2>2. CASE UNCHANGED slot BY <1>1, <2>2
  <2>3. CASE SetSlot(task[w].file, "running", 0)
    <3>1. slot[f] = slot'[f] BY <2>1, <2>3 DEF SetSlot, StoreTypes, Final
    <3> QED BY <3>1, UnownedStays DEF FinalMeansDiscarded, Unowned
  <2>4. CASE pc[w] \in {"ok", "fail", "missing"}
             /\ \A g \in Files \ {task[w].file} : slot'[g] = slot[g]
    <3>1. CASE f = task[w].file BY <2>4, <3>1, UnownedStays
    <3>2. CASE f # task[w].file
      BY <2>4, <3>2, UnownedStays DEF FinalMeansDiscarded, Unowned
    <3> QED BY <3>1, <3>2
  <2> QED BY <1>5, <2>1, <2>2, <2>3, <2>4
          DEF SoftLimitHandled, SoftLimitEscapes, SetSlot, StoreTypes
<1>4. CASE ~(UNCHANGED slot) /\ ~MarkRunning(w) /\ ~WriteOk(w)
           /\ ~WriteMissing(w) /\ ~WriteError(w)
           /\ ~SoftLimitHandled(w) /\ ~SoftLimitEscapes(w)
  BY <1>4 DEF Receive, Execute, Disturb, Deliver,
      CountDelivery, Stage, ExtractSucceeds, ExtractRejects, ExtractLosesFile,
      DiscardExtracted, PersistRows, PersistJson, LogHistory, DropSource,
      Retry, Ack, CountUnavailable, MarkRunningFails, TransientFailure,
      WriteOkFails, RetryFails, Crash, SoftLimitSwallowed, HardTimeLimit, VisibilityLapse
<1> QED BY <1>1, <1>2, <1>3, <1>4, <1>5

\* A slot that says ok or error has no source object left, unless a discard of
\* it failed and was logged: with any number of workers on the same file.
THEOREM VerdictAfterDiscard == Spec => []FinalMeansDiscarded
<1>1. Init => DiscardInv
  BY DEF Init, DiscardInv, FinalMeansDiscarded, Final
<1>2. TypeOK /\ DiscardInv /\ [Next]_vars => DiscardInv'
  <2> SUFFICES ASSUME TypeOK, DiscardInv, [Next]_vars
               PROVE  DiscardInv'
    OBVIOUS
  <2>1. CASE Next
    BY <2>1, FinalsUnowned, VerdictsUnowned DEF Next, DiscardInv
  <2>2. CASE UNCHANGED vars
    BY <2>2 DEF vars, DiscardInv, FinalMeansDiscarded, Unowned
  <2> QED BY <2>1, <2>2
<1>3. DiscardInv => FinalMeansDiscarded
  BY DEF DiscardInv
<1> QED BY <1>1, <1>2, <1>3, TypeCorrect, PTL DEF Spec

-----------------------------------------------------------------------------
(* An ok with all its records. Without Redis errors, failed records and time limits, and *)
(* without a restored message, a worker that crashes gives its message back, and whoever  *)
(* takes that message begins by taking the ok away again.                                 *)

KeepsRecords ==
  /\ \A k \in {"persist", "redis", "hardlimit", "softlimit", "escape"} : MaxFaults[k] = 0
  /\ MaxFaults["lapse"] = 0 \/ \A f \in Files : TimeLimit[f] <= VisibilityTimeout

NoMessage(f) == \A r \in 0 .. MaxRetries : queue[<<f, r>>] = 0
At(w, f, labels) == pc[w] \in labels /\ task[w].file = f

Complete(f) == slot[f].id \in rows[f] \cap json[f] \cap history[f]

\* The worker that wrote the ok is still writing its records.
Recording(w, f) ==
  /\ At(w, f, {"rows", "json", "history"})
  /\ task[w].id = slot[f].id
  /\ pc[w] # "rows" => slot[f].id \in rows[f]
  /\ pc[w] = "history" => slot[f].id \in json[f]

\* The records are there, or are being written, or the verdict will be written once more.
Awaited(f) ==
  \/ Complete(f)
  \/ ~NoMessage(f)
  \/ \E w \in Workers : At(w, f, {"count", "mark", "drop", "fail"}) \/ Recording(w, f)

CompleteInv ==
  /\ \A w \in Workers : pc[w] # "idle" => task[w].held
  /\ \A f \in Files : slot[f].status = "ok" => Awaited(f)

\* A crashed worker's message is there to be taken, if the broker still held it.
LEMMA GivenBack ==
  ASSUME TypeOK, NEW w \in Workers, Crash(w), task[w].held, NEW f \in Files, task[w].file = f
  PROVE  ~NoMessage(f)'
<1>1. task[w].retries \in 0 .. MaxRetries BY Holding DEF TypeOK, Crash
<1>2. PICK r \in 0 .. MaxRetries : Publish(f, r) BY <1>1 DEF Crash
<1>3. queue'[<<f, r>>] > 0 BY <1>2 DEF Publish, TypeOK, CounterTypes
<1> QED BY <1>3 DEF NoMessage

LEMMA Waits ==
  ASSUME TypeOK, NEW f \in Files, ~NoMessage(f)
  PROVE  \E r \in 0 .. MaxRetries : queue[<<f, r>>] > 0
<1>1. PICK r \in 0 .. MaxRetries : queue[<<f, r>>] # 0 BY DEF NoMessage
<1>2. queue[<<f, r>>] \in Nat BY DEF TypeOK, CounterTypes
<1> QED BY <1>1, <1>2

\* A file nobody is busy with has no message.
LEMMA NotBusy ==
  ASSUME TypeOK, NEW f \in Files, ~Busy(f)
  PROVE  NoMessage(f)
BY Waits DEF Busy

\* What is left to happen: workers fail and crash, however often.
LEMMA KeptSteps ==
  ASSUME TypeOK, WithinBudget, KeepsRecords,
         NEW w \in Workers, Receive(w) \/ Execute(w) \/ Disturb(w)
  PROVE  /\ Receive(w) \/ Execute(w) \/ TransientFailure(w) \/ Crash(w)
         /\ ~Fault("redis") /\ ~Fault("persist")
<1>1. \A k \in {"persist", "redis", "hardlimit", "softlimit", "escape"} : ~Fault(k)
  BY Strikes DEF KeepsRecords, FaultKinds
<1>2. ~VisibilityLapse(w)
  BY Strikes, Holding, LimitsAssumption DEF KeepsRecords, VisibilityLapse, FaultKinds, TypeOK
<1> QED
  BY <1>1, <1>2
  DEF Disturb, CountUnavailable, MarkRunningFails, WriteOkFails, RetryFails, HardTimeLimit,
    SoftLimitHandled, SoftLimitSwallowed, SoftLimitEscapes, Interrupted

\* Without a restored message the broker holds every delivery.
LEMMA HeldKept ==
  ASSUME TypeOK, WithinBudget, KeepsRecords, CompleteInv,
         NEW w \in Workers, Receive(w) \/ Execute(w) \/ Disturb(w),
         NEW v \in Workers, pc'[v] # "idle"
  PROVE  task'[v].held
<1>1. CASE v # w BY <1>1, OtherWorkers DEF TypeOK, CompleteInv
<1>2. CASE v = w
  <2>1. Receive(w) \/ Execute(w) \/ TransientFailure(w) \/ Crash(w) BY KeptSteps
  <2>2. CASE Receive(w) BY <1>2, <2>2 DEF Receive, Deliver, TypeOK, WorkerTypes
  <2>3. CASE ExtractSucceeds(w)
    <3>1. pc[w] # "idle" /\ task[w] \in Task BY <2>3, Holding DEF ExtractSucceeds, TypeOK
    <3>2. task'[w].held = task[w].held
      BY <2>3, <3>1 DEF ExtractSucceeds, TypeOK, WorkerTypes, Task
    <3> QED BY <1>2, <3>1, <3>2 DEF CompleteInv
  <2>4. CASE Ack(w) \/ Crash(w)
    BY <1>2, <2>4 DEF Ack, Crash, Goto, TypeOK, WorkerTypes
  <2>5. CASE UNCHANGED task /\ pc[w] # "idle" BY <1>2, <2>5 DEF CompleteInv
  <2> QED
    BY <2>1, <2>2, <2>3, <2>4, <2>5
    DEF Execute, CountDelivery, MarkRunning, Stage, ExtractRejects, ExtractLosesFile,
      DiscardExtracted, WriteOk, PersistRows, PersistJson, LogHistory, WriteMissing, DropSource,
      WriteError, Retry, TransientFailure
<1> QED BY <1>1, <1>2

\* A new ok is the work of its worker.
LEMMA OkWritten ==
  ASSUME TypeOK, WithinBudget, KeepsRecords,
         NEW w \in Workers, Receive(w) \/ Execute(w) \/ Disturb(w),
         NEW f \in Files, slot'[f] # slot[f], slot'[f].status = "ok"
  PROVE  WriteOk(w) /\ task[w].file = f
<1>1. slot \in [Files -> [status : Status, id : Nat]] BY DEF TypeOK, StoreTypes
<1>2. CASE MarkRunning(w) \/ WriteMissing(w) \/ WriteError(w)
  BY <1>1, <1>2 DEF MarkRunning, WriteMissing, WriteError, SetSlot
<1>3. CASE WriteOk(w)
  BY <1>1, <1>3 DEF WriteOk, SetSlot
<1>4. CASE UNCHANGED slot BY <1>4
<1> QED
  BY <1>2, <1>3, <1>4, KeptSteps
  DEF Receive, Execute, Deliver, CountDelivery, Stage, ExtractSucceeds, ExtractRejects,
    ExtractLosesFile, DiscardExtracted, PersistRows, PersistJson, LogHistory, DropSource, Retry,
    Ack, TransientFailure, Crash

\* Records are only ever added.
LEMMA RecordsGrow ==
  ASSUME TypeOK, NEW w \in Workers, Receive(w) \/ Execute(w) \/ Disturb(w), NEW f \in Files
  PROVE  rows[f] \subseteq rows'[f] /\ json[f] \subseteq json'[f] /\ history[f] \subseteq history'[f]
<1>1. /\ rows \in [Files -> SUBSET Nat] /\ json \in [Files -> SUBSET Nat]
      /\ history \in [Files -> SUBSET Nat]
  BY DEF TypeOK, StoreTypes
<1>2. CASE PersistRows(w) \/ PersistJson(w) \/ LogHistory(w)
  BY <1>1, <1>2 DEF PersistRows, PersistJson, LogHistory
<1>3. CASE UNCHANGED <<rows, json, history>> BY <1>3
<1> QED
  BY <1>2, <1>3
  DEF recordVars, Receive, Execute, Disturb, Deliver, CountDelivery, MarkRunning, Stage,
    ExtractSucceeds, ExtractRejects, ExtractLosesFile, DiscardExtracted, WriteOk, WriteMissing,
    DropSource, WriteError, Retry, Ack, CountUnavailable, MarkRunningFails, TransientFailure,
    WriteOkFails, RetryFails, Crash, SoftLimitHandled, SoftLimitSwallowed, SoftLimitEscapes,
    HardTimeLimit, VisibilityLapse

\* The worker that an ok was waiting for has done its next step, or gave the message back.
LEMMA AwaitedWorker ==
  ASSUME TypeOK, WithinBudget, KeepsRecords, CompleteInv,
         NEW w \in Workers, Receive(w) \/ Execute(w) \/ Disturb(w),
         NEW f \in Files, slot'[f] = slot[f], slot[f].status = "ok",
         At(w, f, {"count", "mark", "drop", "fail"}) \/ Recording(w, f)
  PROVE  Awaited(f)'
<1>1. /\ pc[w] \in {"count", "mark", "drop", "fail", "rows", "json", "history"}
      /\ task[w].file = f
  BY DEF At, Recording
<1>2. ~Fault("redis") /\ ~Fault("persist") BY KeptSteps
<1>3. pc \in [Workers -> PC] /\ slot \in [Files -> [status : Status, id : Nat]]
  BY DEF TypeOK, WorkerTypes, StoreTypes
<1>4. CASE Crash(w) BY <1>1, <1>4, GivenBack DEF CompleteInv, Awaited
<1>5. CASE CountDelivery(w) \/ DropSource(w)
  BY <1>1, <1>3, <1>5 DEF CountDelivery, DropSource, Goto, At, Awaited
<1>6. CASE MarkRunning(w) \/ WriteError(w)
  <2>1. SetSlot(f, "running", 0) \/ SetSlot(f, "error", 0)
    BY <1>1, <1>2, <1>6 DEF MarkRunning, WriteError
  <2> QED BY <1>3, <2>1 DEF SetSlot
<1>7. CASE PersistRows(w) \/ PersistJson(w) \/ LogHistory(w)
  <2>1. /\ Recording(w, f) /\ UNCHANGED <<slot, task>>
    BY <1>7 DEF At, PersistRows, PersistJson, LogHistory
  <2>2. /\ rows \in [Files -> SUBSET Nat] /\ json \in [Files -> SUBSET Nat]
        /\ history \in [Files -> SUBSET Nat]
    BY DEF TypeOK, StoreTypes
  <2>3. CASE PersistRows(w)
    <3>1. pc'[w] = "json" /\ slot'[f].id \in rows'[f]
      BY <1>1, <1>2, <1>3, <2>1, <2>2, <2>3 DEF PersistRows, Goto, Recording
    <3>2. Recording(w, f)' BY <1>1, <2>1, <3>1 DEF Recording, At
    <3> QED BY <3>2 DEF Awaited
  <2>4. CASE PersistJson(w)
    <3>1. pc'[w] = "history" /\ slot'[f].id \in rows'[f] /\ slot'[f].id \in json'[f]
      BY <1>1, <1>2, <1>3, <2>1, <2>2, <2>4 DEF PersistJson, Goto, Recording
    <3>2. Recording(w, f)' BY <1>1, <2>1, <3>1 DEF Recording, At
    <3> QED BY <3>2 DEF Awaited
  <2>5. CASE LogHistory(w)
    <3>1. Complete(f)'
      BY <1>1, <1>2, <2>1, <2>2, <2>5 DEF LogHistory, Recording, Complete
    <3> QED BY <3>1 DEF Awaited
  <2> QED BY <1>7, <2>3, <2>4, <2>5
<1> QED
  BY <1>1, <1>2, <1>4, <1>5, <1>6, <1>7, KeptSteps
  DEF Receive, Execute, Deliver, Stage, ExtractSucceeds, ExtractRejects,
    ExtractLosesFile, DiscardExtracted, WriteOk, WriteMissing, Retry, Ack, TransientFailure

\* An ok is complete, or waits for somebody, after every step.
LEMMA AwaitedKept ==
  ASSUME TypeOK, WithinBudget, KeepsRecords, CompleteInv,
         NEW w \in Workers, Receive(w) \/ Execute(w) \/ Disturb(w),
         NEW f \in Files, slot'[f].status = "ok"
  PROVE  Awaited(f)'
<1>1. CASE slot'[f] # slot[f]
  <2>1. WriteOk(w) /\ task[w].file = f BY <1>1, OkWritten
  <2>2. pc \in [Workers -> PC] BY DEF TypeOK, WorkerTypes
  <2>3. pc'[w] = "rows" /\ task'[w] = task[w] BY <2>1, <2>2 DEF WriteOk, Goto
  <2>4. slot'[f].id = task[w].id BY <2>1 DEF WriteOk, SetSlot, TypeOK, StoreTypes
  <2>5. Recording(w, f)' BY <2>1, <2>3, <2>4 DEF Recording, At
  <2> QED BY <2>5 DEF Awaited
<1>2. CASE slot'[f] = slot[f]
  <2>1. Awaited(f) /\ slot[f].status = "ok" BY <1>2 DEF CompleteInv
  <2>2. CASE Complete(f) BY <1>2, <2>2, RecordsGrow DEF Complete, Awaited
  <2>3. CASE ~NoMessage(f)
    <3>1. PICK r \in 0 .. MaxRetries : queue[<<f, r>>] > 0 BY <2>3, Waits
    <3>2. CASE queue'[<<f, r>>] > 0
      <4>1. ~NoMessage(f)' BY <3>2 DEF NoMessage
      <4> QED BY <4>1 DEF Awaited
    <3>3. CASE Deliver(w, f, r)
      <4>1. At(w, f, {"count", "drop"})' BY <3>3 DEF Deliver, Goto, At, TypeOK, WorkerTypes
      <4> QED BY <4>1 DEF Awaited, At
    <3> QED BY <3>1, <3>2, <3>3, MessageStays
  <2>4. ASSUME NEW v \in Workers \ {w},
               At(v, f, {"count", "mark", "drop", "fail"}) \/ Recording(v, f)
        PROVE  Awaited(f)'
    <3>1. pc'[v] = pc[v] /\ task'[v] = task[v] BY OtherWorkers DEF TypeOK
    <3>2. At(v, f, {"count", "mark", "drop", "fail"})' \/ Recording(v, f)'
      BY <1>2, <2>4, <3>1, RecordsGrow DEF At, Recording
    <3> QED BY <3>2 DEF Awaited
  <2>5. ASSUME At(w, f, {"count", "mark", "drop", "fail"}) \/ Recording(w, f)
        PROVE  Awaited(f)'
    BY <1>2, <2>1, <2>5, AwaitedWorker
  <2> QED BY <2>1, <2>2, <2>3, <2>4, <2>5 DEF Awaited
<1> QED BY <1>1, <1>2

\* However often workers crash, attempts fail and discards fail in between: an ok that
\* nobody will touch any more has its preview rows, its JSON and its row in the history.
\* Time limits are excluded: the soft one can cost a record and the hard one all three.
THEOREM OkHasItsRecords ==
  ASSUME KeepsRecords
  PROVE  Spec => []OkIsComplete
<1>1. Init => CompleteInv BY DEF Init, CompleteInv
<1>2. TypeOK /\ WithinBudget /\ CompleteInv /\ [Next]_vars => CompleteInv'
  <2> SUFFICES ASSUME TypeOK, WithinBudget, CompleteInv, [Next]_vars PROVE CompleteInv'
    OBVIOUS
  <2>1. CASE Next BY <2>1, HeldKept, AwaitedKept DEF Next, CompleteInv
  <2>2. CASE UNCHANGED vars
    BY <2>2 DEF vars, CompleteInv, Awaited, Complete, Recording, At, NoMessage
  <2> QED BY <2>1, <2>2
<1>3. TypeOK /\ CompleteInv => OkIsComplete
  <2> SUFFICES ASSUME TypeOK, CompleteInv, NEW f \in Files, slot[f].status = "ok", ~Busy(f)
               PROVE  Complete(f)
    BY DEF OkIsComplete, Complete
  <2>1. NoMessage(f) BY NotBusy
  <2> QED BY <2>1 DEF CompleteInv, Awaited, Busy, Recording, At
<1> QED BY <1>1, <1>2, <1>3, TypeCorrect, BudgetsKept, PTL DEF Spec

-----------------------------------------------------------------------------
(* No file is dropped. Unless a Redis error fails a task, the hard limit kills one, or the *)
(* soft limit strikes where nothing handles it, an undecided file has a message, or a      *)
(* worker whose message the broker still holds, and no retry is the last one before its    *)
(* message is gone.                                                                        *)

\* A file processed in place may vanish under a worker: one attempt more.
RetriesCover == MaxFaults["transient"] + (IF InPlace THEN 1 ELSE 0) <= MaxRetries

Handled == \A k \in {"redis", "hardlimit", "escape"} : ~Struck(k)

Undecided(f) == slot[f].status \in {"pending", "running"}

\* Each retry was paid for by a passing failure, or by the file having vanished.
Extra(f) == IF InPlace /\ ~source[f] THEN 1 ELSE 0
Due(f, r) == r + faults["transient"] <= MaxFaults["transient"] + Extra(f)

\* Where a worker has its file's verdict still before it.
Deciding == PC \ {"idle", "rows", "json", "history", "ack"}

\* What a worker with t owes at label: only after it staged the file can it lose the message.
Owed(label, t) ==
  /\ Due(t.file, t.retries)
  /\ label = "extract" => t.retries + faults["transient"] <= MaxFaults["transient"]
  /\ label = "retry" => Due(t.file, t.retries + 1)
  /\ label \in {"count", "mark", "stage"} => t.held

InCare(f) == ~NoMessage(f) \/ \E w \in Workers : At(w, f, Deciding) /\ task[w].held

CareInv ==
  /\ \A f \in Files, r \in 0 .. MaxRetries : queue[<<f, r>>] > 0 => Due(f, r)
  /\ \A w \in Workers : pc[w] # "idle" => Owed(pc[w], task[w])
  /\ \A f \in Files : Undecided(f) => InCare(f)

\* What is paid for stays so: failures are only spent, and no object comes back.
LEMMA DueKept ==
  ASSUME TypeOK, WithinBudget, NEW w \in Workers, Receive(w) \/ Execute(w) \/ Disturb(w),
         NEW f \in Files, NEW r \in Nat, Due(f, r)
  PROVE  Due(f, r)'
<1>1. /\ faults["transient"] \in Nat /\ faults'["transient"] \in Nat
      /\ faults'["transient"] <= faults["transient"] /\ MaxFaults["transient"] \in Nat
  BY Strikes, FaultsAssumption DEF TypeOK, CounterTypes, FaultKinds
<1>2. source'[f] => source[f]
  <2>1. source \in [Files -> BOOLEAN] BY DEF TypeOK, StoreTypes
  <2>2. CASE DiscardExtracted(w) \/ DropSource(w)
    BY <2>1, <2>2, Holding
    DEF DiscardExtracted, DropSource, Discarded, DiscardFailed, TypeOK
  <2>4. CASE SoftLimitHandled(w) \/ SoftLimitSwallowed(w) \/ SoftLimitEscapes(w)
    <3>1. UNCHANGED source \/ source' = [source EXCEPT ![task[w].file] = FALSE]
      BY <2>4 DEF SoftLimitHandled, SoftLimitSwallowed, SoftLimitEscapes, sourceVars, Discarded,
         DiscardFailed
    <3> QED BY <2>1, <2>4, <3>1, SoftLimitStep DEF TypeOK
  <2>3. CASE UNCHANGED source BY <2>3
  <2> QED
    BY <2>2, <2>3, <2>4
    DEF sourceVars, Receive, Execute, Disturb, Deliver, CountDelivery, MarkRunning, Stage,
      ExtractSucceeds, ExtractRejects, ExtractLosesFile, WriteOk, PersistRows, PersistJson,
      LogHistory, WriteMissing, WriteError, Retry, Ack, CountUnavailable, MarkRunningFails,
      TransientFailure, WriteOkFails, RetryFails, Crash, HardTimeLimit, VisibilityLapse
<1> QED BY <1>1, <1>2 DEF Due, Extra

\* A message is paid for: it was before, or its worker gave it back or retries.
LEMMA MessagesDue ==
  ASSUME TypeOK, WithinBudget, CareInv, NEW w \in Workers, Receive(w) \/ Execute(w) \/ Disturb(w),
         NEW f \in Files, NEW r \in 0 .. MaxRetries, queue'[<<f, r>>] > 0
  PROVE  Due(f, r)'
<1>1. r \in Nat BY RetriesAssumption
<1>2. CASE queue[<<f, r>>] > 0 BY <1>1, <1>2, DueKept DEF CareInv
<1>3. CASE pc[w] # "idle" /\ task[w].file = f
           /\ (r = task[w].retries \/ (pc[w] = "retry" /\ r = task[w].retries + 1))
  BY <1>1, <1>3, DueKept DEF CareInv, Owed
<1> QED BY <1>2, <1>3, MessageSent

\* Where a step leads, and what it makes of the delivery.
LEMMA DueWorker ==
  ASSUME TypeOK, WithinBudget, CareInv, Handled',
         NEW w \in Workers, Receive(w) \/ Execute(w) \/ Disturb(w), pc'[w] # "idle"
  PROVE  Owed(pc[w], task[w])'
<1>1. /\ faults["transient"] \in Nat /\ MaxFaults["transient"] \in Nat
      /\ faults'["transient"] \in Nat /\ faults'["transient"] <= faults["transient"]
      /\ faults \in [FaultKinds -> Nat]
      /\ pc \in [Workers -> PC] /\ task \in [Workers -> Task \cup {NoTask}]
  BY Strikes, FaultsAssumption DEF TypeOK, WorkerTypes, CounterTypes, FaultKinds
<1>2. ~Fault("redis") /\ ~Fault("hardlimit") /\ ~Fault("escape")
  BY Strikes DEF Handled, FaultKinds
<1>3. CASE Receive(w)
  <2>1. PICK f \in Files, r \in 0 .. MaxRetries : Deliver(w, f, r) BY <1>3 DEF Receive
  <2>2. Due(f, r)' /\ r \in Nat BY <2>1, DueKept, RetriesAssumption DEF Deliver, CareInv
  <2>3. /\ task'[w] = [file |-> f, retries |-> r, held |-> TRUE, timed |-> FALSE, id |-> 0]
        /\ pc'[w] \in {"drop", "count"}
    BY <1>1, <2>1 DEF Deliver, Goto
  <2> QED BY <2>2, <2>3 DEF Owed, Due, Extra
<1>4. CASE pc[w] # "idle"
  <2>1. PICK f \in Files, r \in 0 .. MaxRetries :
          task[w] \in Task /\ task[w].file = f /\ task[w].retries = r
    BY <1>4, Holding DEF TypeOK
  <2>2. r \in Nat /\ Due(f, r) /\ Owed(pc[w], task[w])
    BY <1>4, <2>1, RetriesAssumption DEF CareInv, Owed
  <2>3. Due(f, r)' BY <2>2, DueKept
  <2>4. ASSUME pc'[w] \notin {"mark", "stage", "extract", "retry", "count"},
               task'[w].file = f, task'[w].retries = r
        PROVE  Owed(pc[w], task[w])'
    BY <2>3, <2>4 DEF Owed, Due, Extra
  <2>5. CASE CountDelivery(w) \/ CountUnavailable(w) \/ MarkRunning(w)
    <3>1. /\ UNCHANGED task /\ task[w].held /\ pc'[w] \in {"mark", "drop", "stage"}
      BY <1>1, <2>2, <2>5 DEF CountDelivery, CountUnavailable, MarkRunning, Goto, Owed
    <3> QED BY <2>1, <2>3, <3>1 DEF Owed, Due, Extra
  <2>6. CASE Stage(w)
    <3>1. /\ UNCHANGED <<task, source, faults>> /\ pc'[w] \in {"extract", "missing"}
          /\ pc'[w] = "extract" => source[f]
      BY <1>1, <2>1, <2>6 DEF Stage, Goto, sourceVars, NoFault
    <3>2. source[f] => r + faults["transient"] <= MaxFaults["transient"]
      BY <1>1, <2>2 DEF Due, Extra
    <3> QED BY <2>1, <2>3, <3>1, <3>2 DEF Owed, Due, Extra
  <2>7. CASE ExtractLosesFile(w)
    <3>1. UNCHANGED <<task, source, faults>> /\ pc'[w] = "retry" /\ Extra(f) = 1
      BY <1>1, <2>1, <2>7 DEF ExtractLosesFile, Goto, sourceVars, NoFault, Extra
    <3>2. r + faults["transient"] <= MaxFaults["transient"]
      BY <2>1, <2>2, <2>7 DEF ExtractLosesFile, Owed
    <3>3. Due(f, r + 1)' BY <1>1, <2>2, <3>1, <3>2 DEF Due, Extra
    <3> QED BY <2>1, <2>3, <3>1, <3>3 DEF Owed, Due, Extra
  <2>8. CASE TransientFailure(w)
    <3>1. /\ UNCHANGED <<task, source>> /\ pc'[w] = "retry"
          /\ faults'["transient"] = faults["transient"] - 1
      BY <1>1, <2>8 DEF TransientFailure, Goto, sourceVars, Fault, FaultKinds
    <3>2. Due(f, r + 1)' BY <1>1, <2>2, <3>1 DEF Due, Extra
    <3> QED BY <2>1, <2>3, <3>1, <3>2 DEF Owed, Due, Extra
  <2>9. CASE ExtractSucceeds(w)
    <3>1. pc'[w] = "discard" BY <1>1, <2>9 DEF ExtractSucceeds, Goto
    <3>2. task'[w].file = f /\ task'[w].retries = r
      BY <1>1, <2>1, <2>9 DEF ExtractSucceeds, Task
    <3> QED BY <2>4, <3>1, <3>2
  <2>14. CASE SoftLimitHandled(w) \/ SoftLimitSwallowed(w)
    <3>1. task'[w].file = f /\ task'[w].retries = r /\ task'[w].held = task[w].held
      BY <2>1, <2>14, SoftLimitStep DEF TypeOK
    <3>2. CASE pc'[w] \notin {"mark", "stage", "extract", "retry", "count"} BY <2>4, <3>1, <3>2
    <3>3. CASE pc[w] = "count" /\ pc'[w] = "mark"
      BY <2>1, <2>2, <2>3, <3>1, <3>3 DEF Owed, Due, Extra
    <3>4. CASE pc[w] = "extract" /\ pc'[w] = "extract"
      <4>1. r + faults["transient"] <= MaxFaults["transient"] BY <2>1, <2>2, <3>4 DEF Owed
      <4>2. r + faults'["transient"] <= MaxFaults["transient"] BY <1>1, <2>2, <4>1
      <4> QED BY <2>3, <3>1, <3>4, <4>2 DEF Owed, Due, Extra
    <3> QED
      BY <1>1, <2>14, <3>2, <3>3, <3>4
      DEF SoftLimitHandled, SoftLimitSwallowed, Interrupted, Goto
  <2>10. CASE VisibilityLapse(w)
    <3>1. pc'[w] = "extract" /\ task'[w].file = f /\ task'[w].retries = r
      BY <1>1, <2>1, <2>10 DEF VisibilityLapse, Task
    <3>2. r + faults["transient"] <= MaxFaults["transient"]
      BY <2>1, <2>2, <2>10 DEF VisibilityLapse, Owed
    <3>3. r + faults'["transient"] <= MaxFaults["transient"] BY <1>1, <2>2, <3>2
    <3> QED BY <2>3, <3>1, <3>3 DEF Owed, Due, Extra
  <2>11. CASE ExtractRejects(w) \/ DiscardExtracted(w) \/ WriteOk(w) \/ PersistRows(w)
              \/ PersistJson(w) \/ LogHistory(w) \/ WriteMissing(w) \/ DropSource(w)
              \/ WriteError(w) \/ Retry(w)
    <3>1. UNCHANGED task
      BY <2>11 DEF ExtractRejects, DiscardExtracted, WriteOk, PersistRows, PersistJson,
         LogHistory, WriteMissing, DropSource, WriteError, Retry
    <3>2. pc'[w] \notin {"mark", "stage", "extract", "retry", "count"}
      BY <1>1, <1>2, <2>11 DEF ExtractRejects, DiscardExtracted, WriteOk, PersistRows, PersistJson,
         LogHistory, WriteMissing, DropSource, WriteError, Retry, Goto
    <3> QED BY <2>1, <2>4, <3>1, <3>2
  <2>12. CASE Ack(w) \/ Crash(w) \/ HardTimeLimit(w)
    BY <1>1, <2>12 DEF Ack, Crash, HardTimeLimit, Goto
  <2>13. ~Receive(w) BY <1>4 DEF Receive, Deliver
  <2> QED
    BY <1>2, <2>5, <2>6, <2>7, <2>8, <2>9, <2>10, <2>11, <2>12, <2>13, <2>14
    DEF Execute, Disturb, MarkRunningFails, WriteOkFails, RetryFails, SoftLimitEscapes, Interrupted
<1> QED BY <1>3, <1>4 DEF Execute, Disturb, CountDelivery, MarkRunning, Stage, ExtractSucceeds,
    ExtractRejects, ExtractLosesFile, DiscardExtracted, WriteOk, PersistRows, PersistJson,
    LogHistory, WriteMissing, DropSource, WriteError, Retry, Ack, CountUnavailable,
    MarkRunningFails, TransientFailure, WriteOkFails, RetryFails, Crash, SoftLimitHandled,
    SoftLimitSwallowed, SoftLimitEscapes, HardTimeLimit, VisibilityLapse

\* A retry that was paid for is published, and so is the message of a worker that is lost.
LEMMA PassedOn ==
  ASSUME TypeOK, RetriesCover, CareInv, NEW w \in Workers, Retry(w) \/ VisibilityLapse(w),
         NEW f \in Files, task[w].file = f
  PROVE  ~NoMessage(f)'
<1>1. pc[w] # "idle" /\ task[w].retries \in 0 .. MaxRetries
  BY Holding DEF TypeOK, Retry, VisibilityLapse
<1>2. ASSUME Retry(w)
      PROVE  task[w].retries + 1 \in 0 .. MaxRetries /\ task[w].retries < MaxRetries
  <2>1. Due(f, task[w].retries + 1) BY <1>1, <1>2 DEF Retry, CareInv, Owed
  <2>2. faults["transient"] \in Nat /\ MaxFaults["transient"] \in Nat
    BY FaultsAssumption DEF TypeOK, CounterTypes, FaultKinds
  <2> QED BY <1>1, <2>1, <2>2, RetriesAssumption DEF Due, Extra, RetriesCover
<1>3. PICK r \in 0 .. MaxRetries : Publish(f, r) BY <1>1, <1>2 DEF Retry, VisibilityLapse
<1>4. queue'[<<f, r>>] > 0 BY <1>3 DEF Publish, TypeOK, CounterTypes
<1> QED BY <1>4 DEF NoMessage

\* The worker that has the file in its care keeps it, passes it on, or decides it.
LEMMA CaringWorker ==
  ASSUME TypeOK, WithinBudget, RetriesCover, CareInv, Handled',
         NEW w \in Workers, Receive(w) \/ Execute(w) \/ Disturb(w),
         NEW f \in Files, Undecided(f)', At(w, f, Deciding), task[w].held
  PROVE  InCare(f)'
<1>1. /\ pc[w] \in Deciding /\ pc[w] # "idle" /\ task[w].file = f /\ task[w] \in Task
      /\ pc \in [Workers -> PC] /\ task \in [Workers -> Task \cup {NoTask}]
      /\ slot \in [Files -> [status : Status, id : Nat]]
  BY Holding DEF At, Deciding, TypeOK, WorkerTypes, StoreTypes
<1>2. ~Fault("redis") /\ ~Fault("hardlimit") /\ ~Fault("escape")
  BY Strikes DEF Handled, FaultKinds
<1>3. CASE Crash(w) BY <1>1, <1>3, GivenBack DEF InCare
<1>4. CASE Retry(w) \/ VisibilityLapse(w) BY <1>1, <1>4, PassedOn DEF InCare
<1>5. CASE WriteOk(w) \/ WriteMissing(w) \/ WriteError(w)
  <2>1. SetSlot(f, "ok", task[w].id) \/ SetSlot(f, "error", 0)
    BY <1>1, <1>2, <1>5 DEF WriteOk, WriteMissing, WriteError
  <2> QED BY <1>1, <2>1 DEF SetSlot, Undecided
<1>6. CASE CountDelivery(w) \/ CountUnavailable(w) \/ MarkRunning(w) \/ Stage(w)
           \/ ExtractRejects(w) \/ ExtractLosesFile(w) \/ TransientFailure(w)
           \/ DiscardExtracted(w) \/ DropSource(w)
  <2>1. UNCHANGED task /\ pc'[w] \in Deciding
    BY <1>1, <1>6 DEF Deciding, PC, Goto, CountDelivery, CountUnavailable, MarkRunning, Stage,
      ExtractRejects, ExtractLosesFile, TransientFailure, DiscardExtracted, DropSource
  <2> QED BY <1>1, <2>1 DEF InCare, At
<1>7. CASE ExtractSucceeds(w) \/ SoftLimitHandled(w) \/ SoftLimitSwallowed(w)
  <2>1. pc'[w] \in Deciding
    BY <1>1, <1>7 DEF Deciding, PC, Goto, ExtractSucceeds, SoftLimitHandled, SoftLimitSwallowed,
      Interrupted
  <2>2. task'[w].file = f /\ task'[w].held
    BY <1>1, <1>7, SoftLimitStep DEF ExtractSucceeds, Task, TypeOK
  <2> QED BY <2>1, <2>2 DEF InCare, At
<1> QED
  BY <1>1, <1>2, <1>3, <1>4, <1>5, <1>6, <1>7
  DEF Deciding, Receive, Execute, Disturb, Deliver, PersistRows, PersistJson, LogHistory, Ack,
    MarkRunningFails, WriteOkFails, RetryFails, SoftLimitEscapes, Interrupted, HardTimeLimit

\* Only a worker that begins makes a file undecided.
LEMMA UndecidedAgain ==
  ASSUME TypeOK, ~Fault("escape"), NEW w \in Workers, Receive(w) \/ Execute(w) \/ Disturb(w),
         NEW f \in Files, Undecided(f)', ~Undecided(f)
  PROVE  MarkRunning(w) /\ task[w].file = f
<1>1. slot \in [Files -> [status : Status, id : Nat]] BY DEF TypeOK, StoreTypes
<1>2. CASE MarkRunning(w)
  BY <1>1, <1>2, Holding DEF MarkRunning, SetSlot, Undecided, TypeOK
<1>3. CASE WriteOk(w) \/ WriteMissing(w) \/ WriteError(w) \/ SoftLimitHandled(w)
  <2>1. task[w].file \in Files
    BY <1>3, Holding, SoftLimitStep DEF WriteOk, WriteMissing, WriteError, TypeOK
  <2>2. UNCHANGED slot \/ SetSlot(task[w].file, "ok", task[w].id) \/ SetSlot(task[w].file, "error", 0)
    BY <1>3 DEF WriteOk, WriteMissing, WriteError, SoftLimitHandled
  <2> QED BY <1>1, <2>1, <2>2 DEF SetSlot, Undecided
<1>4. CASE UNCHANGED slot BY <1>4 DEF Undecided
<1> QED
  BY <1>2, <1>3, <1>4
  DEF Receive, Execute, Disturb, Deliver, CountDelivery, Stage, ExtractSucceeds, ExtractRejects,
    ExtractLosesFile, DiscardExtracted, PersistRows, PersistJson, LogHistory, DropSource, Retry,
    Ack, CountUnavailable, MarkRunningFails, TransientFailure, WriteOkFails, RetryFails, Crash,
    SoftLimitSwallowed, SoftLimitEscapes, Interrupted, HardTimeLimit, VisibilityLapse

\* An undecided file is in somebody's care after every step.
LEMMA CareKept ==
  ASSUME TypeOK, WithinBudget, RetriesCover, CareInv, Handled',
         NEW w \in Workers, Receive(w) \/ Execute(w) \/ Disturb(w),
         NEW f \in Files, Undecided(f)'
  PROVE  InCare(f)'
<1>1. CASE ~Undecided(f)
  <2>3. ~Fault("escape") BY Strikes DEF Handled, FaultKinds
  <2>1. MarkRunning(w) /\ task[w].file = f BY <1>1, <2>3, UndecidedAgain
  <2>2. task[w].held BY <2>1 DEF MarkRunning, CareInv, Owed
  <2>4. At(w, f, Deciding) BY <2>1 DEF MarkRunning, At, Deciding, PC
  <2> QED BY <2>2, <2>4, CaringWorker
<1>2. CASE ~NoMessage(f)
  <2>1. PICK r \in 0 .. MaxRetries : queue[<<f, r>>] > 0 BY <1>2, Waits
  <2>2. CASE queue'[<<f, r>>] > 0
    <3>1. ~NoMessage(f)' BY <2>2 DEF NoMessage
    <3> QED BY <3>1 DEF InCare
  <2>3. CASE Deliver(w, f, r)
    <3>1. At(w, f, Deciding)' /\ task'[w].held
      BY <2>3 DEF Deliver, Goto, At, TypeOK, WorkerTypes, Deciding, PC
    <3> QED BY <3>1 DEF InCare
  <2> QED BY <2>1, <2>2, <2>3, MessageStays
<1>3. ASSUME NEW v \in Workers \ {w}, At(v, f, Deciding), task[v].held PROVE InCare(f)'
  <2>1. pc'[v] = pc[v] /\ task'[v] = task[v] BY OtherWorkers DEF TypeOK
  <2> QED BY <1>3, <2>1 DEF InCare, At
<1>4. ASSUME At(w, f, Deciding), task[w].held PROVE InCare(f)'
  BY <1>4, CaringWorker
<1> QED BY <1>1, <1>2, <1>3, <1>4 DEF CareInv, InCare

\* CareInv holds as long as none of the three kinds of fault has struck.
LEMMA Care ==
  ASSUME RetriesCover
  PROVE  Spec => [](Handled => CareInv)
<1>1. Init => CareInv
  <2> SUFFICES ASSUME Init PROVE CareInv
    OBVIOUS
  <2>1. ASSUME NEW f \in Files PROVE ~NoMessage(f)
    <3>1. 0 \in 0 .. MaxRetries /\ queue[<<f, 0>>] = 1 BY RetriesAssumption DEF Init
    <3> QED BY <3>1 DEF NoMessage
  <2>2. ASSUME NEW f \in Files, NEW r \in 0 .. MaxRetries, queue[<<f, r>>] > 0 PROVE Due(f, r)
    <3>1. r = 0 BY <2>2 DEF Init
    <3> QED BY <3>1, FaultsAssumption DEF Init, Due, Extra, FaultKinds
  <2> QED BY <2>1, <2>2 DEF Init, CareInv, InCare
<1>2. TypeOK /\ WithinBudget /\ (Handled => CareInv) /\ [Next]_vars => (Handled => CareInv)'
  <2> SUFFICES ASSUME TypeOK, WithinBudget, Handled => CareInv, [Next]_vars, Handled'
               PROVE  CareInv'
    OBVIOUS
  <2>1. ASSUME NEW w \in Workers, Receive(w) \/ Execute(w) \/ Disturb(w) PROVE CareInv'
    <3>1. Handled BY <2>1, Strikes DEF Handled, FaultKinds
    <3>2. CareInv BY <3>1
    <3>3. ASSUME NEW v \in Workers, pc'[v] # "idle" PROVE Owed(pc[v], task[v])'
      <4>1. CASE v = w BY <2>1, <3>2, <3>3, <4>1, DueWorker
      <4>2. CASE v # w
        <5>1. pc'[v] = pc[v] /\ task'[v] = task[v] BY <2>1, <4>2, OtherWorkers DEF TypeOK
        <5>2. PICK f \in Files, r \in 0 .. MaxRetries : task[v].file = f /\ task[v].retries = r
          BY <3>3, <5>1, Holding DEF TypeOK
        <5>3. Owed(pc[v], task[v]) BY <3>2, <3>3, <5>1 DEF CareInv
        <5>4. r \in Nat /\ r + 1 \in Nat BY RetriesAssumption
        <5>5. Due(f, r)' /\ (Due(f, r + 1) => Due(f, r + 1)')
          BY <2>1, <5>2, <5>3, <5>4, DueKept DEF Owed
        <5>6. /\ faults["transient"] \in Nat /\ faults'["transient"] \in Nat
              /\ faults'["transient"] <= faults["transient"] /\ MaxFaults["transient"] \in Nat
          BY <2>1, Strikes, FaultsAssumption DEF TypeOK, CounterTypes, FaultKinds
        <5>7. r + faults["transient"] <= MaxFaults["transient"]
              => r + faults'["transient"] <= MaxFaults["transient"]
          BY <5>4, <5>6
        <5> QED BY <5>1, <5>2, <5>3, <5>5, <5>7 DEF Owed, Due, Extra
      <4> QED BY <4>1, <4>2
    <3> QED BY <2>1, <3>2, <3>3, MessagesDue, CareKept DEF CareInv
  <2>2. CASE UNCHANGED vars
    BY <2>2
    DEF vars, Handled, Struck, CareInv, Owed, Due, Extra, InCare, Undecided, NoMessage, At
  <2> QED BY <2>1, <2>2 DEF Next
<1> QED BY <1>1, <1>2, TypeCorrect, BudgetsKept, PTL DEF Spec

\* A file that nobody is busy with has its verdict, as long as none has struck.
LEMMA DecidedWhenDrained ==
  ASSUME TypeOK, Handled => CareInv, Handled, NEW f \in Files, ~Busy(f)
  PROVE  slot[f].status \in Final
<1>1. NoMessage(f) BY NotBusy
<1>2. ~Undecided(f) BY <1>1 DEF CareInv, InCare, At, Deciding, Busy
<1> QED BY <1>2 DEF Undecided, Final, TypeOK, StoreTypes, Status

\* With crashes, restored messages and handled soft limits as often as they like: a file
\* that nobody will touch any more has its verdict, if Redis answers, no hard limit strikes
\* and the soft limit strikes only where the task handles or swallows it.
THEOREM CrashesDropNoFile ==
  ASSUME RetriesCover, \A k \in {"redis", "hardlimit", "escape"} : MaxFaults[k] = 0
  PROVE  Spec => []DrainedMeansFinal
<1>1. TypeOK /\ (Handled => CareInv) => DrainedMeansFinal
  <2> SUFFICES ASSUME TypeOK, Handled => CareInv, NEW f \in Files, ~Busy(f)
               PROVE  slot[f].status \in Final
    BY DEF DrainedMeansFinal
  <2>1. Handled BY DEF Handled, Struck, TypeOK, CounterTypes, FaultKinds
  <2> QED BY <2>1, DecidedWhenDrained
<1> QED BY <1>1, Care, TypeCorrect, PTL

=============================================================================
