------------------------- MODULE DirectUploadProofs -------------------------
(***************************************************************************)
(* Proofs about DirectUpload, for any number of requests of each kind, any *)
(* number of uploads and any fault budget.                                 *)
(***************************************************************************)
EXTENDS DirectUpload, TLAPS

-----------------------------------------------------------------------------
(* Type correctness, in two parts *)

ReqTypes == req \in [Requests -> Request]

StateTypes ==
  /\ record \in Records \cup {None}
  /\ slot \in Status
  /\ parts \subseteq created
  /\ open \subseteq created
  /\ created \subseteq Uploads
  /\ index \subseteq created
  /\ object \in created \cup {Api, None}
  /\ queue \in Nat
  /\ dispatched \in [Uploads -> Nat]
  /\ working \in Nat
  /\ live \in BOOLEAN
  /\ faults \in [FaultKinds -> Nat]

\* An initiate that has created its upload carries it.
Planned ==
  \A r \in Requests :
    req[r].pc \in {"index", "sign", "unsign", "record"} => req[r].upload \in created

\* A step of a request that moves on ...
LEMMA Moved ==
  ASSUME ReqTypes, NEW r \in Requests, NEW label \in PC, Goto(r, label)
  PROVE  ReqTypes'
BY DEF ReqTypes, Goto, Request

\* ... and one that also sets what the request carries.
LEMMA Entered ==
  ASSUME ReqTypes, NEW r \in Requests, NEW op \in Operations, NEW label \in PC,
         NEW then \in {"done", "clear"}, NEW u \in Uploads \cup {None},
         Enter(r, op, u, label, then)
  PROVE  ReqTypes'
BY DEF ReqTypes, Enter, Request

\* A fault spends its budget.
LEMMA Spent ==
  ASSUME faults \in [FaultKinds -> Nat], NEW k \in FaultKinds, Fault(k)
  PROVE  faults' \in [FaultKinds -> Nat]
BY DEF Fault

\* So does a client that does not wait.
LEMMA Arrived ==
  ASSUME faults \in [FaultKinds -> Nat], NEW r, NEW op, Arrive(r, op)
  PROVE  faults' \in [FaultKinds -> Nat] /\ live
BY DEF Arrive, Impatient, NoFault

\* The store's operations keep to their types.
LEMMA SlotSet ==
  ASSUME slot \in Status, NEW s \in Status, SetSlot(s)
  PROVE  slot' \in Status
BY DEF SetSlot

\* Every step of a request leaves it in a place of its handler.
LEMMA ReqTypesStep ==
  ASSUME TypeOK, NEW r \in Requests, Call(r) \/ Handle(r) \/ Die(r)
  PROVE  ReqTypes'
<1> USE DEF Operations, PC
<1>0. ReqTypes /\ req[r] \in Request /\ created \subseteq Uploads
  BY DEF TypeOK, ReqTypes
<1>1. CASE DropParts(r) BY <1>1, <1>0, Moved DEF DropParts
<1>2. CASE DropObject(r) BY <1>2, <1>0, Moved DEF DropObject, Request
<1>3. CASE ClearDropped(r) BY <1>3, <1>0, Moved DEF ClearDropped
<1>4. CASE CreateMultipart(r) BY <1>4, <1>0, Entered, Moved DEF CreateMultipart
<1>5. CASE IndexOpen(r) BY <1>5, <1>0, Moved DEF IndexOpen
<1>6. CASE Presign(r) BY <1>6, <1>0, Moved DEF Presign
<1>7. CASE Unsign(r) BY <1>7, <1>0, Moved DEF Unsign
<1>8. CASE SetRecord(r) BY <1>8, <1>0, Moved DEF SetRecord
<1>9. CASE MarkUploading(r) BY <1>9, <1>0, Moved DEF MarkUploading
<1>10. CASE Cancelled(r) BY <1>10, <1>0, Moved DEF Cancelled
<1>11. CASE Claim(r) BY <1>11, <1>0, Moved DEF Claim
<1>12. CASE Backend(r) BY <1>12, <1>0, Moved DEF Backend
<1>13. CASE ListParts(r) BY <1>13, <1>0, Moved DEF ListParts
<1>14. CASE Assemble(r) BY <1>14, <1>0, Moved DEF Assemble
<1>15. CASE Stat(r) BY <1>15, <1>0, Moved DEF Stat
<1>16. CASE CloseCompleted(r) BY <1>16, <1>0, Moved DEF CloseCompleted
<1>17. CASE Verify(r) BY <1>17, <1>0, Moved DEF Verify
<1>18. CASE DiscardMismatch(r) BY <1>18, <1>0, Moved DEF DiscardMismatch
<1>19. CASE Release(r) BY <1>19, <1>0, Moved DEF Release
<1>20. CASE Forget(r) BY <1>20, <1>0, Moved DEF Forget
<1>21. CASE Failed(r) BY <1>21, <1>0, Moved DEF Failed
<1>22. CASE HandOff(r) BY <1>22, <1>0, Moved DEF HandOff
<1>23. CASE MarkPending(r) BY <1>23, <1>0, Moved DEF MarkPending
<1>24. CASE Dispatch(r) BY <1>24, <1>0, Moved DEF Dispatch
<1>25. CASE UndoStore(r) BY <1>25, <1>0, Moved DEF UndoStore
<1>26. CASE Unqueued(r) BY <1>26, <1>0, Moved DEF Unqueued
<1>27. CASE StoreUpload(r) BY <1>27, <1>0, Moved DEF StoreUpload
<1>28. CASE StoreFailed(r) BY <1>28, <1>0, Moved DEF StoreFailed
<1>29. CASE Initiate(r)
  <2>1. record # None => record.upload \in Uploads BY DEF TypeOK, Records
  <2> QED BY <1>29, <1>0, <2>1, Entered DEF Initiate, RecordIs
<1>30. CASE Abort(r)
  <2>1. record # None => record.upload \in Uploads BY DEF TypeOK, Records
  <2> QED BY <1>30, <1>0, <2>1, Entered DEF Abort, RecordIs
<1>31. CASE Complete(r)
  <2>1. record # None => record.upload \in Uploads BY DEF TypeOK, Records
  <2> QED BY <1>31, <1>0, <2>1, Entered DEF Complete, RecordIs
<1>32. CASE BatchUpload(r) BY <1>32, <1>0, Entered, Moved DEF BatchUpload
<1>33. CASE Die(r) BY <1>33, <1>0, Moved DEF Die
<1> QED
  BY <1>1, <1>2, <1>3, <1>4, <1>5, <1>6, <1>7, <1>8, <1>9, <1>10, <1>11, <1>12, <1>13, <1>14, <1>15, <1>16, <1>17, <1>18, <1>19, <1>20, <1>21, <1>22, <1>23, <1>24, <1>25, <1>26, <1>27, <1>28, <1>29, <1>30, <1>31, <1>32, <1>33
  DEF Call, Handle

\* Every step of a request leaves stores and queues well typed.
LEMMA StateTypesStep ==
  ASSUME TypeOK, Planned, NEW r \in Requests, Call(r) \/ Handle(r) \/ Die(r)
  PROVE  StateTypes'
<1> USE DEF Status, FaultKinds, NoFault, CloseIndex, DiscardObject, storageVars, taskVars
<1>0. StateTypes /\ req[r] \in Request BY DEF TypeOK, StateTypes
<1>1. CASE DropParts(r) BY <1>1, <1>0, Spent, SlotSet DEF DropParts, StateTypes
<1>2. CASE DropObject(r) BY <1>2, <1>0, Spent, SlotSet DEF DropObject, StateTypes
<1>3. CASE ClearDropped(r) BY <1>3, <1>0, Spent, SlotSet DEF ClearDropped, StateTypes, Transition, RecordIs, Records, Request
<1>4. CASE CreateMultipart(r) BY <1>4, <1>0, Spent, SlotSet DEF CreateMultipart, StateTypes
<1>5. CASE IndexOpen(r) BY <1>5, <1>0, Spent, SlotSet DEF IndexOpen, StateTypes, Planned, At
<1>6. CASE Presign(r) BY <1>6, <1>0, Spent, SlotSet DEF Presign, StateTypes
<1>7. CASE Unsign(r) BY <1>7, <1>0, Spent, SlotSet DEF Unsign, StateTypes
<1>8. CASE SetRecord(r) BY <1>8, <1>0, Spent, SlotSet DEF SetRecord, StateTypes, Planned, At, Transition, RecordIs, Records, Request
<1>9. CASE MarkUploading(r) BY <1>9, <1>0, Spent, SlotSet DEF MarkUploading, StateTypes
<1>10. CASE Cancelled(r) BY <1>10, <1>0, Spent, SlotSet DEF Cancelled, StateTypes
<1>11. CASE Claim(r) BY <1>11, <1>0, Spent, SlotSet DEF Claim, StateTypes, Transition, RecordIs, Records, Request
<1>12. CASE Backend(r) BY <1>12, <1>0, Spent, SlotSet DEF Backend, StateTypes
<1>13. CASE ListParts(r) BY <1>13, <1>0, Spent, SlotSet DEF ListParts, StateTypes
<1>14. CASE Assemble(r) BY <1>14, <1>0, Spent, SlotSet DEF Assemble, StateTypes, Request
<1>15. CASE Stat(r) BY <1>15, <1>0, Spent, SlotSet DEF Stat, StateTypes
<1>16. CASE CloseCompleted(r) BY <1>16, <1>0, Spent, SlotSet DEF CloseCompleted, StateTypes
<1>17. CASE Verify(r) BY <1>17, <1>0, Spent, SlotSet DEF Verify, StateTypes
<1>18. CASE DiscardMismatch(r) BY <1>18, <1>0, Spent, SlotSet DEF DiscardMismatch, StateTypes
<1>19. CASE Release(r) BY <1>19, <1>0, Spent, SlotSet DEF Release, StateTypes, Transition, RecordIs, Records, Request
<1>20. CASE Forget(r) BY <1>20, <1>0, Spent, SlotSet DEF Forget, StateTypes, Transition, RecordIs, Records, Request
<1>21. CASE Failed(r) BY <1>21, <1>0, Spent, SlotSet DEF Failed, StateTypes
<1>22. CASE HandOff(r) BY <1>22, <1>0, Spent, SlotSet DEF HandOff, StateTypes, Transition, RecordIs, Records, Request
<1>23. CASE MarkPending(r) BY <1>23, <1>0, Spent, SlotSet DEF MarkPending, StateTypes
<1>24. CASE Dispatch(r) BY <1>24, <1>0, Spent, SlotSet DEF Dispatch, StateTypes, Request
<1>25. CASE UndoStore(r) BY <1>25, <1>0, Spent, SlotSet DEF UndoStore, StateTypes
<1>26. CASE Unqueued(r) BY <1>26, <1>0, Spent, SlotSet DEF Unqueued, StateTypes
<1>27. CASE StoreUpload(r) BY <1>27, <1>0, Spent, SlotSet DEF StoreUpload, StateTypes
<1>28. CASE StoreFailed(r) BY <1>28, <1>0, Spent, SlotSet DEF StoreFailed, StateTypes
<1>29. CASE Initiate(r) BY <1>29, <1>0, Arrived DEF Initiate, StateTypes
<1>30. CASE Abort(r) BY <1>30, <1>0, Arrived DEF Abort, StateTypes
<1>31. CASE Complete(r) BY <1>31, <1>0, Arrived DEF Complete, StateTypes
<1>32. CASE BatchUpload(r) BY <1>32, <1>0, Arrived, SlotSet DEF BatchUpload, StateTypes
<1>33. CASE Die(r) BY <1>33, <1>0, Spent, SlotSet DEF Die, StateTypes
<1> QED
  BY <1>1, <1>2, <1>3, <1>4, <1>5, <1>6, <1>7, <1>8, <1>9, <1>10, <1>11, <1>12, <1>13, <1>14, <1>15, <1>16, <1>17, <1>18, <1>19, <1>20, <1>21, <1>22, <1>23, <1>24, <1>25, <1>26, <1>27, <1>28, <1>29, <1>30, <1>31, <1>32, <1>33
  DEF Call, Handle

\* Every step of a request keeps Planned.
LEMMA PlannedStep ==
  ASSUME TypeOK, Planned, NEW r \in Requests, Call(r) \/ Handle(r) \/ Die(r)
  PROVE  Planned'
<1> USE DEF Planned, At, Goto, Enter, Arrive, storageVars
<1>0. req \in [Requests -> Request] BY DEF TypeOK
<1>1. CASE CreateMultipart(r) BY <1>1, <1>0 DEF CreateMultipart, Request
<1>2. CASE IndexOpen(r) \/ Presign(r)
  BY <1>2, <1>0 DEF IndexOpen, Presign, Request
<1>3. CASE DropObject(r)
  <2>1. req[r].then \in {"done", "clear"} BY <1>0 DEF Request
  <2> QED BY <1>3, <1>0, <2>1 DEF DropObject, Request
<1>4. CASE DropParts(r) \/ ClearDropped(r) \/ Unsign(r) \/ SetRecord(r) \/ MarkUploading(r) \/ Cancelled(r)
  BY <1>4, <1>0
  DEF DropParts, ClearDropped, Unsign, SetRecord, MarkUploading, Cancelled, Request
<1>5. CASE Claim(r) \/ Backend(r) \/ ListParts(r) \/ Assemble(r) \/ Stat(r) \/ CloseCompleted(r) \/ Verify(r)
  BY <1>5, <1>0
  DEF Claim, Backend, ListParts, Assemble, Stat, CloseCompleted, Verify, Request
<1>6. CASE DiscardMismatch(r) \/ Release(r) \/ Forget(r) \/ Failed(r) \/ HandOff(r) \/ MarkPending(r)
  BY <1>6, <1>0
  DEF DiscardMismatch, Release, Forget, Failed, HandOff, MarkPending, Request
<1>7. CASE Dispatch(r) \/ UndoStore(r) \/ Unqueued(r) \/ StoreUpload(r) \/ StoreFailed(r)
  BY <1>7, <1>0
  DEF Dispatch, UndoStore, Unqueued, StoreUpload, StoreFailed, Request
<1>8. CASE Initiate(r) \/ Abort(r) \/ Complete(r) \/ BatchUpload(r) \/ Die(r)
  BY <1>8, <1>0
  DEF Initiate, Abort, Complete, BatchUpload, Die, Request
<1> QED
  BY <1>1, <1>2, <1>3, <1>4, <1>5, <1>6, <1>7, <1>8
  DEF Call, Handle

\* Requests, browsers, workers and the cleanup, in any order and through any
\* faults, leave every variable with its type.
LEMMA Typed == Spec => [](TypeOK /\ Planned)
<1>1. Init => TypeOK /\ Planned
  BY FaultsAssumption, NoneAssumption DEF Init, TypeOK, Planned, Request, PC, Operations, Records, Status
<1>2. TypeOK /\ Planned /\ [Next]_vars => TypeOK' /\ Planned'
  <2> SUFFICES ASSUME TypeOK, Planned, [Next]_vars PROVE TypeOK' /\ Planned'
    OBVIOUS
  <2>1. ASSUME NEW r \in Requests, Call(r) \/ Handle(r) \/ Die(r) PROVE TypeOK' /\ Planned'
    BY <2>1, ReqTypesStep, StateTypesStep, PlannedStep DEF TypeOK, ReqTypes, StateTypes
  <2>2. ASSUME NEW u \in Uploads, PutParts(u) PROVE TypeOK' /\ Planned'
    BY <2>2 DEF PutParts, TypeOK, Planned, taskVars
  <2>3. CASE WorkerStarts
    BY <2>3, SlotSet DEF WorkerStarts, TypeOK, Planned, Status, storageVars
  <2>4. CASE WorkerEnds BY <2>4, SlotSet DEF WorkerEnds, TypeOK, Planned, Status
  <2>5. CASE Expire BY <2>5 DEF Expire, TypeOK, Planned, storageVars, taskVars
  <2>6. CASE RecordExpires
    BY <2>6 DEF RecordExpires, TypeOK, Planned, storageVars, taskVars
  <2>7. ASSUME NEW u \in Uploads, Reclaim(u) PROVE TypeOK' /\ Planned'
    BY <2>7, Spent
    DEF Reclaim, TypeOK, Planned, taskVars, CloseIndex, NoFault, FaultKinds
  <2>8. CASE SweepObject BY <2>8 DEF SweepObject, TypeOK, Planned, taskVars
  <2>9. CASE UNCHANGED vars
    BY <2>9 DEF vars, TypeOK, Planned
  <2> QED
    BY <2>1, <2>2, <2>3, <2>4, <2>5, <2>6, <2>7, <2>8, <2>9 DEF Next, Clean
<1> QED BY <1>1, <1>2, PTL DEF Spec

\* TypeOK is invariant.
THEOREM TypeCorrect == Spec => []TypeOK
BY Typed, PTL

-----------------------------------------------------------------------------
(* The faults that have struck *)

\* A step spends faults of one kind at most, or lets a client be impatient.
LEMMA FaultsStep ==
  ASSUME [Next]_vars
  PROVE  UNCHANGED faults \/ Impatient \/ \E j \in FaultKinds : Fault(j)
<1> USE DEF FaultKinds, NoFault, CloseIndex, DiscardObject, Arrive
<1>1. ASSUME NEW r \in Requests, Call(r)
      PROVE  UNCHANGED faults \/ Impatient
  BY <1>1 DEF Call, Initiate, Abort, Complete, BatchUpload
<1>2. ASSUME NEW r \in Requests, Handle(r)
      PROVE  UNCHANGED faults \/ \E j \in FaultKinds : Fault(j)
  BY <1>2
  DEF Handle, DropParts, DropObject, ClearDropped, CreateMultipart, IndexOpen,
      Presign, Unsign, SetRecord, MarkUploading, Cancelled, Claim, Backend,
      ListParts, Assemble, Stat, CloseCompleted, Verify, DiscardMismatch,
      Release, Forget, Failed, HandOff, MarkPending, Dispatch, UndoStore,
      Unqueued, StoreUpload, StoreFailed
<1>3. ASSUME NEW r \in Requests, Die(r) PROVE \E j \in FaultKinds : Fault(j)
  BY <1>3 DEF Die
<1>4. ASSUME NEW u \in Uploads, PutParts(u) \/ Reclaim(u)
      PROVE  UNCHANGED faults \/ \E j \in FaultKinds : Fault(j)
  BY <1>4 DEF PutParts, Reclaim
<1>5. CASE WorkerStarts \/ WorkerEnds \/ Expire \/ RecordExpires \/ SweepObject
  BY <1>5 DEF WorkerStarts, WorkerEnds, Expire, RecordExpires, SweepObject
<1>6. CASE UNCHANGED vars BY <1>6 DEF vars
<1> QED BY <1>1, <1>2, <1>3, <1>4, <1>5, <1>6 DEF Next, Clean

\* No kind of fault strikes more often than it may.
WithinBudget == \A k \in FaultKinds : faults[k] <= MaxFaults[k]

LEMMA BudgetsKept == Spec => []WithinBudget
<1>1. Init => WithinBudget
  BY FaultsAssumption DEF Init, WithinBudget
<1>2. TypeOK /\ WithinBudget /\ [Next]_vars => WithinBudget'
  <2> SUFFICES ASSUME TypeOK, WithinBudget, [Next]_vars PROVE WithinBudget'
    OBVIOUS
  <2>1. /\ faults \in [FaultKinds -> Nat] /\ MaxFaults \in [FaultKinds -> Nat]
        /\ UNCHANGED faults \/ Impatient \/ \E k \in FaultKinds : Fault(k)
    BY FaultsAssumption, FaultsStep DEF TypeOK
  <2> QED BY <2>1 DEF WithinBudget, Impatient, Fault
<1> QED BY <1>1, <1>2, Typed, PTL DEF Spec

-----------------------------------------------------------------------------
(* No upload is queued twice *)

\* Lost answers are only ever added to.
Losing == Lost \in Nat /\ Lost' \in Nat /\ Lost <= Lost'

LEMMA LossesCount ==
  ASSUME TypeOK, WithinBudget, [Next]_vars
  PROVE  Losing
<1>1. /\ faults \in [FaultKinds -> Nat] /\ MaxFaults \in [FaultKinds -> Nat]
      /\ UNCHANGED faults \/ Impatient \/ \E k \in FaultKinds : Fault(k)
  BY FaultsAssumption, FaultsStep DEF TypeOK
<1>2. "confirm" \in FaultKinds BY DEF FaultKinds
<1>3. faults["confirm"] <= MaxFaults["confirm"] BY <1>2 DEF WithinBudget
<1>4. faults'["confirm"] \in Nat /\ faults'["confirm"] <= faults["confirm"]
  BY <1>1, <1>2 DEF Impatient, Fault
<1> QED BY <1>1, <1>2, <1>3, <1>4 DEF Losing, Lost

\* An answer is lost.
LEMMA LossCounts ==
  ASSUME TypeOK, Fault("confirm")
  PROVE  Lost' = Lost + 1
<1>1. /\ faults \in [FaultKinds -> Nat] /\ MaxFaults \in [FaultKinds -> Nat]
      /\ "confirm" \in FaultKinds
  BY FaultsAssumption DEF TypeOK, FaultKinds
<1> QED BY <1>1 DEF Lost, Fault

\* From the moment the multipart upload is assembled until its message is sent,
\* the request that assembled it is the only one to carry it.
Carries(r) ==
  /\ req[r].pc \in {"stat", "close", "verify", "handoff", "pending", "dispatch"}
  /\ req[r].upload # None

OnceInv ==
  /\ \A r \in Requests : At(r, "store") => req[r].upload = None
  /\ \A r \in Requests :
       Carries(r) => /\ req[r].upload \in created \ open
                     /\ dispatched[req[r].upload] <= Lost
  /\ \A r, q \in Requests :
       Carries(r) /\ Carries(q) /\ r # q => req[r].upload # req[q].upload
  /\ \A u \in Uploads : dispatched[u] # 0 => dispatched[u] <= 1 + Lost /\ u \in created \ open

\* A step after which the request carries no upload, and which sends nothing
\* and reopens nothing, keeps OnceInv; so does a step along the tail.
LEMMA OnceKept ==
  ASSUME TypeOK, OnceInv, Losing, NEW r \in Requests,
         req' \in [Requests -> Request],
         \A q \in Requests \ {r} : req'[q] = req[q],
         Carries(r)' => Carries(r) /\ req'[r].upload = req[r].upload,
         At(r, "store")' => req'[r].upload = None,
         open' \subseteq open, created \subseteq created', UNCHANGED dispatched
  PROVE  OnceInv'
BY DEF OnceInv, Carries, At, TypeOK, Losing

\* Only Assemble takes up the tail to Dispatch, with an upload it consumes.
LEMMA OnceStep ==
  ASSUME TypeOK, OnceInv, Losing, NEW r \in Requests, Call(r) \/ Handle(r) \/ Die(r),
         ReqTypes'
  PROVE  OnceInv'
<1> USE DEF At, Goto, Enter, Arrive, storageVars, taskVars, ReqTypes
<1>0. /\ req \in [Requests -> Request]
      /\ req' \in [Requests -> Request]
      /\ created \subseteq Uploads /\ open \subseteq created
      /\ dispatched \in [Uploads -> Nat]
  BY DEF TypeOK
<1>1. CASE Assemble(r)
  <2>1. CASE req'[r].pc = "stat"
    <3>1. /\ req[r].upload \in open
          /\ open' = open \ {req[r].upload}
          /\ req' = [req EXCEPT ![r].pc = "stat"]
          /\ UNCHANGED <<created, dispatched>>
      BY <1>1, <2>1, <1>0 DEF Assemble, Request
    <3>2. dispatched[req[r].upload] = 0 BY <3>1, <1>0 DEF OnceInv
    <3>3. \A q \in Requests \ {r} : Carries(q) => req[q].upload # req[r].upload
      BY <3>1 DEF OnceInv
    <3> QED BY <3>1, <3>2, <3>3, <1>0 DEF OnceInv, Carries, Request, Losing
  <2>2. CASE req'[r].pc # "stat"
    BY <1>1, <2>2, <1>0, OnceKept DEF Assemble, Carries, Request
  <2> QED BY <2>1, <2>2
<1>2. CASE Dispatch(r)
  <2>1. CASE UNCHANGED dispatched
    BY <1>2, <2>1, <1>0, OnceKept DEF Dispatch, Carries, Request
  <2>2. CASE dispatched' # dispatched
    <3> DEFINE u == req[r].upload
    <3>1. /\ u # None
          /\ dispatched' = [dispatched EXCEPT ![u] = @ + 1]
          /\ UNCHANGED <<open, created>>
      BY <1>2, <2>2 DEF Dispatch
    <3>2. Carries(r) BY <1>2, <3>1 DEF Dispatch, Carries
    <3>3. u \in created \ open /\ dispatched[u] <= Lost BY <3>2 DEF OnceInv
    <3>4. \A q \in Requests \ {r} : Carries(q) => req[q].upload # u
      BY <3>2 DEF OnceInv
    <3>5. \A q \in Requests \ {r} : req'[q] = req[q]
      BY <1>2, <1>0 DEF Dispatch
    <3>6. req'[r].upload = u /\ ~At(r, "store")' BY <1>2, <1>0 DEF Dispatch, Request
    <3>7. dispatched'[u] <= 1 + Lost' BY <1>0, <3>1, <3>3 DEF Losing
    <3>8. Carries(r)' => dispatched'[u] <= Lost'
      <4>1. CASE req'[r].pc = "done" BY <4>1 DEF Carries
      <4>2. CASE Fault("confirm")
        BY <1>0, <3>1, <3>3, <4>2, LossCounts DEF Losing
      <4> QED BY <1>2, <1>0, <2>2, <4>1, <4>2 DEF Dispatch, Request
    <3> HIDE DEF u
    <3>9. \A v \in Uploads \ {u} : dispatched'[v] = dispatched[v] BY <1>0, <3>1
    <3>10. \A v \in Uploads : dispatched'[v] # 0
             => dispatched'[v] <= 1 + Lost' /\ v \in created' \ open'
      <4>1. ASSUME NEW v \in Uploads \ {u}, dispatched[v] # 0
            PROVE  dispatched[v] <= 1 + Lost' /\ v \in created \ open
        BY <1>0, <4>1 DEF OnceInv, Losing
      <4> QED BY <3>1, <3>3, <3>7, <3>9, <4>1
    <3>11. \A q \in Requests \ {r} : Carries(q)'
             => /\ Carries(q) /\ req'[q].upload = req[q].upload /\ req[q].upload # u
                /\ req[q].upload \in created' \ open'
                /\ dispatched'[req[q].upload] <= Lost'
      <4> SUFFICES ASSUME NEW q \in Requests \ {r}, Carries(q)'
                   PROVE  /\ Carries(q) /\ req'[q].upload = req[q].upload /\ req[q].upload # u
                          /\ req[q].upload \in created' \ open'
                          /\ dispatched'[req[q].upload] <= Lost'
        OBVIOUS
      <4>1. Carries(q) /\ req'[q].upload = req[q].upload BY <3>5 DEF Carries
      <4>2. req[q].upload # u BY <3>4, <4>1
      <4>3. req[q].upload \in created \ open /\ dispatched[req[q].upload] <= Lost
        BY <4>1 DEF OnceInv
      <4>4. req[q].upload \in Uploads BY <1>0, <4>3
      <4>5. dispatched'[req[q].upload] <= Lost'
        BY <1>0, <3>9, <4>2, <4>3, <4>4 DEF Losing
      <4> QED BY <3>1, <4>1, <4>2, <4>3, <4>5
    <3>12. \A q \in Requests : At(q, "store")' => req'[q].upload = None
      BY <3>5, <3>6 DEF OnceInv
    <3>13. \A q \in Requests :
             Carries(q)' => /\ req'[q].upload \in created' \ open'
                            /\ dispatched'[req'[q].upload] <= Lost'
      BY <3>1, <3>3, <3>6, <3>8, <3>11
    <3>14. \A p, q \in Requests :
             Carries(p)' /\ Carries(q)' /\ p # q => req'[p].upload # req'[q].upload
      BY <3>6, <3>11 DEF OnceInv
    <3> QED BY <3>10, <3>12, <3>13, <3>14 DEF OnceInv
  <2> QED BY <2>1, <2>2
<1>3. CASE CreateMultipart(r)
  <2>1. CASE created' = created /\ open' = open
    BY <1>3, <2>1, <1>0, OnceKept DEF CreateMultipart, Carries, Request
  <2>2. CASE ~(created' = created /\ open' = open)
    <3>1. PICK u \in Uploads \ created :
            /\ created' = created \cup {u}
            /\ open' = open \cup {u}
            /\ Enter(r, "initiate", u, "index", "done")
      BY <1>3, <2>2 DEF CreateMultipart
    <3>2. UNCHANGED dispatched BY <1>3 DEF CreateMultipart
    <3>3. ~Carries(r)' /\ ~At(r, "store")' BY <3>1, <1>0 DEF Carries
    <3>4. \A q \in Requests \ {r} : req'[q] = req[q] BY <3>1, <1>0
    <3> QED BY <1>0, <3>1, <3>2, <3>3, <3>4 DEF OnceInv, Carries, Losing
  <2> QED BY <2>1, <2>2
<1>4. CASE StoreUpload(r)
  <2>1. req[r].upload = None BY <1>4 DEF StoreUpload, OnceInv
  <2> QED BY <1>4, <2>1, <1>0, OnceKept DEF StoreUpload, Carries, Request
<1>5. CASE DropObject(r)
  <2>1. req[r].then \in {"done", "clear"} BY <1>0 DEF Request
  <2> QED BY <1>5, <2>1, <1>0, OnceKept DEF DropObject, Carries, Request
<1>6. CASE DropParts(r) \/ ClearDropped(r) \/ Unsign(r) \/ SetRecord(r) \/ MarkUploading(r) \/ Cancelled(r)
  BY <1>6, <1>0, OnceKept
  DEF DropParts, ClearDropped, Unsign, SetRecord, MarkUploading, Cancelled, Carries, Request
<1>7. CASE Claim(r) \/ Backend(r) \/ ListParts(r) \/ IndexOpen(r) \/ Presign(r)
  BY <1>7, <1>0, OnceKept
  DEF Claim, Backend, ListParts, IndexOpen, Presign, Carries, Request
<1>8. CASE Stat(r) \/ CloseCompleted(r) \/ Verify(r) \/ HandOff(r) \/ MarkPending(r)
  BY <1>8, <1>0, OnceKept
  DEF Stat, CloseCompleted, Verify, HandOff, MarkPending, Carries, Request
<1>9. CASE DiscardMismatch(r) \/ Release(r) \/ Forget(r) \/ Failed(r)
  BY <1>9, <1>0, OnceKept
  DEF DiscardMismatch, Release, Forget, Failed, Carries, Request
<1>10. CASE UndoStore(r) \/ Unqueued(r) \/ StoreFailed(r) \/ Die(r)
  BY <1>10, <1>0, OnceKept
  DEF UndoStore, Unqueued, StoreFailed, Die, Carries, Request
<1>11. CASE Initiate(r) \/ Abort(r) \/ Complete(r) \/ BatchUpload(r)
  BY <1>11, <1>0, OnceKept
  DEF Initiate, Abort, Complete, BatchUpload, Carries, Request
<1> QED
  BY <1>1, <1>2, <1>3, <1>4, <1>5, <1>6, <1>7, <1>8, <1>9, <1>10, <1>11
  DEF Call, Handle

\* OnceInv is invariant.
LEMMA Once == Spec => []OnceInv
<1>1. Init => OnceInv
  BY DEF Init, OnceInv, Carries, At
<1>2. OnceInv /\ TypeOK /\ Planned /\ WithinBudget /\ [Next]_vars => OnceInv'
  <2> SUFFICES ASSUME OnceInv, TypeOK, Planned, WithinBudget, [Next]_vars PROVE OnceInv'
    OBVIOUS
  <2>0. Losing BY LossesCount
  <2>1. ASSUME NEW r \in Requests, Call(r) \/ Handle(r) \/ Die(r) PROVE OnceInv'
    BY <2>0, <2>1, ReqTypesStep, OnceStep
  <2>2. ASSUME UNCHANGED <<req, created, dispatched>>, open' \subseteq open PROVE OnceInv'
    BY <2>0, <2>2 DEF OnceInv, Carries, At, Losing, TypeOK
  <2>3. ASSUME NEW u \in Uploads, PutParts(u) \/ Reclaim(u) PROVE OnceInv'
    BY <2>2, <2>3 DEF PutParts, Reclaim, taskVars
  <2>4. CASE WorkerStarts \/ WorkerEnds BY <2>2, <2>4 DEF WorkerStarts, WorkerEnds, storageVars
  <2>5. CASE Expire \/ RecordExpires \/ SweepObject
    BY <2>2, <2>5 DEF Expire, RecordExpires, SweepObject, taskVars, storageVars
  <2>6. CASE UNCHANGED vars BY <2>2, <2>6 DEF vars
  <2> QED
    BY <2>1, <2>3, <2>4, <2>5, <2>6 DEF Next, Clean
<1> QED BY <1>1, <1>2, Typed, BudgetsKept, PTL DEF Spec

\* Whatever requests race and whatever fails, a multipart upload is queued for the
\* workers once, and once more only for each answer the broker gave in vain.
THEOREM NeverQueuedTwice == Spec => []DispatchedOnce
<1>1. OnceInv /\ TypeOK /\ WithinBudget => DispatchedOnce
  <2> SUFFICES ASSUME OnceInv, TypeOK, WithinBudget, NEW u \in Uploads
               PROVE  dispatched[u] <= 1 + Lost
    BY DEF DispatchedOnce
  <2>1. Lost \in Nat
    BY FaultsAssumption DEF Lost, TypeOK, WithinBudget, FaultKinds
  <2> QED BY <2>1 DEF OnceInv
<1> QED BY <1>1, Once, Typed, BudgetsKept, PTL

-----------------------------------------------------------------------------
(* A completion under way, as long as no handler dies *)

HeldInv ==
  /\ faults["die"] = 0 /\ faults["disabled"] = 0
  /\ CompletingIsHeld

\* Which faults are left to strike is no business of a step without them.
LEMMA NotBack ==
  ASSUME faults \in [FaultKinds -> Nat], NEW k \in FaultKinds, faults[k] = 0,
         UNCHANGED faults \/ \E j \in FaultKinds : Fault(j)
  PROVE  faults'[k] = 0
BY DEF Fault

\* A step that leaves the record alone and stays inside, or outside, the
\* section a completion holds keeps the record held.
LEMMA HeldKept ==
  ASSUME CompletingIsHeld, req \in [Requests -> Request], NEW r \in Requests,
         \A q \in Requests \ {r} : req'[q] = req[q],
         Holding(r) => Holding(r)', UNCHANGED record
  PROVE  CompletingIsHeld'
BY DEF CompletingIsHeld, Holding, RecordIs

\* A step that leaves the section a completion holds takes the record out of
\* the state completing.
LEMMA HeldStep ==
  ASSUME TypeOK, HeldInv, NEW r \in Requests, Call(r) \/ Handle(r)
  PROVE  CompletingIsHeld'
<1> USE DEF At, Goto, Enter, Arrive, HeldInv
<1>0. req \in [Requests -> Request] BY DEF TypeOK
<1>1. CASE Claim(r)
  BY <1>1, <1>0 DEF Claim, Transition, CompletingIsHeld, Holding, RecordIs, Request
<1>2. CASE Release(r)
  BY <1>2, <1>0, NoneAssumption
  DEF Release, Transition, CompletingIsHeld, RecordIs, TypeOK, Records
<1>3. CASE ClearDropped(r) \/ Forget(r) \/ HandOff(r)
  BY <1>3 DEF ClearDropped, Forget, HandOff, CompletingIsHeld, RecordIs
<1>4. CASE SetRecord(r)
  <2>1. CASE UNCHANGED record
    BY <1>4, <2>1, <1>0, HeldKept DEF SetRecord, Holding, Request
  <2>2. CASE record' = [upload |-> req[r].upload, state |-> "uploading"]
    BY <2>2 DEF CompletingIsHeld, RecordIs
  <2> QED BY <1>4, <2>1, <2>2 DEF SetRecord
<1>5. CASE Backend(r)
  BY <1>5, <1>0, HeldKept DEF Backend, Fault, Holding, Request
<1>6. CASE DropObject(r)
  <2>1. req[r].then \in {"done", "clear"} BY <1>0 DEF Request
  <2> QED BY <1>6, <2>1, <1>0, HeldKept DEF DropObject, Holding, Request
<1>7. CASE DropParts(r) \/ CreateMultipart(r) \/ IndexOpen(r) \/ Presign(r) \/ Unsign(r) \/ MarkUploading(r) \/ Cancelled(r)
  BY <1>7, <1>0, HeldKept
  DEF DropParts, CreateMultipart, IndexOpen, Presign, Unsign, MarkUploading, Cancelled, Holding, Request
<1>8. CASE ListParts(r) \/ Assemble(r) \/ Stat(r) \/ CloseCompleted(r) \/ Verify(r) \/ DiscardMismatch(r)
  BY <1>8, <1>0, HeldKept
  DEF ListParts, Assemble, Stat, CloseCompleted, Verify, DiscardMismatch, Holding, Request
<1>9. CASE Failed(r) \/ MarkPending(r) \/ Dispatch(r) \/ UndoStore(r) \/ Unqueued(r) \/ StoreUpload(r) \/ StoreFailed(r)
  BY <1>9, <1>0, HeldKept
  DEF Failed, MarkPending, Dispatch, UndoStore, Unqueued, StoreUpload, StoreFailed, Holding, Request
<1>10. CASE Initiate(r) \/ Abort(r) \/ Complete(r) \/ BatchUpload(r)
  BY <1>10, <1>0, HeldKept
  DEF Initiate, Abort, Complete, BatchUpload, Holding, Request
<1> QED
  BY <1>1, <1>2, <1>3, <1>4, <1>5, <1>6, <1>7, <1>8, <1>9, <1>10 DEF Call, Handle

\* Where no request is killed half way and the backend stays configured, a slot
\* in state "completing" always has a completion that will move it on, also
\* when aborts and further initiates race with it and storage fails.
THEOREM CompletionsEnd ==
  ASSUME MaxFaults["die"] = 0, MaxFaults["disabled"] = 0
  PROVE  Spec => []CompletingIsHeld
<1>1. Init => HeldInv
  BY DEF Init, HeldInv, CompletingIsHeld, RecordIs
<1>2. HeldInv /\ TypeOK /\ Planned /\ [Next]_vars => HeldInv'
  <2> SUFFICES ASSUME HeldInv, TypeOK, Planned, [Next]_vars PROVE HeldInv'
    OBVIOUS
  <2>0. faults \in [FaultKinds -> Nat] BY DEF TypeOK
  <2>1. UNCHANGED faults \/ Impatient \/ \E j \in FaultKinds : Fault(j)
    BY FaultsStep
  <2>2. faults'["die"] = 0 /\ faults'["disabled"] = 0
    BY <2>0, <2>1, NotBack DEF HeldInv, FaultKinds, Impatient
  <2>3. CompletingIsHeld'
    <3> USE DEF HeldInv, CompletingIsHeld, Holding, RecordIs, taskVars, storageVars
    <3>1. ASSUME NEW r \in Requests, Call(r) \/ Handle(r) PROVE CompletingIsHeld'
      BY <3>1, HeldStep
    <3>2. ASSUME NEW r \in Requests, Die(r) PROVE FALSE
      BY <3>2 DEF Die, Fault
    <3>3. ASSUME NEW u \in Uploads, PutParts(u) \/ Reclaim(u)
          PROVE  CompletingIsHeld'
      BY <3>3 DEF PutParts, Reclaim
    <3>4. CASE WorkerStarts \/ WorkerEnds \/ Expire \/ SweepObject
      BY <3>4 DEF WorkerStarts, WorkerEnds, Expire, SweepObject
    <3>5. CASE RecordExpires BY <3>5 DEF RecordExpires
    <3>6. CASE UNCHANGED vars BY <3>6 DEF vars
    <3> QED BY <3>1, <3>2, <3>3, <3>4, <3>5, <3>6 DEF Next, Clean
  <2> QED BY <2>2, <2>3 DEF HeldInv
<1>3. HeldInv => CompletingIsHeld BY DEF HeldInv
<1> QED BY <1>1, <1>2, <1>3, Typed, PTL DEF Spec

-----------------------------------------------------------------------------
(* What MinIO holds open, as long as Redis answers and no handler dies *)

NoLoss == faults["redis"] = 0 /\ faults["die"] = 0

\* A step that opens nothing, forgets no open upload and moves no request out
\* of "index" keeps OpenIsIndexed.
LEMMA IndexKept ==
  ASSUME OpenIsIndexed, req \in [Requests -> Request], NEW r \in Requests,
         \A q \in Requests \ {r} : req'[q] = req[q], ~At(r, "index"),
         open' \subseteq open, \A u \in open' : u \in index => u \in index'
  PROVE  OpenIsIndexed'
BY DEF OpenIsIndexed, At

\* An upload is in the index, or on its way there, before a client may know it,
\* and leaves the index after MinIO has closed it.
LEMMA IndexStep ==
  ASSUME TypeOK, OnceInv, NoLoss, OpenIsIndexed,
         NEW r \in Requests, Call(r) \/ Handle(r)
  PROVE  OpenIsIndexed'
<1> USE DEF At, Goto, Enter, Arrive, CloseIndex, storageVars
<1>0. /\ req \in [Requests -> Request]
      /\ open \subseteq Uploads /\ index \subseteq Uploads
  BY DEF TypeOK
<1>1. CASE CreateMultipart(r)
  <2>1. CASE UNCHANGED open
    BY <1>1, <2>1, <1>0, IndexKept DEF CreateMultipart
  <2>2. CASE ~ UNCHANGED open
    <3>1. PICK u \in Uploads : open' = open \cup {u} /\ Enter(r, "initiate", u, "index", "done")
      BY <1>1, <2>2 DEF CreateMultipart
    <3>2. UNCHANGED index /\ req[r].pc = "create" BY <1>1 DEF CreateMultipart
    <3>3. req'[r].pc = "index" /\ req'[r].upload = u BY <3>1, <1>0
    <3>4. \A q \in Requests \ {r} : req'[q] = req[q] BY <3>1, <1>0
    <3> QED BY <3>1, <3>2, <3>3, <3>4 DEF OpenIsIndexed
  <2> QED BY <2>1, <2>2
<1>2. CASE IndexOpen(r)
  <2>1. index' = index \cup {req[r].upload} /\ UNCHANGED open
    BY <1>2 DEF IndexOpen, Fault, NoLoss
  <2>2. \A q \in Requests \ {r} : req'[q] = req[q] BY <1>2, <1>0 DEF IndexOpen
  <2> QED BY <2>1, <2>2 DEF OpenIsIndexed
<1>3. CASE CloseCompleted(r)
  <2>1. req[r].upload \notin open
    <3>1. CASE req[r].upload = None BY <3>1, <1>0, NoneAssumption
    <3>2. CASE req[r].upload # None
      BY <1>3, <3>2 DEF CloseCompleted, OnceInv, Carries
    <3> QED BY <3>1, <3>2
  <2> QED BY <1>3, <2>1, <1>0, IndexKept DEF CloseCompleted
<1>4. CASE DropParts(r) \/ Unsign(r) \/ ListParts(r) \/ Assemble(r)
  BY <1>4, <1>0, IndexKept DEF DropParts, Unsign, ListParts, Assemble
<1>5. CASE DropObject(r) \/ ClearDropped(r) \/ Presign(r) \/ SetRecord(r) \/ MarkUploading(r) \/ Cancelled(r)
  BY <1>5, <1>0, IndexKept
  DEF DropObject, ClearDropped, Presign, SetRecord, MarkUploading, Cancelled
<1>6. CASE Claim(r) \/ Backend(r) \/ Stat(r) \/ Verify(r) \/ DiscardMismatch(r) \/ Release(r)
  BY <1>6, <1>0, IndexKept
  DEF Claim, Backend, Stat, Verify, DiscardMismatch, Release
<1>7. CASE Forget(r) \/ Failed(r) \/ HandOff(r) \/ MarkPending(r)
  BY <1>7, <1>0, IndexKept DEF Forget, Failed, HandOff, MarkPending
<1>8. CASE Dispatch(r) \/ UndoStore(r) \/ Unqueued(r) \/ StoreUpload(r) \/ StoreFailed(r)
  BY <1>8, <1>0, IndexKept
  DEF Dispatch, UndoStore, Unqueued, StoreUpload, StoreFailed
<1>9. CASE Initiate(r) \/ Abort(r) \/ Complete(r) \/ BatchUpload(r)
  BY <1>9, <1>0, IndexKept DEF Initiate, Abort, Complete, BatchUpload
<1> QED
  BY <1>1, <1>2, <1>3, <1>4, <1>5, <1>6, <1>7, <1>8, <1>9 DEF Call, Handle

\* As long as Redis answers and no handler dies, the cleanup knows every upload
\* MinIO holds open, whatever requests race and whatever fails in storage.
THEOREM OpenIsKnown ==
  ASSUME MaxFaults["redis"] = 0, MaxFaults["die"] = 0
  PROVE  Spec => []OpenIsIndexed
<1>1. Init => NoLoss /\ OpenIsIndexed
  BY DEF Init, NoLoss, OpenIsIndexed
<1>2. NoLoss /\ OpenIsIndexed /\ TypeOK /\ OnceInv /\ [Next]_vars
        => NoLoss' /\ OpenIsIndexed'
  <2> SUFFICES ASSUME NoLoss, OpenIsIndexed, TypeOK, OnceInv, [Next]_vars
               PROVE  NoLoss' /\ OpenIsIndexed'
    OBVIOUS
  <2>0. faults \in [FaultKinds -> Nat] BY DEF TypeOK
  <2>1. NoLoss'
    BY <2>0, FaultsStep, NotBack DEF NoLoss, FaultKinds, Impatient
  <2>2. OpenIsIndexed'
    <3> USE DEF OpenIsIndexed, At, storageVars
    <3>1. ASSUME NEW r \in Requests, Call(r) \/ Handle(r) PROVE OpenIsIndexed'
      BY <3>1, IndexStep
    <3>2. ASSUME NEW r \in Requests, Die(r) PROVE FALSE
      BY <3>2 DEF Die, Fault, NoLoss
    <3>3. ASSUME NEW u \in Uploads, PutParts(u) PROVE OpenIsIndexed'
      BY <3>3 DEF PutParts
    <3>4. ASSUME NEW u \in Uploads, Reclaim(u) PROVE OpenIsIndexed'
      BY <3>4 DEF Reclaim, CloseIndex
    <3>5. CASE WorkerStarts \/ WorkerEnds \/ Expire \/ RecordExpires \/ SweepObject
      BY <3>5 DEF WorkerStarts, WorkerEnds, Expire, RecordExpires, SweepObject
    <3>6. CASE UNCHANGED vars BY <3>6 DEF vars
    <3> QED BY <3>1, <3>2, <3>3, <3>4, <3>5, <3>6 DEF Next, Clean
  <2> QED BY <2>1, <2>2
<1> QED BY <1>1, <1>2, Typed, Once, PTL DEF Spec

=============================================================================
