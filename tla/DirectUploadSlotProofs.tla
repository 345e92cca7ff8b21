------------------------- MODULE DirectUploadSlotProofs -------------------------
(***************************************************************************)
(* Proofs about what the requests on one slot leave behind and keep from   *)
(* each other: the source object, the upload record, the right to complete *)
(* an upload, and the one message a completed upload leads to.             *)
(***************************************************************************)
EXTENDS DirectUploadProofs, FiniteSetTheorems

On(r, places) == req[r].pc \in places

\* A step of one request leaves the others where they are, and it goes somewhere.
LEMMA Elsewhere ==
  ASSUME TypeOK, NEW r \in Requests, Call(r) \/ Handle(r) \/ Die(r)
  PROVE  /\ req \in [Requests -> Request] /\ req' \in [Requests -> Request]
         /\ \A q \in Requests \ {r} : req'[q] = req[q]
<1>1. req \in [Requests -> Request] BY DEF TypeOK
<1>2. req' \in [Requests -> Request] BY ReqTypesStep DEF ReqTypes
<1>3. \A q \in Requests \ {r} : req'[q] = req[q]
  BY <1>1 DEF Goto, Enter, Call, Initiate, Abort, Complete, BatchUpload, Die, Handle, DropParts,
    DropObject, ClearDropped, CreateMultipart, IndexOpen, Presign, Unsign, SetRecord,
    MarkUploading, Cancelled, Claim, Backend, ListParts, Assemble, Stat, CloseCompleted, Verify,
    DiscardMismatch, Release, Forget, Failed, HandOff, MarkPending, Dispatch, UndoStore, Unqueued,
    StoreUpload, StoreFailed
<1> QED BY <1>1, <1>2, <1>3

\* A kind of fault without a budget never strikes.
NoneLeft(kinds) == \A k \in kinds : faults[k] = 0

LEMMA NoneLeftKept ==
  ASSUME TypeOK, NEW kinds \in SUBSET FaultKinds, NoneLeft(kinds), [Next]_vars
  PROVE  NoneLeft(kinds)'
<1>1. faults \in [FaultKinds -> Nat] BY DEF TypeOK
<1>2. CASE Impatient BY <1>1, <1>2 DEF NoneLeft, Impatient
<1>3. CASE ~Impatient BY <1>1, <1>3, FaultsStep, NotBack DEF NoneLeft
<1> QED BY <1>2, <1>3

-----------------------------------------------------------------------------
(* Nothing is left behind *)

\* From its assembly to its message the object is in the hands of a request.
Tail == {"stat", "close", "verify", "mismatch", "handoff", "pending", "dispatch", "undo"}

OwnedInv ==
  object # None => queue + working > 0 \/ \E r \in Requests : On(r, Tail)

\* A request that does not let go of the object, while it or the messages stay.
LEMMA OwnedKept ==
  ASSUME OwnedInv, NEW r \in Requests,
         \A q \in Requests \ {r} : req'[q] = req[q],
         object' \in {object, None}, queue' = queue, working' = working,
         On(r, Tail) => On(r, Tail)' \/ object' = None
  PROVE  OwnedInv'
BY DEF OwnedInv, On

\* Whoever lets go of the object has deleted it or sent its message.
LEMMA OwnedStep ==
  ASSUME TypeOK, NoneLeft({"die", "storage"}), OwnedInv, NEW r \in Requests, Call(r) \/ Handle(r)
  PROVE  OwnedInv'
<1>0. /\ req \in [Requests -> Request] /\ queue \in Nat /\ working \in Nat
      /\ \A q \in Requests \ {r} : req'[q] = req[q]
  BY Elsewhere DEF TypeOK
<1>1. ~Fault("storage") BY DEF NoneLeft, Fault
<1> USE DEF At, On, Goto, Enter, Request, storageVars, taskVars, Tail, DiscardObject
<1>2. CASE Assemble(r) \/ StoreUpload(r)
  <2>1. CASE UNCHANGED object
    <3>1. ~On(r, Tail) /\ UNCHANGED <<queue, working>> BY <1>2 DEF Assemble, StoreUpload
    <3> QED BY <2>1, <3>1, <1>0, OwnedKept
  <2>2. CASE ~UNCHANGED object
    <3>1. req'[r].pc \in Tail BY <1>0, <1>1, <1>2, <2>2 DEF Assemble, StoreUpload
    <3> QED BY <3>1 DEF OwnedInv
  <2> QED BY <2>1, <2>2
<1>3. CASE Dispatch(r)
  <2>1. CASE queue' = queue + 1
    <3>1. UNCHANGED working BY <1>3 DEF Dispatch
    <3> QED BY <2>1, <3>1, <1>0 DEF OwnedInv
  <2>2. CASE UNCHANGED queue
    <3>1. req'[r].pc = "undo" /\ UNCHANGED <<object, working>>
      BY <1>0, <1>3, <2>2 DEF Dispatch
    <3> QED BY <2>2, <3>1, <1>0, OwnedKept
  <2> QED BY <1>3, <2>1, <2>2 DEF Dispatch
<1>4. CASE DiscardMismatch(r) \/ UndoStore(r) \/ DropObject(r)
  BY <1>0, <1>1, <1>4, OwnedKept DEF DiscardMismatch, UndoStore, DropObject
<1>5. CASE Stat(r)
  BY <1>0, <1>1, <1>5, OwnedKept DEF Stat
<1>6. CASE CloseCompleted(r) \/ Verify(r) \/ HandOff(r) \/ MarkPending(r)
  BY <1>0, <1>6, OwnedKept DEF CloseCompleted, Verify, HandOff, MarkPending
<1>7. CASE DropParts(r) \/ ClearDropped(r) \/ CreateMultipart(r) \/ IndexOpen(r) \/ Presign(r)
           \/ Unsign(r) \/ SetRecord(r) \/ MarkUploading(r) \/ Cancelled(r) \/ Claim(r)
  BY <1>0, <1>7, OwnedKept
  DEF DropParts, ClearDropped, CreateMultipart, IndexOpen, Presign, Unsign, SetRecord,
    MarkUploading, Cancelled, Claim
<1>8. CASE Backend(r) \/ ListParts(r) \/ Release(r) \/ Forget(r) \/ Failed(r) \/ Unqueued(r)
           \/ StoreFailed(r)
  BY <1>0, <1>8, OwnedKept
  DEF Backend, ListParts, Release, Forget, Failed, Unqueued, StoreFailed
<1>9. CASE Call(r)
  BY <1>0, <1>9, OwnedKept DEF Call, Initiate, Abort, Complete, BatchUpload, Arrive
<1> QED BY <1>2, <1>3, <1>4, <1>5, <1>6, <1>7, <1>8, <1>9 DEF Handle

\* Where no request is killed half way and storage answers: when no request is under way, a
\* source object has its message, whatever the clients send and whatever else fails.
THEOREM ObjectsAreOwned ==
  ASSUME MaxFaults["die"] = 0, MaxFaults["storage"] = 0
  PROVE  Spec => []NothingLeftBehind
<1> DEFINE Inv == NoneLeft({"die", "storage"}) /\ OwnedInv
<1>1. Init => Inv
  BY DEF Init, OwnedInv, NoneLeft
<1>2. Inv /\ TypeOK /\ Planned /\ [Next]_vars => Inv'
  <2> SUFFICES ASSUME NoneLeft({"die", "storage"}), OwnedInv, TypeOK, Planned, [Next]_vars
               PROVE  NoneLeft({"die", "storage"})' /\ OwnedInv'
    OBVIOUS
  <2>1. NoneLeft({"die", "storage"})' BY NoneLeftKept DEF FaultKinds
  <2>2. OwnedInv'
    <3> USE DEF OwnedInv, On, Tail, storageVars, taskVars
    <3>0. queue \in Nat /\ working \in Nat BY DEF TypeOK
    <3>1. ASSUME NEW r \in Requests, Call(r) \/ Handle(r) PROVE OwnedInv'
      BY <3>1, OwnedStep
    <3>2. ASSUME NEW r \in Requests, Die(r) PROVE FALSE
      BY <3>2 DEF Die, Fault, NoneLeft
    <3>3. ASSUME NEW u \in Uploads, PutParts(u) \/ Reclaim(u) PROVE OwnedInv'
      BY <3>3 DEF PutParts, Reclaim
    <3>4. CASE WorkerStarts BY <3>0, <3>4 DEF WorkerStarts
    <3>5. CASE WorkerEnds \/ SweepObject BY <3>5 DEF WorkerEnds, SweepObject
    <3>6. CASE Expire \/ RecordExpires BY <3>6 DEF Expire, RecordExpires
    <3>7. CASE UNCHANGED vars BY <3>7 DEF vars
    <3> QED BY <3>1, <3>2, <3>3, <3>4, <3>5, <3>6, <3>7 DEF Next, Clean
  <2> QED BY <2>1, <2>2
<1>3. Inv => NothingLeftBehind
  BY DEF OwnedInv, NothingLeftBehind, Quiet, InFlight, On, Tail
<1> QED BY <1>1, <1>2, <1>3, Typed, PTL DEF Spec

-----------------------------------------------------------------------------
(* What has not struck yet *)

\* What is spared after a step was spared before it, and the step did not use it.
LEMMA SparedBack ==
  ASSUME TypeOK, WithinBudget, [Next]_vars, NEW kinds \in SUBSET FaultKinds, Spared(kinds)'
  PROVE  /\ Spared(kinds)
         /\ \A k \in kinds : ~Fault(k)
         /\ "overlap" \in kinds => ~Impatient
<1>1. /\ faults \in [FaultKinds -> Nat] /\ MaxFaults \in [FaultKinds -> Nat]
      /\ UNCHANGED faults \/ Impatient \/ \E k \in FaultKinds : Fault(k)
  BY FaultsAssumption, FaultsStep DEF TypeOK
<1>2. \A k \in FaultKinds : faults[k] <= MaxFaults[k] BY DEF WithinBudget
<1>3. \A k \in kinds : ~Fault(k) BY <1>1, <1>2 DEF Spared, Fault
<1>4. "overlap" \in kinds => ~Impatient BY <1>1 DEF Spared, Impatient
<1>5. Spared(kinds)
  <2>1. CASE UNCHANGED faults BY <2>1 DEF Spared
  <2>2. CASE Impatient BY <1>1, <1>4, <2>2 DEF Spared, Impatient
  <2>3. ASSUME NEW k \in FaultKinds, Fault(k) PROVE Spared(kinds)
    BY <1>1, <1>3, <2>3 DEF Spared, Fault
  <2> QED BY <1>1, <2>1, <2>2, <2>3
<1> QED BY <1>3, <1>4, <1>5

\* A job that has expired stays so.
LEMMA LiveBack ==
  ASSUME [Next]_vars, live'
  PROVE  live
<1>1. CASE UNCHANGED vars BY <1>1 DEF vars
<1>2. ASSUME NEW r \in Requests, Call(r) \/ Die(r) PROVE live
  BY <1>2 DEF Call, Initiate, Abort, Complete, BatchUpload, Die
<1>3. ASSUME NEW r \in Requests, Handle(r) PROVE live
  <2>1. CASE \/ DropParts(r) \/ DropObject(r) \/ ClearDropped(r) \/ CreateMultipart(r)
             \/ IndexOpen(r) \/ Presign(r) \/ Unsign(r) \/ SetRecord(r)
    BY <2>1 DEF DropParts, DropObject, ClearDropped, CreateMultipart, IndexOpen, Presign, Unsign, SetRecord
  <2>2. CASE \/ MarkUploading(r) \/ Cancelled(r) \/ Claim(r) \/ Backend(r) \/ ListParts(r)
             \/ Assemble(r) \/ Stat(r) \/ CloseCompleted(r) \/ Verify(r)
    BY <2>2 DEF MarkUploading, Cancelled, Claim, Backend, ListParts, Assemble, Stat, CloseCompleted, Verify
  <2>3. CASE \/ DiscardMismatch(r) \/ Release(r) \/ Forget(r) \/ Failed(r) \/ HandOff(r) \/ MarkPending(r)
    BY <2>3 DEF DiscardMismatch, Release, Forget, Failed, HandOff, MarkPending
  <2>4. CASE Dispatch(r) \/ UndoStore(r) \/ Unqueued(r) \/ StoreUpload(r) \/ StoreFailed(r)
    BY <2>4 DEF Dispatch, UndoStore, Unqueued, StoreUpload, StoreFailed
  <2> QED BY <1>3, <2>1, <2>2, <2>3, <2>4 DEF Handle
<1>4. CASE (\E u \in Uploads : PutParts(u)) \/ Clean
  BY <1>4 DEF PutParts, Clean, Reclaim, SweepObject
<1>5. CASE WorkerStarts \/ WorkerEnds \/ Expire \/ RecordExpires
  BY <1>5 DEF WorkerStarts, WorkerEnds, Expire, RecordExpires
<1> QED BY <1>1, <1>2, <1>3, <1>4, <1>5 DEF Next

-----------------------------------------------------------------------------
(* A slot that shows an upload has its record *)

\* The clients wait, the job store answers, no request is killed.
Patient == Spared({"overlap", "redis", "die"}) /\ live

OneAtATime == \A r, q \in Requests : InFlight(r) /\ InFlight(q) => r = q

\* Where a request will write the record, or has taken it away and will tell the slot.
Rewriting == {"create", "index", "sign", "record", "cancelled", "failed", "pending"}

RecordInv ==
  /\ OneAtATime
  /\ slot = "uploading" /\ record = None => \E r \in Requests : On(r, Rewriting)
  /\ \A r \in Requests : On(r, {"uploading"}) => record # None

\* A request is alone from its arrival to its answer.
LEMMA AloneKept ==
  ASSUME TypeOK, OneAtATime, NEW r \in Requests, Call(r) \/ Handle(r), ~Impatient
  PROVE  OneAtATime' /\ \A q \in Requests \ {r} : ~InFlight(q) /\ ~InFlight(q)'
<1>1. \A q \in Requests \ {r} : req'[q] = req[q] BY Elsewhere
<1>2. CASE Handle(r)
  <2>1. InFlight(r)
    BY <1>2 DEF InFlight, At, Handle, DropParts, DropObject, ClearDropped, CreateMultipart,
      IndexOpen, Presign, Unsign, SetRecord, MarkUploading, Cancelled, Claim, Backend, ListParts,
      Assemble, Stat, CloseCompleted, Verify, DiscardMismatch, Release, Forget, Failed, HandOff,
      MarkPending, Dispatch, UndoStore, Unqueued, StoreUpload, StoreFailed
  <2> QED BY <1>1, <2>1 DEF OneAtATime, InFlight
<1>3. CASE Call(r)
  <2>1. Quiet
    BY <1>3 DEF Call, Initiate, Abort, Complete, BatchUpload, Arrive
  <2> QED BY <1>1, <2>1 DEF OneAtATime, Quiet, InFlight
<1> QED BY <1>2, <1>3

\* Alone, a request keeps the record and the slot together.
LEMMA RecordStep ==
  ASSUME TypeOK, Planned, RecordInv, NoneLeft({"storage"}), NEW r \in Requests, Call(r) \/ Handle(r),
         live, live', ~Impatient, ~Fault("redis")
  PROVE  RecordInv'
<1>0. /\ req \in [Requests -> Request] /\ record \in Records \cup {None}
      /\ \A q \in Requests \ {r} : req'[q] = req[q]
  BY Elsewhere DEF TypeOK
<1>1. OneAtATime' /\ \A q \in Requests \ {r} : ~InFlight(q) /\ ~InFlight(q)'
  BY AloneKept DEF RecordInv
<1>2. \A q \in Requests \ {r} : ~On(q, Rewriting) /\ ~On(q, {"uploading"})'
  BY <1>1 DEF InFlight, On, Rewriting
<1>3. ~Fault("storage") BY DEF NoneLeft, Fault
<1> DEFINE Good == /\ slot' = "uploading" /\ record' = None => On(r, Rewriting)'
                   /\ On(r, {"uploading"})' => record' # None
<1>4. ASSUME Good PROVE RecordInv'
  BY <1>1, <1>2, <1>4 DEF RecordInv, On
<1>5. ASSUME UNCHANGED <<record, slot>>, ~On(r, Rewriting), ~On(r, {"uploading"})' PROVE Good
  BY <1>2, <1>5 DEF RecordInv, On
<1> USE DEF At, On, Goto, Enter, Request, storageVars, taskVars, Rewriting
<1>6. CASE CreateMultipart(r) \/ IndexOpen(r) \/ Presign(r)
  BY <1>0, <1>3, <1>4, <1>6 DEF CreateMultipart, IndexOpen, Presign
<1>7. CASE SetRecord(r)
  <2>1. req[r].upload \in Uploads BY <1>7 DEF SetRecord, Planned, TypeOK
  <2>2. record' \in Records BY <1>7, <2>1 DEF SetRecord, Records
  <2> QED BY <1>4, <2>2, NoneAssumption
<1>8. CASE MarkUploading(r)
  BY <1>0, <1>4, <1>8 DEF MarkUploading, RecordInv
<1>9. CASE ClearDropped(r) \/ Forget(r) \/ HandOff(r)
  BY <1>0, <1>4, <1>9 DEF ClearDropped, Forget, HandOff
<1>10. CASE Cancelled(r) \/ Failed(r) \/ MarkPending(r) \/ Unqueued(r) \/ StoreFailed(r)
  BY <1>0, <1>4, <1>10 DEF Cancelled, Failed, MarkPending, Unqueued, StoreFailed, SetSlot
<1>11. CASE Claim(r) \/ Release(r)
  <2>1. UNCHANGED slot /\ ~On(r, Rewriting) BY <1>11 DEF Claim, Release
  <2>2. record' = record \/ record' \in Records
    BY <1>0, <1>11 DEF Claim, Release, Transition, RecordIs, Records
  <2>3. ~On(r, {"uploading"})' BY <1>0, <1>11 DEF Claim, Release
  <2> QED BY <1>2, <1>4, <2>1, <2>2, <2>3, NoneAssumption DEF RecordInv
<1>12. CASE DropObject(r)
  <2>1. req[r].then \in {"done", "clear"} BY <1>0
  <2> QED BY <1>0, <1>4, <1>5, <1>12, <2>1 DEF DropObject
<1>13. CASE DropParts(r) \/ Unsign(r) \/ Backend(r) \/ ListParts(r) \/ Assemble(r) \/ Stat(r)
  BY <1>0, <1>4, <1>5, <1>13 DEF DropParts, Unsign, Backend, ListParts, Assemble, Stat
<1>14. CASE CloseCompleted(r) \/ Verify(r) \/ DiscardMismatch(r) \/ Dispatch(r) \/ UndoStore(r)
            \/ StoreUpload(r)
  BY <1>0, <1>4, <1>5, <1>14
  DEF CloseCompleted, Verify, DiscardMismatch, Dispatch, UndoStore, StoreUpload
<1>15. CASE Call(r)
  <2>1. CASE Initiate(r) \/ Abort(r) \/ Complete(r)
    BY <1>0, <1>4, <1>5, <2>1 DEF Initiate, Abort, Complete, Arrive
  <2>2. CASE BatchUpload(r)
    <3>1. CASE UNCHANGED slot BY <1>0, <1>4, <1>5, <2>2, <3>1 DEF BatchUpload, Arrive
    <3>2. CASE SetSlot("error") BY <1>0, <1>4, <2>2, <3>2 DEF BatchUpload, SetSlot
    <3> QED BY <2>2, <3>1, <3>2 DEF BatchUpload
  <2> QED BY <1>15, <2>1, <2>2 DEF Call
<1> QED BY <1>6, <1>7, <1>8, <1>9, <1>10, <1>11, <1>12, <1>13, <1>14, <1>15 DEF Handle

\* As long as the client waits for each answer, the job store answers, no request is killed
\* and storage answers too: a slot that shows "uploading" has its record when all is quiet,
\* through any number of initiates, completions and aborts.
THEOREM UploadsAreRecorded ==
  ASSUME MaxFaults["storage"] = 0
  PROVE  Spec => []UploadingIsRecorded
<1>1. Init => NoneLeft({"storage"}) /\ RecordInv
  BY DEF Init, NoneLeft, RecordInv, OneAtATime, InFlight, On
<1>2. NoneLeft({"storage"}) /\ (Patient => RecordInv) /\ TypeOK /\ Planned /\ WithinBudget
      /\ [Next]_vars
      => NoneLeft({"storage"})' /\ (Patient => RecordInv)'
  <2> SUFFICES ASSUME NoneLeft({"storage"}), Patient => RecordInv, TypeOK, Planned,
                      WithinBudget, [Next]_vars
               PROVE  NoneLeft({"storage"})' /\ (Patient' => RecordInv')
    OBVIOUS
  <2>1. NoneLeft({"storage"})' BY NoneLeftKept DEF FaultKinds
  <2>2. ASSUME Patient' PROVE RecordInv'
    <3>1. live /\ live' BY <2>2, LiveBack DEF Patient
    <3>2. /\ Spared({"overlap", "redis", "die"})
          /\ ~Fault("redis") /\ ~Fault("die") /\ ~Impatient
      BY <2>2, SparedBack DEF Patient, FaultKinds
    <3>3. RecordInv BY <3>1, <3>2 DEF Patient
    <3> USE DEF RecordInv, OneAtATime, InFlight, On, storageVars, taskVars
    <3>4. ASSUME NEW r \in Requests, Call(r) \/ Handle(r) PROVE RecordInv'
      BY <3>1, <3>2, <3>3, <3>4, RecordStep
    <3>5. ASSUME NEW r \in Requests, Die(r) PROVE FALSE BY <3>2, <3>5 DEF Die
    <3>6. ASSUME NEW u \in Uploads, PutParts(u) \/ Reclaim(u) PROVE RecordInv'
      BY <3>3, <3>6 DEF PutParts, Reclaim
    <3>7. CASE WorkerStarts \/ WorkerEnds
      BY <3>1, <3>3, <3>7 DEF WorkerStarts, WorkerEnds, SetSlot
    <3>8. CASE SweepObject BY <3>3, <3>8 DEF SweepObject
    <3>9. CASE Expire \/ RecordExpires BY <3>1, <3>9 DEF Expire, RecordExpires
    <3>10. CASE UNCHANGED vars BY <3>3, <3>10 DEF vars
    <3> QED BY <3>4, <3>5, <3>6, <3>7, <3>8, <3>9, <3>10 DEF Next, Clean
  <2> QED BY <2>1, <2>2
<1>3. (Patient => RecordInv) => UploadingIsRecorded
  BY DEF Patient, RecordInv, UploadingIsRecorded, Quiet, InFlight, On, Rewriting
<1> QED BY <1>1, <1>2, <1>3, Typed, BudgetsKept, PTL DEF Spec

-----------------------------------------------------------------------------
(* One upload is announced, any number of completions, aborts and batch uploads race. *)

OneInitiate == IsFiniteSet(Requests) /\ Quota["initiate"] <= 1

\* Between the creation of a multipart upload and its record.
Planning == {"create", "index", "sign", "record"}

Initiates(r) == req[r].op = "initiate"

\* The record is announced once, and not while a completion holds the slot: the state it
\* is in tells the completions whether one of them does.
HolderInv ==
  /\ \A r \in Requests : On(r, {"new"}) => req[r].op = None
  /\ \A r \in Requests : On(r, Planning) => Initiates(r)
  /\ \A r \in Requests : Initiates(r) => req[r].then = "done" /\ ~On(r, {"clear"})
  /\ \A r, q \in Requests : Initiates(r) /\ Initiates(q) => r = q
  /\ (\A r \in Requests : ~Initiates(r)) => record = None /\ \A r \in Requests : ~Holding(r)
  /\ OneHolder
  /\ RecordIs("uploading") => \A r \in Requests : ~Holding(r)
  /\ \A r \in Requests : On(r, Planning) => record = None /\ \A q \in Requests : ~Holding(q)

\* Within its quota the first initiate is the only one.
LEMMA FirstInitiate ==
  ASSUME OneInitiate, NEW r \in Requests, Arrive(r, "initiate")
  PROVE  \A q \in Requests : ~Initiates(q)
<1> DEFINE S == {q \in Requests : req[q].op = "initiate"}
<1>1. IsFiniteSet(S) /\ Cardinality(S) \in Nat
  BY FS_Subset, FS_CardinalityType DEF OneInitiate
<1>2. Cardinality(S) < Quota["initiate"] BY DEF Arrive
<1>3. Cardinality(S) = 0
  BY <1>1, <1>2, QuotaAssumption DEF OneInitiate, Operations
<1>4. S = {} BY <1>1, <1>3, FS_EmptySet
<1> QED BY <1>4 DEF Initiates

\* A step that leaves the record alone, enters neither section and does not announce.
LEMMA HolderKept ==
  ASSUME HolderInv, NEW r \in Requests,
         \A q \in Requests \ {r} : req'[q] = req[q], UNCHANGED record,
         Holding(r)' => Holding(r), On(r, Planning)' => On(r, Planning),
         Initiates(r) <=> Initiates(r)',
         Initiates(r) => req'[r].then = req[r].then,
         On(r, {"clear"})' => ~Initiates(r), ~On(r, {"new"})'
  PROVE  HolderInv'
<1>1. \A q \in Requests : (Holding(q)' => Holding(q)) /\ (On(q, Planning)' => On(q, Planning))
                          /\ (Initiates(q)' <=> Initiates(q))
  BY DEF Holding, On, Initiates
<1>2. \A q \in Requests : /\ On(q, {"new"})' => req'[q].op = None
                          /\ On(q, Planning)' => Initiates(q)'
                          /\ Initiates(q)' => req'[q].then = "done" /\ ~On(q, {"clear"})'
  BY <1>1 DEF HolderInv, On, Initiates
<1> QED BY <1>1, <1>2 DEF HolderInv, OneHolder, RecordIs

\* A request whose record becomes None or another one moves as the others are told.
LEMMA HolderStep ==
  ASSUME OneInitiate, TypeOK, HolderInv, NEW r \in Requests, Call(r) \/ Handle(r) \/ Die(r)
  PROVE  HolderInv'
<1>0. /\ req \in [Requests -> Request] /\ record \in Records \cup {None}
      /\ \A q \in Requests \ {r} : req'[q] = req[q]
  BY Elsewhere DEF TypeOK
<1>1. req[r].then \in {"done", "clear"} BY <1>0 DEF Request
<1> USE DEF At, Goto, Enter, Request, storageVars, taskVars
<1>2. CASE CreateMultipart(r)
  <2>1. Initiates(r) /\ req[r].then = "done" BY <1>2 DEF CreateMultipart, HolderInv, On, Planning
  <2> QED BY <1>0, <1>2, <2>1, HolderKept DEF CreateMultipart, Holding, On, Planning, Initiates
<1>3. CASE IndexOpen(r) \/ Presign(r) \/ Unsign(r) \/ MarkUploading(r) \/ DropParts(r)
           \/ Cancelled(r)
  BY <1>0, <1>3, HolderKept
  DEF IndexOpen, Presign, Unsign, MarkUploading, DropParts, Cancelled, Holding, On, Planning, Initiates
<1>4. CASE DropObject(r)
  <2>1. req'[r].pc = "clear" => ~Initiates(r) BY <1>0, <1>4 DEF DropObject, HolderInv
  <2> QED BY <1>0, <1>1, <1>4, <2>1, HolderKept DEF DropObject, Holding, On, Planning, Initiates
<1>5. CASE SetRecord(r)
  <2>1. /\ Initiates(r) /\ req[r].then = "done" /\ \A q \in Requests : ~Holding(q)
        /\ \A q \in Requests \ {r} : ~On(q, Planning)
    BY <1>5 DEF SetRecord, HolderInv, On, Planning
  <2>2. /\ req'[r].pc \in {"uploading", "dropParts"} /\ req'[r].op = req[r].op
        /\ req'[r].then = req[r].then
    BY <1>0, <1>5 DEF SetRecord
  <2>3. \A q \in Requests : ~Holding(q)' /\ ~On(q, Planning)'
    BY <1>0, <2>1, <2>2 DEF Holding, On, Planning
  <2>4. Initiates(r)' /\ \A q \in Requests : Initiates(q)' <=> Initiates(q)
    BY <1>0, <2>1, <2>2 DEF Initiates
  <2>5. \A q \in Requests : /\ On(q, {"new"})' => req'[q].op = None
                            /\ Initiates(q)' => req'[q].then = "done" /\ ~On(q, {"clear"})'
    BY <1>0, <2>1, <2>2, <2>4 DEF HolderInv, On, Initiates
  <2> QED BY <2>3, <2>4, <2>5 DEF HolderInv, OneHolder
<1>6. CASE ClearDropped(r)
  <2>1. ~Initiates(r) BY <1>6 DEF ClearDropped, HolderInv, On
  <2>2. req'[r].pc = "cancelled" /\ req'[r].op = req[r].op /\ record' = None
    BY <1>0, <1>6, <2>1 DEF ClearDropped, Initiates
  <2>3. \A q \in Requests : /\ Holding(q)' => Holding(q)
                            /\ On(q, Planning)' => On(q, Planning)
                            /\ Initiates(q)' <=> Initiates(q)
                            /\ On(q, {"new"})' => req'[q].op = None
                            /\ Initiates(q)' => req'[q].then = "done" /\ ~On(q, {"clear"})'
    BY <1>0, <2>1, <2>2 DEF HolderInv, Holding, On, Planning, Initiates
  <2> QED BY <2>2, <2>3 DEF HolderInv, OneHolder, RecordIs
<1>7. CASE Claim(r)
  <2>1. CASE UNCHANGED record /\ req'[r].pc = "done"
    BY <1>0, <1>7, <2>1, HolderKept DEF Claim, Holding, On, Planning, Initiates
  <2>2. CASE Transition("uploading", "completing") /\ req'[r].pc = "backend"
    <3>1. /\ \A q \in Requests : ~Holding(q) /\ ~On(q, Planning)
          /\ \E q \in Requests : Initiates(q)
      BY <2>2 DEF Transition, RecordIs, HolderInv
    <3>2. /\ req'[r].op = req[r].op /\ req'[r].then = req[r].then BY <1>0, <1>7 DEF Claim
    <3>3. ~RecordIs("uploading")'
      BY <1>0, <2>2 DEF Transition, RecordIs, Records
    <3>4. \A q \in Requests : /\ Holding(q)' => q = r
                              /\ ~On(q, Planning)'
                              /\ Initiates(q)' <=> Initiates(q)
                              /\ On(q, {"new"})' => req'[q].op = None
                              /\ Initiates(q)' => req'[q].then = "done" /\ ~On(q, {"clear"})'
      BY <1>0, <2>2, <3>1, <3>2 DEF HolderInv, Holding, On, Planning, Initiates
    <3> QED BY <3>1, <3>3, <3>4 DEF HolderInv, OneHolder
  <2> QED BY <1>0, <1>7, <2>1, <2>2 DEF Claim
<1>8. CASE Release(r) \/ Forget(r) \/ HandOff(r)
  <2>1. Holding(r) BY <1>8 DEF Release, Forget, HandOff, Holding
  <2>2. \A q \in Requests : (Holding(q) => q = r) /\ ~On(q, Planning)
    BY <2>1 DEF HolderInv, OneHolder
  <2>3. \E q \in Requests : Initiates(q) BY <2>1 DEF HolderInv
  <2>4. /\ req'[r].pc \in {"done", "failed", "pending"} /\ req'[r].op = req[r].op
        /\ req'[r].then = req[r].then
    BY <1>0, <1>8 DEF Release, Forget, HandOff
  <2>5. \A q \in Requests : /\ ~Holding(q)' /\ ~On(q, Planning)'
                            /\ Initiates(q)' <=> Initiates(q)
                            /\ On(q, {"new"})' => req'[q].op = None
                            /\ Initiates(q)' => req'[q].then = "done" /\ ~On(q, {"clear"})'
    BY <1>0, <2>2, <2>4 DEF HolderInv, Holding, On, Planning, Initiates
  <2> QED BY <2>3, <2>5 DEF HolderInv, OneHolder
<1>9. CASE Backend(r) \/ ListParts(r) \/ Assemble(r) \/ Stat(r) \/ CloseCompleted(r) \/ Verify(r)
           \/ DiscardMismatch(r)
  BY <1>0, <1>9, HolderKept
  DEF Backend, ListParts, Assemble, Stat, CloseCompleted, Verify, DiscardMismatch, Holding, On,
    Planning, Initiates
<1>10. CASE Failed(r) \/ MarkPending(r) \/ Dispatch(r) \/ UndoStore(r) \/ Unqueued(r)
            \/ StoreUpload(r) \/ StoreFailed(r) \/ Die(r)
  BY <1>0, <1>10, HolderKept
  DEF Failed, MarkPending, Dispatch, UndoStore, Unqueued, StoreUpload, StoreFailed, Die, Holding,
    On, Planning, Initiates
<1>11. CASE Abort(r) \/ Complete(r) \/ BatchUpload(r)
  <2>1. ~Initiates(r)
    BY <1>11, NoneAssumption
    DEF Abort, Complete, BatchUpload, Arrive, HolderInv, On, Initiates, Operations
  <2>2. req'[r].op \in {"abort", "complete", "batch"} /\ UNCHANGED record
        /\ req'[r].pc \in {"done", "dropParts", "claim", "store"}
    BY <1>0, <1>11 DEF Abort, Complete, BatchUpload
  <2> QED BY <1>0, <2>1, <2>2, HolderKept DEF Holding, On, Planning, Initiates
<1>12. CASE Initiate(r)
  <2>1. \A q \in Requests : ~Initiates(q) BY <1>12, FirstInitiate DEF Initiate
  <2>2. record = None /\ \A q \in Requests : ~Holding(q) /\ ~On(q, Planning)
    BY <2>1 DEF HolderInv
  <2>3. /\ UNCHANGED record /\ req'[r].pc \in {"done", "create"}
        /\ req'[r].op = "initiate" /\ req'[r].then = "done"
    BY <1>0, <1>12, <2>2 DEF Initiate, RecordIs
  <2>4. \A q \in Requests : /\ ~Holding(q)'
                            /\ Initiates(q)' <=> q = r
                            /\ On(q, Planning)' => q = r
                            /\ On(q, {"new"})' => req'[q].op = None
                            /\ Initiates(q)' => req'[q].then = "done" /\ ~On(q, {"clear"})'
    BY <1>0, <2>1, <2>2, <2>3 DEF HolderInv, Holding, On, Planning, Initiates
  <2> QED BY <2>2, <2>3, <2>4 DEF HolderInv, OneHolder
<1> QED
  BY <1>2, <1>3, <1>4, <1>5, <1>6, <1>7, <1>8, <1>9, <1>10, <1>11, <1>12 DEF Call, Handle

LEMMA Held ==
  ASSUME OneInitiate
  PROVE  Spec => []HolderInv
<1>1. Init => HolderInv
  BY NoneAssumption
  DEF Init, HolderInv, On, Planning, Initiates, OneHolder, Holding, RecordIs, Operations
<1>2. TypeOK /\ HolderInv /\ [Next]_vars => HolderInv'
  <2> SUFFICES ASSUME TypeOK, HolderInv, [Next]_vars PROVE HolderInv'
    OBVIOUS
  <2>1. ASSUME NEW r \in Requests, Call(r) \/ Handle(r) \/ Die(r) PROVE HolderInv'
    BY <2>1, HolderStep
  <2>2. CASE UNCHANGED <<req, record>>
    BY <2>2 DEF HolderInv, On, Initiates, OneHolder, Holding, RecordIs
  <2>3. CASE RecordExpires
    BY <2>3 DEF RecordExpires, HolderInv, On, Initiates, OneHolder, Holding, RecordIs
  <2> QED
    BY <2>1, <2>2, <2>3
    DEF Next, Clean, PutParts, WorkerStarts, WorkerEnds, Expire, Reclaim, SweepObject, vars
<1> QED BY <1>1, <1>2, Typed, PTL DEF Spec

\* With one initiate, and any number of completions, aborts and batch uploads in any order,
\* through expiry and any fault: at most one completion at a time holds the slot.
THEOREM OneCompletionHolds ==
  ASSUME OneInitiate
  PROVE  Spec => []OneHolder
<1>1. HolderInv => OneHolder BY DEF HolderInv
<1> QED BY <1>1, Held, PTL

-----------------------------------------------------------------------------
(* One upload and its completions: the message, its object and the slot *)

\* No abort, no batch upload, no answer of the broker or the job store lost, and the job lives.
Simple == OnlyCompletions /\ Spared({"confirm", "redis"}) /\ live

\* Where only aborts, batch uploads and lost answers of the job store lead.
Astray == {"dropParts", "dropObject", "clear", "cancelled", "store", "storeFailed"}

\* Past the completion's hold, with the slot still to be told or the message to be sent.
Past == {"failed", "pending", "dispatch", "undo", "unqueued"}

\* The object has been seen in storage.
Seen == {"stat", "close", "verify", "handoff", "pending", "dispatch"}

Settled == record = None /\ \A q \in Requests : ~Holding(q) /\ ~On(q, Planning)

\* Nothing is past the hold and no message sent before an upload is announced; then one
\* completion alone goes past it, or one message is there, and the upload is settled.
HandInv ==
  /\ \A r \in Requests : ~On(r, Astray)
  /\ (\A r \in Requests : ~Initiates(r)) => queue + working = 0 /\ \A r \in Requests : ~On(r, Past)
  /\ \A r \in Requests : On(r, Past) =>
       Settled /\ queue + working = 0 /\ \A q \in Requests : On(q, Past) => q = r
  /\ queue + working > 0 => Settled /\ queue + working = 1
  /\ \A r \in Requests : On(r, Seen) => object # None
  /\ \A r \in Requests : On(r, {"dispatch"}) => slot # "error"
  /\ queue > 0 => object # None /\ slot # "error"

\* What has been only completions was so before: a request keeps its operation.
LEMMA OnlyCompletionsBack ==
  ASSUME TypeOK, HolderInv, NEW r \in Requests, Call(r) \/ Handle(r) \/ Die(r), OnlyCompletions'
  PROVE  OnlyCompletions
<1>0. /\ req \in [Requests -> Request] /\ \A q \in Requests \ {r} : req'[q] = req[q]
  BY Elsewhere DEF TypeOK
<1>1. req[r].op \notin {"abort", "batch"}
  <2> USE DEF At, Goto, Enter, Request
  <2>1. CASE Call(r)
    <3>1. req[r].op = None
      BY <2>1 DEF Call, Initiate, Abort, Complete, BatchUpload, Arrive, HolderInv, On
    <3> QED BY <3>1, NoneAssumption DEF Operations
  <2>2. CASE CreateMultipart(r)
    BY <2>2 DEF CreateMultipart, HolderInv, On, Planning, Initiates
  <2>3. CASE ~Call(r) /\ ~CreateMultipart(r)
    <3>1. \E label : Goto(r, label)
      BY <2>3 DEF Die, Handle, DropParts, DropObject, ClearDropped, IndexOpen, Presign, Unsign,
        SetRecord, MarkUploading, Cancelled, Claim, Backend, ListParts, Assemble, Stat,
        CloseCompleted, Verify, DiscardMismatch, Release, Forget, Failed, HandOff, MarkPending,
        Dispatch, UndoStore, Unqueued, StoreUpload, StoreFailed
    <3>2. req'[r].op = req[r].op BY <1>0, <3>1
    <3> QED BY <3>2 DEF OnlyCompletions
  <2> QED BY <2>1, <2>2, <2>3
<1> QED BY <1>0, <1>1 DEF OnlyCompletions

\* A step that enters none of the sections and leaves messages and object alone.
LEMMA HandKept ==
  ASSUME HandInv, NEW r \in Requests,
         \A q \in Requests \ {r} : req'[q] = req[q],
         UNCHANGED <<record, object, queue, working>>,
         slot' = slot \/ slot' # "error",
         ~On(r, Astray)', On(r, Past)' => On(r, Past), Holding(r)' => Holding(r),
         On(r, Planning)' => On(r, Planning), Initiates(r) => Initiates(r)',
         On(r, Seen)' => On(r, Seen) \/ object # None,
         On(r, {"dispatch"})' => On(r, {"dispatch"})
  PROVE  HandInv'
<1>1. \A q \in Requests :
        /\ ~On(q, Astray)' /\ (On(q, Past)' => On(q, Past)) /\ (Holding(q)' => Holding(q))
        /\ (On(q, Planning)' => On(q, Planning)) /\ (Initiates(q) => Initiates(q)')
        /\ (On(q, Seen)' => object # None)
        /\ (On(q, {"dispatch"})' => On(q, {"dispatch"}))
  BY DEF HandInv, On, Holding, Initiates
<1>2. Settled => Settled' BY <1>1 DEF Settled
<1> QED BY <1>1, <1>2 DEF HandInv

\* A step of the one request that is in any of the sections.
LEMMA HandAlone ==
  ASSUME HandInv, NEW r \in Requests,
         \A q \in Requests \ {r} :
           req'[q] = req[q] /\ ~On(q, Past) /\ ~On(q, Planning) /\ ~Holding(q),
         \E q \in Requests : Initiates(q)',
         ~On(r, Astray)',
         On(r, Past)' => record' = None /\ queue' + working' = 0,
         queue' + working' > 0 =>
           /\ record' = None /\ queue' + working' = 1
           /\ ~Holding(r)' /\ ~On(r, Planning)' /\ ~On(r, Past)',
         On(r, Seen)' => object' # None,
         On(r, {"dispatch"})' => slot' # "error",
         queue' > 0 => object' # None /\ slot' # "error"
  PROVE  HandInv'
<1>1. \A q \in Requests \ {r} :
        /\ ~On(q, Past)' /\ ~On(q, Planning)' /\ ~Holding(q)'
        /\ ~On(q, Astray)' /\ ~On(q, Seen)' /\ ~On(q, {"dispatch"})'
  BY DEF HandInv, On, Holding, Past, Seen
<1>2. On(r, Past)' => ~Holding(r)' /\ ~On(r, Planning)'
  BY DEF On, Past, Holding, Planning
<1> QED BY <1>1, <1>2 DEF HandInv, Settled

\* The completion that holds the slot, or has let go of it, sends the one message.
LEMMA HandStep ==
  ASSUME OneInitiate, TypeOK, HolderInv, HandInv, NEW r \in Requests,
         Call(r) \/ Handle(r) \/ Die(r), OnlyCompletions', live, ~Fault("confirm"), ~Fault("redis")
  PROVE  HandInv'
<1>0. /\ req \in [Requests -> Request] /\ queue \in Nat /\ working \in Nat
      /\ open \subseteq Uploads /\ \A q \in Requests \ {r} : req'[q] = req[q]
  BY Elsewhere DEF TypeOK
<1> DEFINE Free == \A q \in Requests \ {r} : ~On(q, Past) /\ ~On(q, Planning) /\ ~Holding(q)
           Some == \E q \in Requests : Initiates(q)
<1>1. ASSUME Holding(r) PROVE Free /\ Some /\ queue = 0 /\ working = 0
  <2>1. /\ ~Settled /\ Some
        /\ \A q \in Requests \ {r} : ~On(q, Planning) /\ ~Holding(q)
    BY <1>1 DEF HolderInv, OneHolder, Settled
  <2> QED BY <1>0, <2>1 DEF HandInv
<1>2. ASSUME On(r, Past) PROVE Free /\ Some /\ queue = 0 /\ working = 0 /\ record = None
  BY <1>0, <1>2 DEF HandInv, Settled
<1>3. ASSUME req'[r].op = req[r].op, Some PROVE \E q \in Requests : Initiates(q)'
  BY <1>0, <1>3 DEF Initiates
<1> HIDE DEF Free, Some
<1> USE DEF At, Goto, Enter, Request, storageVars, taskVars
<1>4. CASE SetRecord(r)
  <2>1. ~Settled /\ Initiates(r) /\ \A q \in Requests \ {r} : ~On(q, Planning) /\ ~Holding(q)
    BY <1>4 DEF SetRecord, HolderInv, Settled, On, Planning
  <2>2. queue = 0 /\ working = 0 /\ \A q \in Requests \ {r} : ~On(q, Past)
    BY <1>0, <2>1 DEF HandInv
  <2>3. req'[r].pc = "uploading" /\ Initiates(r)' /\ UNCHANGED <<queue, working>>
    BY <1>0, <1>4, <2>1 DEF SetRecord, Initiates
  <2> QED BY <1>0, <2>1, <2>2, <2>3, HandAlone DEF On, Astray, Past, Seen
<1>5. CASE Claim(r)
  <2>1. CASE UNCHANGED record /\ req'[r].pc = "done"
    BY <1>0, <1>5, <2>1, HandKept
    DEF Claim, On, Holding, Initiates, Astray, Past, Seen, Planning
  <2>2. CASE Transition("uploading", "completing") /\ req'[r].pc = "backend"
    <3>1. ~Settled /\ Some /\ \A q \in Requests : ~On(q, Planning) /\ ~Holding(q)
      BY <2>2 DEF Transition, RecordIs, HolderInv, Settled, Some
    <3>2. queue = 0 /\ working = 0 /\ \A q \in Requests : ~On(q, Past)
      BY <1>0, <3>1 DEF HandInv
    <3>3. req'[r].op = req[r].op /\ UNCHANGED <<queue, working>> BY <1>0, <1>5 DEF Claim
    <3> QED BY <1>0, <1>3, <2>2, <3>1, <3>2, <3>3, HandAlone DEF On, Astray, Past, Seen
  <2> QED BY <1>0, <1>5, <2>1, <2>2 DEF Claim
<1>6. CASE Assemble(r)
  <2>1. Free /\ Some /\ queue = 0 /\ working = 0 BY <1>1, <1>6 DEF Assemble, Holding
  <2>2. /\ req'[r].pc \in {"stat", "release", "forget"} /\ req'[r].op = req[r].op
        /\ UNCHANGED <<queue, working>>
        /\ req'[r].pc = "stat" => object' \in Uploads
    BY <1>0, <1>6 DEF Assemble
  <2> QED BY <1>0, <1>3, <2>1, <2>2, NoneAssumption, HandAlone DEF On, Astray, Past, Seen, Free
<1>7. CASE DiscardMismatch(r) \/ Release(r)
  <2>1. Free /\ Some /\ queue = 0 /\ working = 0
    BY <1>1, <1>7 DEF DiscardMismatch, Release, Holding
  <2>2. /\ req'[r].pc \in {"forget", "done"} /\ req'[r].op = req[r].op
        /\ UNCHANGED <<queue, working>>
    <3>1. CASE DiscardMismatch(r) BY <1>0, <3>1 DEF DiscardMismatch
    <3>2. CASE Release(r) BY <1>0, <3>2 DEF Release
    <3> QED BY <1>7, <3>1, <3>2
  <2> QED BY <1>0, <1>3, <2>1, <2>2, HandAlone DEF On, Astray, Past, Seen, Free
<1>8. CASE Forget(r) \/ HandOff(r)
  <2>1. Free /\ Some /\ queue = 0 /\ working = 0 BY <1>1, <1>8 DEF Forget, HandOff, Holding
  <2>2. /\ req'[r].pc \in {"failed", "pending"} /\ req'[r].op = req[r].op
        /\ record' = None /\ UNCHANGED <<queue, working>>
        /\ req'[r].pc = "pending" => object' # None
    <3>1. CASE Forget(r) BY <1>0, <3>1 DEF Forget
    <3>2. CASE HandOff(r)
      <4>1. On(r, Seen) BY <3>2 DEF HandOff, On, Seen
      <4> QED BY <1>0, <3>2, <4>1 DEF HandOff, HandInv
    <3> QED BY <1>8, <3>1, <3>2
  <2> QED BY <1>0, <1>3, <2>1, <2>2, HandAlone DEF On, Astray, Past, Seen, Free
<1>9. CASE Failed(r) \/ Unqueued(r) \/ UndoStore(r) \/ MarkPending(r)
  <2>1. Free /\ Some /\ queue = 0 /\ working = 0 /\ record = None
    BY <1>2, <1>9 DEF Failed, Unqueued, UndoStore, MarkPending, On, Past
  <2>2. /\ req'[r].pc \in {"done", "unqueued", "dispatch"} /\ req'[r].op = req[r].op
        /\ UNCHANGED <<record, queue, working>>
        /\ req'[r].pc = "dispatch" => object' # None /\ slot' = "pending"
    <3>1. CASE Failed(r) BY <1>0, <3>1 DEF Failed
    <3>2. CASE Unqueued(r) BY <1>0, <3>2 DEF Unqueued
    <3>3. CASE UndoStore(r) BY <1>0, <3>3 DEF UndoStore
    <3>4. CASE MarkPending(r)
      <4>1. On(r, Seen) BY <3>4 DEF MarkPending, On, Seen
      <4> QED BY <1>0, <3>4, <4>1 DEF MarkPending, SetSlot, HandInv
    <3> QED BY <1>9, <3>1, <3>2, <3>3, <3>4
  <2> QED BY <1>0, <1>3, <2>1, <2>2, HandAlone DEF On, Astray, Past, Seen, Free
<1>10. CASE Dispatch(r)
  <2>1. Free /\ Some /\ queue = 0 /\ working = 0 /\ record = None
    BY <1>2, <1>10 DEF Dispatch, On, Past
  <2>2. object # None /\ slot # "error" BY <1>10 DEF Dispatch, HandInv, On, Seen
  <2>3. /\ req'[r].op = req[r].op /\ UNCHANGED <<record, working, object, slot>>
        /\ \/ queue' = queue + 1 /\ req'[r].pc = "done"
           \/ queue' = queue /\ req'[r].pc = "undo"
    BY <1>0, <1>10 DEF Dispatch
  <2>4. ~Holding(r)' /\ ~On(r, Planning)' /\ ~On(r, Astray)' /\ ~On(r, Seen)'
        /\ ~On(r, {"dispatch"})' /\ (On(r, Past)' => queue' = queue)
    BY <2>1, <2>3 DEF On, Holding, Planning, Astray, Seen, Past
  <2> QED BY <1>0, <1>3, <2>1, <2>2, <2>3, <2>4, HandAlone DEF Free
<1>11. CASE CreateMultipart(r)
  <2>1. Initiates(r) BY <1>11 DEF CreateMultipart, HolderInv, On, Planning
  <2> QED
    BY <1>0, <1>11, <2>1, HandKept
    DEF CreateMultipart, On, Holding, Initiates, Astray, Past, Seen, Planning
<1>12. CASE IndexOpen(r) \/ Presign(r) \/ Unsign(r)
  <2> USE DEF On, Holding, Initiates, Astray, Past, Seen, Planning
  <2>1. CASE IndexOpen(r) BY <1>0, <2>1, HandKept DEF IndexOpen
  <2>2. CASE Presign(r) BY <1>0, <2>2, HandKept DEF Presign
  <2>3. CASE Unsign(r) BY <1>0, <2>3, HandKept DEF Unsign
  <2> QED BY <1>12, <2>1, <2>2, <2>3
<1>13. CASE MarkUploading(r)
  BY <1>0, <1>13, HandKept
  DEF MarkUploading, SetSlot, On, Holding, Initiates, Astray, Past, Seen, Planning
<1>14. CASE Backend(r) \/ ListParts(r) \/ CloseCompleted(r) \/ Verify(r)
  <2> USE DEF On, Holding, Initiates, Astray, Past, Seen, Planning
  <2>1. CASE Backend(r) BY <1>0, <2>1, HandKept DEF Backend
  <2>2. CASE ListParts(r) BY <1>0, <2>2, HandKept DEF ListParts
  <2>3. CASE CloseCompleted(r) BY <1>0, <2>3, HandKept DEF CloseCompleted
  <2>4. CASE Verify(r) BY <1>0, <2>4, HandKept DEF Verify
  <2> QED BY <1>14, <2>1, <2>2, <2>3, <2>4
<1>15. CASE Stat(r)
  BY <1>0, <1>15, HandKept
  DEF Stat, On, Holding, Initiates, Astray, Past, Seen, Planning
<1>16. CASE Die(r)
  BY <1>0, <1>16, HandKept
  DEF Die, On, Holding, Initiates, Astray, Past, Seen, Planning
<1>17. CASE Complete(r)
  <2>1. ~Initiates(r)
    BY <1>17, NoneAssumption DEF Complete, Arrive, HolderInv, On, Initiates, Operations
  <2>2. req'[r].pc \in {"done", "claim"} /\ UNCHANGED <<record, object, queue, working, slot>>
    BY <1>0, <1>17 DEF Complete
  <2> QED BY <1>0, <2>1, <2>2, HandKept DEF On, Holding, Astray, Past, Seen, Planning
<1>18. CASE Initiate(r)
  <2>1. \A q \in Requests : ~Initiates(q) BY <1>18, FirstInitiate DEF Initiate
  <2>2. \A q \in Requests : ~Holding(q) /\ ~On(q, Planning) /\ record = None
    BY <2>1 DEF HolderInv
  <2>3. queue = 0 /\ working = 0 /\ \A q \in Requests : ~On(q, Past)
    BY <1>0, <2>1 DEF HandInv
  <2>4. /\ Initiates(r)' /\ req'[r].pc \in {"done", "create"} /\ UNCHANGED <<queue, working>>
    BY <1>0, <1>18, <2>2 DEF Initiate, RecordIs, Initiates
  <2> QED BY <1>0, <2>2, <2>3, <2>4, HandAlone DEF On, Astray, Past, Seen
<1>19. CASE Abort(r) \/ BatchUpload(r)
  <2>1. req'[r].op \in {"abort", "batch"}
    <3>1. CASE Abort(r) BY <1>0, <3>1 DEF Abort
    <3>2. CASE BatchUpload(r) BY <1>0, <3>2 DEF BatchUpload
    <3> QED BY <1>19, <3>1, <3>2
  <2> QED BY <2>1 DEF OnlyCompletions
<1>20. CASE DropParts(r) \/ DropObject(r) \/ ClearDropped(r) \/ Cancelled(r) \/ StoreUpload(r)
            \/ StoreFailed(r)
  BY <1>20
  DEF DropParts, DropObject, ClearDropped, Cancelled, StoreUpload, StoreFailed, HandInv, On, Astray
<1> QED
  BY <1>4, <1>5, <1>6, <1>7, <1>8, <1>9, <1>10, <1>11, <1>12, <1>13, <1>14, <1>15, <1>16, <1>17,
     <1>18, <1>19, <1>20
  DEF Call, Handle

LEMMA HandedOver ==
  ASSUME OneInitiate
  PROVE  Spec => [](Simple => HandInv)
<1>1. Init => HandInv
  BY NoneAssumption
  DEF Init, HandInv, On, Astray, Past, Seen, Settled, Holding, Planning
<1>2. TypeOK /\ WithinBudget /\ HolderInv /\ (Simple => HandInv) /\ [Next]_vars
      => (Simple => HandInv)'
  <2> SUFFICES ASSUME TypeOK, WithinBudget, HolderInv, Simple => HandInv, [Next]_vars, Simple'
               PROVE  HandInv'
    OBVIOUS
  <2>1. live /\ live' BY LiveBack DEF Simple
  <2>2. Spared({"confirm", "redis"}) /\ ~Fault("confirm") /\ ~Fault("redis")
    BY SparedBack DEF Simple, FaultKinds
  <2>3. queue \in Nat /\ working \in Nat BY DEF TypeOK
  <2>4. ASSUME NEW r \in Requests, Call(r) \/ Handle(r) \/ Die(r) PROVE HandInv'
    <3>1. OnlyCompletions BY <2>4, OnlyCompletionsBack DEF Simple
    <3>2. HandInv BY <2>1, <2>2, <3>1 DEF Simple
    <3> QED BY <2>1, <2>2, <2>4, <3>2, HandStep DEF Simple
  <2>5. ASSUME UNCHANGED req PROVE HandInv
    BY <2>1, <2>2, <2>5 DEF Simple, OnlyCompletions
  <2>6. CASE UNCHANGED <<req, record, object, queue, working, slot>>
    BY <2>5, <2>6 DEF HandInv, On, Settled, Holding, Initiates
  <2>7. CASE WorkerStarts
    <3>1. /\ UNCHANGED <<req, record, object>> /\ queue' + working' = queue + working
          /\ queue > 0 /\ slot' = "running"
      BY <2>1, <2>3, <2>7 DEF WorkerStarts, SetSlot, storageVars
    <3> QED BY <2>3, <2>5, <3>1 DEF HandInv, On, Settled, Holding, Initiates
  <2>8. CASE WorkerEnds
    <3>1. UNCHANGED <<req, record, queue>> /\ working > 0 /\ working' = working - 1
      BY <2>8 DEF WorkerEnds
    <3>2. HandInv BY <2>5, <3>1
    <3>3. Settled /\ queue = 0 /\ queue' = 0 /\ working' = 0 /\ \A q \in Requests : ~On(q, Past)
      BY <2>3, <3>1, <3>2 DEF HandInv
    <3>4. \A q \in Requests : ~On(q, Past)' /\ ~On(q, Seen)' /\ ~On(q, {"dispatch"})' /\ ~On(q, Astray)'
      BY <3>1, <3>2, <3>3 DEF On, Past, Seen, Settled, Holding, HandInv
    <3> QED BY <3>3, <3>4 DEF HandInv
  <2> QED
    BY <2>1, <2>4, <2>6, <2>7, <2>8
    DEF Next, Clean, PutParts, Expire, RecordExpires, Reclaim, SweepObject, storageVars, taskVars, vars
<1> QED BY <1>1, <1>2, Typed, Held, BudgetsKept, PTL DEF Spec

\* One upload, completed as often as the clients like, through deaths, broker and storage
\* faults: a message that waits for a worker has its object.
THEOREM QueuedIsStored ==
  ASSUME OneInitiate
  PROVE  Spec => []QueuedHasObject
<1>1. TypeOK /\ (Simple => HandInv) => QueuedHasObject
  BY DEF Simple, HandInv, QueuedHasObject
<1> QED BY <1>1, HandedOver, Typed, PTL

\* And a slot that tells its client of an error has no message waiting: a completion that
\* fails late does not overwrite the verdict of one that got through.
THEOREM ErrorsAreNotQueued ==
  ASSUME OneInitiate
  PROVE  Spec => []FailedIsNotQueued
<1>1. TypeOK /\ (Simple => HandInv) => FailedIsNotQueued
  BY DEF TypeOK, Simple, HandInv, FailedIsNotQueued
<1> QED BY <1>1, HandedOver, Typed, PTL

=============================================================================
