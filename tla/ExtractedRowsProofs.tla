------------------------ MODULE ExtractedRowsProofs ------------------------
(***************************************************************************)
(* Theorems about ExtractedRows: its types, and that the cleanup deletes   *)
(* nothing the history lists, for any number of extractions, cleanups,     *)
(* delete requests and faults.                                             *)
(***************************************************************************)
EXTENDS ExtractedRows, TLAPS

\* TypeOK in parts, for the provers.
StoreTypes ==
  /\ writer \in [Files -> {"save", "log", "done"}]
  /\ present \in [Files -> BOOLEAN]
  /\ age \in [Files -> Ages]
  /\ path \in [Files -> BOOLEAN]
  /\ row \in [Files -> BOOLEAN]
  /\ cached \in [Files -> BOOLEAN]
  /\ user \in {"active", "gone"}

SweepTypes == sweep \in [Sweepers -> [pc : {"idle", "expire", "orphans"}, todo : SUBSET Files]]

DelTypes ==
  /\ del \in [Deleters -> [pc : {"idle", "history", "user"},
                           records : SUBSET Files, left : SUBSET Files]]
  /\ asked \subseteq Files

FaultTypes == faults \in [FaultKinds -> Nat]

\* A fault spends its budget.
LEMMA Spent == ASSUME FaultTypes, NEW k \in FaultKinds, NoFault \/ Fault(k) PROVE FaultTypes'
BY DEF FaultTypes, NoFault, Fault

\* The end of a request keeps its types.
LEMMA Finished == ASSUME DelTypes, NEW d \in Deleters, Finish(d), UNCHANGED asked PROVE DelTypes'
BY DEF DelTypes, Finish

\* Every step keeps the types.
LEMMA TypeStep == ASSUME TypeOK, [Next]_vars PROVE TypeOK'
<1> USE DEF writerVars, storeVars
<1>0. StoreTypes /\ SweepTypes /\ DelTypes /\ FaultTypes
  BY DEF TypeOK, StoreTypes, SweepTypes, DelTypes, FaultTypes
<1>1. SUFFICES StoreTypes' /\ SweepTypes' /\ DelTypes' /\ FaultTypes'
  BY DEF TypeOK, StoreTypes, SweepTypes, DelTypes, FaultTypes
<1>k. \A k \in {"disk", "redis", "database", "crash"} : k \in FaultKinds
  BY DEF FaultKinds
<1>2. ASSUME NEW f \in Files, SaveRows(f) PROVE StoreTypes' /\ SweepTypes' /\ DelTypes' /\ FaultTypes'
  <2>1. StoreTypes' BY <1>0, <1>2 DEF SaveRows, StoreTypes, Ages
  <2>2. SweepTypes' BY <1>0, <1>2 DEF SaveRows, SweepTypes
  <2>3. DelTypes' BY <1>0, <1>2 DEF SaveRows, DelTypes
  <2>4. FaultTypes' BY <1>0, <1>2, <1>k, Spent DEF SaveRows, NoFault, FaultTypes
  <2> QED BY <2>1, <2>2, <2>3, <2>4
<1>3. ASSUME NEW f \in Files, LogExtraction(f) PROVE StoreTypes' /\ SweepTypes' /\ DelTypes' /\ FaultTypes'
  <2>1. StoreTypes' BY <1>0, <1>3 DEF LogExtraction, StoreTypes, Ages
  <2>2. SweepTypes' BY <1>0, <1>3 DEF LogExtraction, SweepTypes
  <2>3. DelTypes' BY <1>0, <1>3 DEF LogExtraction, DelTypes
  <2>4. FaultTypes' BY <1>0, <1>3, <1>k, Spent DEF LogExtraction, NoFault, FaultTypes
  <2> QED BY <2>1, <2>2, <2>3, <2>4
<1>4. ASSUME NEW f \in Files, WriterDies(f) PROVE StoreTypes' /\ SweepTypes' /\ DelTypes' /\ FaultTypes'
  <2>1. StoreTypes' BY <1>0, <1>4 DEF WriterDies, StoreTypes, Ages
  <2>2. SweepTypes' BY <1>0, <1>4 DEF WriterDies, SweepTypes
  <2>3. DelTypes' BY <1>0, <1>4 DEF WriterDies, DelTypes
  <2>4. FaultTypes' BY <1>0, <1>4, <1>k, Spent DEF WriterDies, NoFault, FaultTypes
  <2> QED BY <2>1, <2>2, <2>3, <2>4
<1>5. ASSUME NEW f \in Files, Settle(f) \/ Expire(f) \/ CacheExpires(f) PROVE StoreTypes' /\ SweepTypes' /\ DelTypes' /\ FaultTypes'
  <2>1. StoreTypes' BY <1>0, <1>5 DEF Settle, Expire, CacheExpires, StoreTypes, Ages
  <2>2. SweepTypes' BY <1>0, <1>5 DEF Settle, Expire, CacheExpires, SweepTypes
  <2>3. DelTypes' BY <1>0, <1>5 DEF Settle, Expire, CacheExpires, DelTypes
  <2>4. FaultTypes' BY <1>0, <1>5, <1>k, Spent DEF Settle, Expire, CacheExpires, NoFault, FaultTypes
  <2> QED BY <2>1, <2>2, <2>3, <2>4
<1>6. ASSUME NEW s \in Sweepers, StartSweep(s) \/ EndSweep(s) PROVE StoreTypes' /\ SweepTypes' /\ DelTypes' /\ FaultTypes'
  <2>1. StoreTypes' BY <1>0, <1>6 DEF StartSweep, EndSweep, StoreTypes, Ages
  <2>2. SweepTypes' BY <1>0, <1>6 DEF StartSweep, EndSweep, SweepTypes
  <2>3. DelTypes' BY <1>0, <1>6 DEF StartSweep, EndSweep, DelTypes
  <2>4. FaultTypes' BY <1>0, <1>6, <1>k, Spent DEF StartSweep, EndSweep, NoFault, FaultTypes
  <2> QED BY <2>1, <2>2, <2>3, <2>4
<1>7. ASSUME NEW s \in Sweepers, SweepDies(s) PROVE StoreTypes' /\ SweepTypes' /\ DelTypes' /\ FaultTypes'
  <2>1. StoreTypes' BY <1>0, <1>7 DEF SweepDies, StoreTypes, Ages
  <2>2. SweepTypes' BY <1>0, <1>7 DEF SweepDies, SweepTypes
  <2>3. DelTypes' BY <1>0, <1>7 DEF SweepDies, DelTypes
  <2>4. FaultTypes' BY <1>0, <1>7, <1>k, Spent DEF SweepDies, NoFault, FaultTypes
  <2> QED BY <2>1, <2>2, <2>3, <2>4
<1>8. ASSUME NEW s \in Sweepers, NEW f \in Files, SweepFile(s, f) PROVE StoreTypes' /\ SweepTypes' /\ DelTypes' /\ FaultTypes'
  <2>1. StoreTypes' BY <1>0, <1>8 DEF SweepFile, StoreTypes, Ages
  <2>2. SweepTypes' BY <1>0, <1>8 DEF SweepFile, SweepTypes
  <2>3. DelTypes' BY <1>0, <1>8 DEF SweepFile, DelTypes
  <2>4. FaultTypes' BY <1>0, <1>8, <1>k, Spent DEF SweepFile, NoFault, FaultTypes
  <2> QED BY <2>1, <2>2, <2>3, <2>4
<1>9. ASSUME NEW s \in Sweepers, FetchKnown(s) PROVE StoreTypes' /\ SweepTypes' /\ DelTypes' /\ FaultTypes'
  <2>1. StoreTypes' BY <1>0, <1>9 DEF FetchKnown, StoreTypes, Ages
  <2>2. SweepTypes' BY <1>0, <1>9 DEF FetchKnown, SweepTypes
  <2>3. DelTypes' BY <1>0, <1>9 DEF FetchKnown, DelTypes
  <2>4. FaultTypes' BY <1>0, <1>9, <1>k, Spent DEF FetchKnown, NoFault, FaultTypes
  <2> QED BY <2>1, <2>2, <2>3, <2>4
<1>10. ASSUME NEW d \in Deleters, DeleteHistory(d) \/ DeleteUser(d) PROVE StoreTypes' /\ SweepTypes' /\ DelTypes' /\ FaultTypes'
  <2>1. StoreTypes' BY <1>0, <1>10 DEF DeleteHistory, DeleteUser, Select, StoreTypes, Ages
  <2>2. SweepTypes' BY <1>0, <1>10 DEF DeleteHistory, DeleteUser, Select, SweepTypes
  <2>3. DelTypes' BY <1>0, <1>10 DEF DeleteHistory, DeleteUser, Select, DelTypes
  <2>4. FaultTypes' BY <1>0, <1>10, <1>k, Spent DEF DeleteHistory, DeleteUser, Select, NoFault, FaultTypes
  <2> QED BY <2>1, <2>2, <2>3, <2>4
<1>11. ASSUME NEW d \in Deleters, NEW f \in Files, DeleteRecord(d, f) PROVE StoreTypes' /\ SweepTypes' /\ DelTypes' /\ FaultTypes'
  <2>1. StoreTypes' BY <1>0, <1>11 DEF DeleteRecord, StoreTypes, Ages
  <2>2. SweepTypes' BY <1>0, <1>11 DEF DeleteRecord, SweepTypes
  <2>3. DelTypes' BY <1>0, <1>11 DEF DeleteRecord, DelTypes
  <2>4. FaultTypes' BY <1>0, <1>11, <1>k, Spent DEF DeleteRecord, NoFault, FaultTypes
  <2> QED BY <2>1, <2>2, <2>3, <2>4
<1>12. ASSUME NEW d \in Deleters, CommitHistory(d) PROVE StoreTypes' /\ SweepTypes' /\ DelTypes' /\ FaultTypes'
  <2>1. StoreTypes' BY <1>0, <1>12 DEF CommitHistory, StoreTypes, Ages
  <2>2. SweepTypes' BY <1>0, <1>12 DEF CommitHistory, SweepTypes
  <2>3. DelTypes' BY <1>0, <1>12, Finished DEF CommitHistory
  <2>4. FaultTypes' BY <1>0, <1>12, <1>k, Spent DEF CommitHistory, NoFault, FaultTypes
  <2> QED BY <2>1, <2>2, <2>3, <2>4
<1>13. ASSUME NEW d \in Deleters, CommitUser(d) PROVE StoreTypes' /\ SweepTypes' /\ DelTypes' /\ FaultTypes'
  <2>1. StoreTypes' BY <1>0, <1>13 DEF CommitUser, StoreTypes, Ages
  <2>2. SweepTypes' BY <1>0, <1>13 DEF CommitUser, SweepTypes
  <2>3. DelTypes' BY <1>0, <1>13, Finished DEF CommitUser
  <2>4. FaultTypes' BY <1>0, <1>13, <1>k, Spent DEF CommitUser, NoFault, FaultTypes
  <2> QED BY <2>1, <2>2, <2>3, <2>4
<1>14. ASSUME NEW d \in Deleters, DeleterDies(d) PROVE StoreTypes' /\ SweepTypes' /\ DelTypes' /\ FaultTypes'
  <2>1. StoreTypes' BY <1>0, <1>14 DEF DeleterDies, StoreTypes, Ages
  <2>2. SweepTypes' BY <1>0, <1>14 DEF DeleterDies, SweepTypes
  <2>3. DelTypes' BY <1>0, <1>14, Finished DEF DeleterDies
  <2>4. FaultTypes' BY <1>0, <1>14, <1>k, Spent DEF DeleterDies, NoFault, FaultTypes
  <2> QED BY <2>1, <2>2, <2>3, <2>4
<1>15. CASE UNCHANGED vars
  BY <1>0, <1>15 DEF vars, StoreTypes, SweepTypes, DelTypes, FaultTypes
<1> QED
  BY <1>2, <1>3, <1>4, <1>5, <1>6, <1>7, <1>8, <1>9, <1>10,
     <1>11, <1>12, <1>13, <1>14, <1>15
  DEF Next, Write, Sweep, Delete

\* TypeOK is invariant.
THEOREM TypeCorrect == Spec => []TypeOK
<1>1. Init => TypeOK
  BY FaultsAssumption DEF Init, TypeOK, Ages
<1> QED BY <1>1, TypeStep, PTL DEF Spec

-----------------------------------------------------------------------------
(* What the cleanup may rely on *)

\* An extraction that has a row, or a file older than an hour, has finished;
\* one that has written no file yet reports none.
Progress ==
  \A f \in Files :
    /\ row[f] \/ age[f] \in {"kept", "expired"} => writer[f] = "done"
    /\ writer[f] = "save" => ~path[f]

\* What a run of the cleanup is yet to delete stays expired, or unknown to the
\* history, until it comes to it: a finished extraction gets no row later.
Doomed ==
  \A s \in Sweepers : \A f \in sweep[s].todo :
    \/ sweep[s].pc = "expire" /\ age[f] = "expired"
    \/ sweep[s].pc = "orphans" /\ ~row[f] /\ writer[f] = "done"

\* Deletions visit what was asked for.
Wanted == \A d \in Deleters : del[d].left \subseteq asked

\* KeptWhileListed, from the moment the file is written.
Kept ==
  \A f \in Files :
    /\ row[f] \/ writer[f] = "log"
    /\ path[f] /\ age[f] # "expired" /\ f \notin asked
    => present[f]

KeptInv == Progress /\ Doomed /\ Wanted /\ Kept

\* The extraction and the passing of time keep KeptInv.
LEMMA KeptByWriter ==
  ASSUME TypeOK, KeptInv, NEW f \in Files,
         Write(f) \/ WriterDies(f) \/ Settle(f) \/ Expire(f) \/ CacheExpires(f)
  PROVE  KeptInv'
<1> USE DEF TypeOK, Ages, KeptInv, Fault, NoFault
<1>1. CASE SaveRows(f)
  <2>1. Progress' BY <1>1 DEF SaveRows, Progress
  <2>2. Doomed' BY <1>1 DEF SaveRows, Progress, Doomed
  <2>3. Wanted' BY <1>1 DEF SaveRows, Wanted
  <2>4. Kept' BY <1>1 DEF SaveRows, Progress, Kept
  <2> QED BY <2>1, <2>2, <2>3, <2>4
<1>2. CASE LogExtraction(f)
  <2>1. Progress' BY <1>2 DEF LogExtraction, Progress
  <2>2. Doomed' BY <1>2 DEF LogExtraction, Doomed
  <2>3. Wanted' BY <1>2 DEF LogExtraction, Wanted
  <2>4. Kept' BY <1>2 DEF LogExtraction, Kept
  <2> QED BY <2>1, <2>2, <2>3, <2>4
<1>3. CASE WriterDies(f)
  <2>1. Progress' BY <1>3 DEF WriterDies, Progress
  <2>2. Doomed' BY <1>3 DEF WriterDies, Doomed
  <2>3. Wanted' BY <1>3 DEF WriterDies, Wanted
  <2>4. Kept' BY <1>3 DEF WriterDies, Kept
  <2> QED BY <2>1, <2>2, <2>3, <2>4
<1>4. CASE Settle(f) \/ Expire(f)
  <2> USE DEF Settle, Expire, storeVars
  <2>1. Progress' BY <1>4 DEF Progress
  <2>2. Doomed' BY <1>4 DEF Doomed
  <2>3. Wanted' BY <1>4 DEF Wanted
  <2>4. Kept' BY <1>4 DEF Kept
  <2> QED BY <2>1, <2>2, <2>3, <2>4
<1>5. CASE CacheExpires(f)
  BY <1>5 DEF CacheExpires, writerVars, Progress, Doomed, Wanted, Kept
<1> QED BY <1>1, <1>2, <1>3, <1>4, <1>5 DEF Write

\* The cleanup keeps KeptInv: what it deletes is expired, or has no row and
\* will not get one.
LEMMA KeptBySweeper ==
  ASSUME TypeOK, KeptInv, NEW s \in Sweepers, Sweep(s) \/ SweepDies(s)
  PROVE  KeptInv'
<1> USE DEF TypeOK, KeptInv, Fault, NoFault, writerVars, storeVars
<1>1. Wanted'
  BY DEF Sweep, StartSweep, SweepFile, FetchKnown, EndSweep, SweepDies, Wanted
<1>2. Progress'
  BY DEF Sweep, StartSweep, SweepFile, FetchKnown, EndSweep, SweepDies, Progress
<1>3. CASE StartSweep(s) \/ EndSweep(s) \/ SweepDies(s)
  <2>1. Doomed' BY <1>3 DEF StartSweep, EndSweep, SweepDies, Doomed
  <2>2. Kept' BY <1>3 DEF StartSweep, EndSweep, SweepDies, Kept
  <2> QED BY <1>1, <1>2, <2>1, <2>2
<1>4. CASE FetchKnown(s)
  <2>1. Doomed' BY <1>4 DEF FetchKnown, Progress, Doomed
  <2>2. Kept' BY <1>4 DEF FetchKnown, Kept
  <2> QED BY <1>1, <1>2, <2>1, <2>2
<1>5. ASSUME NEW f \in Files, SweepFile(s, f) PROVE KeptInv'
  <2>1. Doomed' BY <1>5 DEF SweepFile, Doomed
  <2>2. age[f] = "expired" \/ (~row[f] /\ writer[f] = "done")
    BY <1>5 DEF SweepFile, Doomed
  <2>3. Kept' BY <1>5, <2>2 DEF SweepFile, Kept
  <2> QED BY <1>1, <1>2, <2>1, <2>3
<1> QED BY <1>3, <1>4, <1>5 DEF Sweep

\* Deletions keep KeptInv: they touch nothing that nobody asked to delete,
\* and never add a row.
LEMMA KeptByDeleter ==
  ASSUME TypeOK, KeptInv, NEW d \in Deleters,
         DeleteHistory(d) \/ DeleteUser(d) \/ Delete(d) \/ DeleterDies(d)
  PROVE  KeptInv'
<1> USE DEF TypeOK, KeptInv, Fault, NoFault, writerVars, storeVars, Finish
<1>1. CASE DeleteHistory(d) \/ DeleteUser(d)
  <2> USE DEF DeleteHistory, DeleteUser, Select
  <2>1. Progress' BY <1>1 DEF Progress
  <2>2. Doomed' BY <1>1 DEF Doomed
  <2>3. Wanted' BY <1>1 DEF Wanted
  <2>4. Kept' BY <1>1 DEF Kept
  <2> QED BY <2>1, <2>2, <2>3, <2>4
<1>2. ASSUME NEW f \in Files, DeleteRecord(d, f) PROVE KeptInv'
  <2>1. Progress' BY <1>2 DEF DeleteRecord, Progress
  <2>2. Doomed' BY <1>2 DEF DeleteRecord, Doomed
  <2>3. Wanted' BY <1>2 DEF DeleteRecord, Wanted
  <2>4. f \in asked BY <1>2 DEF DeleteRecord, Wanted
  <2>5. Kept' BY <1>2, <2>4 DEF DeleteRecord, Kept
  <2> QED BY <2>1, <2>2, <2>3, <2>5
<1>3. CASE CommitHistory(d) \/ CommitUser(d) \/ DeleterDies(d)
  <2> USE DEF CommitHistory, CommitUser, DeleterDies
  <2>1. Progress' BY <1>3 DEF Progress
  <2>2. Doomed' BY <1>3 DEF Doomed
  <2>3. Wanted' BY <1>3 DEF Wanted
  <2>4. Kept' BY <1>3 DEF Kept
  <2> QED BY <2>1, <2>2, <2>3, <2>4
<1> QED BY <1>1, <1>2, <1>3 DEF Delete

\* The cleanup deletes no file that the history names and nobody asked to
\* delete before its retention is over.
THEOREM ListedStaysKept == Spec => []KeptWhileListed
<1>1. Init => KeptInv
  BY DEF Init, KeptInv, Progress, Doomed, Wanted, Kept
<1>2. TypeOK /\ KeptInv /\ [Next]_vars => KeptInv'
  <2> SUFFICES ASSUME TypeOK, KeptInv, [Next]_vars PROVE KeptInv'
    OBVIOUS
  <2>1. CASE UNCHANGED vars
    BY <2>1 DEF vars, writerVars, storeVars, KeptInv, Progress, Doomed, Wanted, Kept
  <2> QED BY <2>1, KeptByWriter, KeptBySweeper, KeptByDeleter DEF Next
<1>3. KeptInv => KeptWhileListed
  BY DEF KeptInv, Kept, KeptWhileListed
<1> QED BY <1>1, <1>2, <1>3, TypeCorrect, PTL DEF Spec
=============================================================================
