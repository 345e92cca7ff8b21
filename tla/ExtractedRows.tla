--------------------------- MODULE ExtractedRows ---------------------------
(***************************************************************************)
(* What is kept of finished extractions, and the four parties that change  *)
(* it without knowing of one another:                                      *)
(*   - the extraction writes the rows as a JSON file and then a history    *)
(*     row in the database that names the file,                            *)
(*   - a user deletes entries of the history, with their files,            *)
(*   - an administrator deletes the user for good,                         *)
(*   - the nightly cleanup deletes expired files and files of which the    *)
(*     history knows nothing.                                              *)
(* Files, database and Redis have no common transaction: every access is a *)
(* step of its own, and any of them may fail.                              *)
(***************************************************************************)
EXTENDS Naturals

CONSTANTS
  Files,       \* file_ids, one per extraction
  Sweepers,    \* runs of the cleanup that may overlap
  Deleters,    \* requests that delete from the history
  MaxFaults    \* how often each kind of fault may strike

FaultKinds == {"disk", "redis", "database", "crash"}

ASSUME FaultsAssumption == MaxFaults \in [FaultKinds -> Nat]

\* Age of a file by its modification time: not written yet, within the last
\* hour, within the retention period, or beyond it.
Ages == {"new", "recent", "kept", "expired"}

VARIABLES
  writer,   \* per extraction: what it does next
  present,  \* per file: it is on disk
  age,      \* per file: its age, by the time it was written
  path,     \* per extraction: the json_path it reports to the history
  row,      \* per extraction: the history has a row for it
  cached,   \* per extraction: Redis keeps its workbook or its rows
  user,     \* the user whose extractions these are
  sweep,    \* per cleanup run: its phase and the files it is yet to delete
  del,      \* per delete request: its place, records and those yet to visit
  asked,    \* extractions somebody has asked to delete
  faults    \* faults of each kind that may still strike

writerVars == <<writer, age, path>>
storeVars == <<present, row, cached, user>>
vars == <<writer, present, age, path, row, cached, user, sweep, del, asked, faults>>

TypeOK ==
  /\ writer \in [Files -> {"save", "log", "done"}]
  /\ present \in [Files -> BOOLEAN]
  /\ age \in [Files -> Ages]
  /\ path \in [Files -> BOOLEAN]
  /\ row \in [Files -> BOOLEAN]
  /\ cached \in [Files -> BOOLEAN]
  /\ user \in {"active", "gone"}
  /\ sweep \in [Sweepers -> [pc : {"idle", "expire", "orphans"}, todo : SUBSET Files]]
  /\ del \in [Deleters -> [pc : {"idle", "history", "user"},
                           records : SUBSET Files, left : SUBSET Files]]
  /\ asked \subseteq Files
  /\ faults \in [FaultKinds -> Nat]

\* The pipeline has returned: its workbook is in Redis, nothing else is done.
Init ==
  /\ writer = [f \in Files |-> "save"]
  /\ present = [f \in Files |-> FALSE]
  /\ age = [f \in Files |-> "new"]
  /\ path = [f \in Files |-> FALSE]
  /\ row = [f \in Files |-> FALSE]
  /\ cached = [f \in Files |-> TRUE]
  /\ user = "active"
  /\ sweep = [s \in Sweepers |-> [pc |-> "idle", todo |-> {}]]
  /\ del = [d \in Deleters |-> [pc |-> "idle", records |-> {}, left |-> {}]]
  /\ asked = {}
  /\ faults = MaxFaults

Fault(k) ==
  /\ faults[k] > 0
  /\ faults' = [faults EXCEPT ![k] = @ - 1]

NoFault == UNCHANGED faults

\* A delete request ends.
Finish(d) == del' = [del EXCEPT ![d] = [pc |-> "idle", records |-> {}, left |-> {}]]

-----------------------------------------------------------------------------
(* Mutants: plausible slips of the code, each of which breaks a property.   *)

\* Looks for orphans among files of any age.
FetchKnownUnguarded(s) ==
  /\ sweep[s].pc = "expire" /\ sweep[s].todo = {}
  /\ sweep' = [sweep EXCEPT ![s] =
       [pc |-> "orphans", todo |-> {f \in Files : present[f] /\ ~row[f]}]]
  /\ NoFault
  /\ UNCHANGED <<writerVars, storeVars, del, asked>>

\* Takes deleted records for known, as a soft delete would.
FetchKnownEver(s) ==
  /\ sweep[s].pc = "expire" /\ sweep[s].todo = {}
  /\ sweep' = [sweep EXCEPT ![s] =
       [pc |-> "orphans",
        todo |-> {f \in Files : present[f] /\ age[f] \in {"kept", "expired"}
                                           /\ ~row[f] /\ f \notin asked}]]
  /\ NoFault
  /\ UNCHANGED <<writerVars, storeVars, del, asked>>

\* Deletes only the rows it had loaded before.
CommitUserLoaded(d) ==
  /\ del[d].pc = "user" /\ del[d].left = {}
  /\ user' = "gone"
  /\ row' = [f \in Files |-> row[f] /\ f \notin del[d].records]
  /\ Finish(d)
  /\ NoFault
  /\ UNCHANGED <<writerVars, present, cached, sweep, asked>>

\* Deactivates the user, as DELETE /api/admin/users/{user_id} does.
CommitUserSoft(d) ==
  /\ del[d].pc = "user" /\ del[d].left = {}
  /\ \/ user' = "inactive" /\ row' = [f \in Files |-> FALSE] /\ NoFault
     \/ UNCHANGED <<user, row>> /\ Fault("database")
  /\ Finish(d)
  /\ UNCHANGED <<writerVars, present, cached, sweep, asked>>

-----------------------------------------------------------------------------
(* The extraction *)

\* Writes the rows to disk.  A failure is logged, the row will name no file,
\* and what was written of the file so far stays.
SaveRows(f) ==
  /\ writer[f] = "save"
  /\ writer' = [writer EXCEPT ![f] = "log"]
  /\ \/ /\ present' = [present EXCEPT ![f] = TRUE]
        /\ path' = [path EXCEPT ![f] = TRUE]
        /\ NoFault
     \/ /\ present' \in {present, [present EXCEPT ![f] = TRUE]}
        /\ UNCHANGED path
        /\ Fault("disk")
  /\ age' = [age EXCEPT ![f] = "recent"]
  /\ UNCHANGED <<row, cached, user, sweep, del, asked>>

\* Inserts the history row; a failure is logged.  The foreign key refuses the
\* row of a user who is gone.
LogExtraction(f) ==
  /\ writer[f] = "log"
  /\ writer' = [writer EXCEPT ![f] = "done"]
  /\ \/ row' = [row EXCEPT ![f] = (user = "active")] /\ NoFault
     \/ UNCHANGED row /\ Fault("database")
  /\ UNCHANGED <<present, age, path, cached, user, sweep, del, asked>>

\* The process dies; a redelivered message is another extraction.
WriterDies(f) ==
  /\ writer[f] # "done"
  /\ writer' = [writer EXCEPT ![f] = "done"]
  /\ Fault("crash")
  /\ UNCHANGED <<present, age, path, row, cached, user, sweep, del, asked>>

Write(f) == SaveRows(f) \/ LogExtraction(f)

-----------------------------------------------------------------------------
(* Time *)

\* An hour passes since a file was written.  An extraction that has written
\* its file finishes, or is killed, sooner: the longest hard time limit is
\* 2160 s.
Settle(f) ==
  /\ present[f] /\ age[f] = "recent" /\ writer[f] = "done"
  /\ age' = [age EXCEPT ![f] = "kept"]
  /\ UNCHANGED <<writer, path, storeVars, sweep, del, asked, faults>>

\* The retention period passes.
Expire(f) ==
  /\ present[f] /\ age[f] = "kept"
  /\ age' = [age EXCEPT ![f] = "expired"]
  /\ UNCHANGED <<writer, path, storeVars, sweep, del, asked, faults>>

\* The TTL of the Redis keys passes.
CacheExpires(f) ==
  /\ cached[f] /\ writer[f] = "done"
  /\ cached' = [cached EXCEPT ![f] = FALSE]
  /\ UNCHANGED <<writerVars, present, row, user, sweep, del, asked, faults>>

-----------------------------------------------------------------------------
(* The cleanup *)

\* Phase 1 looks for files beyond the retention period.  The modification
\* time is compared with limits computed when the phase starts.
StartSweep(s) ==
  /\ sweep[s].pc = "idle"
  /\ sweep' = [sweep EXCEPT ![s] =
       [pc |-> "expire", todo |-> {f \in Files : present[f] /\ age[f] = "expired"}]]
  /\ UNCHANGED <<writerVars, storeVars, del, asked, faults>>

\* Deletes one file of the phase, or fails to and goes on.
SweepFile(s, f) ==
  /\ f \in sweep[s].todo
  /\ sweep' = [sweep EXCEPT ![s].todo = @ \ {f}]
  /\ \/ present' = [present EXCEPT ![f] = FALSE] /\ NoFault
     \/ UNCHANGED present /\ Fault("disk")
  /\ UNCHANGED <<writerVars, row, cached, user, del, asked>>

\* Phase 2 reads the file_ids of the whole history and then looks for files
\* of none of them.  Files written less than an hour before are left alone.
FetchKnown(s) ==
  /\ sweep[s].pc = "expire" /\ sweep[s].todo = {}
  /\ \/ /\ sweep' = [sweep EXCEPT ![s] =
             [pc |-> "orphans",
              todo |-> {f \in Files : present[f] /\ age[f] \in {"kept", "expired"}
                                                 /\ ~row[f]}]]
        /\ NoFault
     \/ /\ sweep' = [sweep EXCEPT ![s].pc = "idle"]
        /\ Fault("database")
  /\ UNCHANGED <<writerVars, storeVars, del, asked>>

EndSweep(s) ==
  /\ sweep[s].pc = "orphans" /\ sweep[s].todo = {}
  /\ sweep' = [sweep EXCEPT ![s].pc = "idle"]
  /\ UNCHANGED <<writerVars, storeVars, del, asked, faults>>

\* The worker running the cleanup dies.  Its message was acknowledged when it
\* started, so the next run is tomorrow's.
SweepDies(s) ==
  /\ sweep[s].pc # "idle"
  /\ sweep' = [sweep EXCEPT ![s] = [pc |-> "idle", todo |-> {}]]
  /\ Fault("crash")
  /\ UNCHANGED <<writerVars, storeVars, del, asked>>

Sweep(s) ==
  \/ StartSweep(s)
  \/ \E f \in Files : SweepFile(s, f)
  \/ FetchKnown(s)
  \/ EndSweep(s)

-----------------------------------------------------------------------------
(* Deletion of history entries, and of a user with all data *)

Select(d, pc, records) ==
  /\ del[d].pc = "idle"
  /\ del' = [del EXCEPT ![d] = [pc |-> pc, records |-> records, left |-> records]]
  /\ asked' = asked \cup records
  /\ UNCHANGED <<writerVars, storeVars, sweep, faults>>

\* DELETE /api/history loads the records it was given.
DeleteHistory(d) ==
  \E records \in SUBSET {f \in Files : row[f]} \ {{}} : Select(d, "history", records)

\* DELETE /api/admin/users/{user_id}/permanent loads the user's records.
DeleteUser(d) == user = "active" /\ Select(d, "user", {f \in Files : row[f]})

\* Deletes the file a record names and its keys in Redis; either may fail.
DeleteRecord(d, f) ==
  /\ f \in del[d].left
  /\ del' = [del EXCEPT ![d].left = @ \ {f}]
  /\ LET gone == IF path[f] THEN [present EXCEPT ![f] = FALSE] ELSE present
         uncached == [cached EXCEPT ![f] = FALSE]
     IN \/ present' = gone    /\ cached' = uncached    /\ NoFault
        \/ UNCHANGED present  /\ cached' = uncached    /\ Fault("disk")
        \/ present' = gone    /\ UNCHANGED cached      /\ Fault("redis")
  /\ UNCHANGED <<writerVars, row, user, sweep, asked>>

\* Commits the deletion of the records, or rolls it back.
CommitHistory(d) ==
  /\ del[d].pc = "history" /\ del[d].left = {}
  /\ \/ row' = [f \in Files |-> row[f] /\ f \notin del[d].records] /\ NoFault
     \/ UNCHANGED row /\ Fault("database")
  /\ Finish(d)
  /\ UNCHANGED <<writerVars, present, cached, user, sweep, asked>>

\* Commits the deletion of the user, which the database cascades to every row
\* of the history, also to those inserted since the records were loaded.
CommitUser(d) ==
  /\ del[d].pc = "user" /\ del[d].left = {}
  /\ \/ user' = "gone" /\ row' = [f \in Files |-> FALSE] /\ NoFault
     \/ UNCHANGED <<user, row>> /\ Fault("database")
  /\ Finish(d)
  /\ UNCHANGED <<writerVars, present, cached, sweep, asked>>

DeleterDies(d) ==
  /\ del[d].pc # "idle"
  /\ Finish(d)
  /\ Fault("crash")
  /\ UNCHANGED <<writerVars, storeVars, sweep, asked>>

Delete(d) ==
  \/ \E f \in Files : DeleteRecord(d, f)
  \/ CommitHistory(d)
  \/ CommitUser(d)

-----------------------------------------------------------------------------

Next ==
  \/ \E f \in Files : Write(f) \/ WriterDies(f) \/ Settle(f) \/ Expire(f) \/ CacheExpires(f)
  \/ \E s \in Sweepers : Sweep(s) \/ SweepDies(s)
  \/ \E d \in Deleters : DeleteHistory(d) \/ DeleteUser(d) \/ Delete(d) \/ DeleterDies(d)

Spec == Init /\ [][Next]_vars

\* Extractions and requests that have begun go on, time passes an hour at
\* least, and the cleanup comes every night.  Nothing has to expire, and
\* nobody has to delete anything.
Fairness ==
  /\ \A f \in Files : WF_vars(Write(f)) /\ WF_vars(Settle(f)) /\ WF_vars(CacheExpires(f))
  /\ \A s \in Sweepers : WF_vars(Sweep(s))
  /\ \A d \in Deleters : WF_vars(Delete(d))

FairSpec == Spec /\ Fairness

-----------------------------------------------------------------------------
(* Properties *)

\* Whatever the history offers for combining is on disk: the cleanup deletes
\* no file that a row names before its retention is over, although it reads
\* the history first and deletes later; only who asked for it loses one.
KeptWhileListed ==
  \A f \in Files :
    row[f] /\ path[f] /\ age[f] # "expired" /\ f \notin asked => present[f]

\* A file that the history does not know, whether its extraction died before
\* the row, the row was refused or a deletion left it behind, is reclaimed
\* without waiting for its retention to end.
OrphansReclaimed ==
  \A f \in Files :
    present[f] /\ ~row[f] /\ writer[f] = "done" ~> ~present[f]

\* Of a deleted user nothing remains, not even of extractions that were still
\* running when the user was deleted.
UserForgotten ==
  user = "gone" ~> \A f \in Files : ~present[f] /\ ~row[f] /\ ~cached[f]

=============================================================================
