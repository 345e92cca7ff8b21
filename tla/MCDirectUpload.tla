--------------------------- MODULE MCDirectUpload ---------------------------
(* Small instances of DirectUpload for TLC. *)
EXTENDS DirectUpload, TLC

\* How many requests of each operation a run sends.
Calls(i, c, a, b) ==
  [op \in Operations |-> CASE op = "initiate" -> i [] op = "complete" -> c
                           [] op = "abort" -> a    [] op = "batch" -> b]
RaceCalls      == Calls(2, 2, 1, 0)
AbandonCalls   == Calls(2, 1, 1, 1)
AnyCalls       == Calls(1, 2, 1, 1)
HolderCalls    == Calls(1, 1, 1, 0)

\* The faults a run allows, once each; clients that do not wait are in all of them.
Once(kinds) == [k \in FaultKinds |-> IF k \in kinds \cup {"overlap"} THEN 1 ELSE 0]
NoFaults        == Once({})
StorageFaults   == Once({"storage"})
RaceFaults      == Once({"broker", "mismatch"})
AnyFaults       == Once(FaultKinds)

Symmetry == Permutations(Requests) \cup Permutations(Uploads)
=============================================================================
