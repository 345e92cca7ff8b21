-------------------------- MODULE MCExtractedRows --------------------------
(* A small instance of ExtractedRows for TLC. *)
EXTENDS ExtractedRows

\* Every kind of fault, some of them twice.
SomeFaults == [k \in FaultKinds |-> IF k \in {"disk", "database"} THEN 2 ELSE 1]
=============================================================================
