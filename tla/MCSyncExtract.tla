---------------------------- MODULE MCSyncExtract ----------------------------
(* Instances of SyncExtract for TLC: an API with one permit and one worker. *)
EXTENDS SyncExtract, TLC

CONSTANTS r1, r2, big, api, worker

Processes == [r \in {r1, r2, big} |-> IF r = big THEN worker ELSE api]
Currencies == [r \in {r1, r2, big} |-> IF r = r2 THEN {2} ELSE IF r = r1 THEN {1} ELSE {1}]
=============================================================================
