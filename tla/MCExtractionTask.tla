-------------------------- MODULE MCExtractionTask --------------------------
(* Values for the constants of ExtractionTask. *)
EXTENDS ExtractionTask, TLC

CONSTANTS w1, w2

\* Hard limits of the normal and the heavy queue.
NormalLimit == [f \in Files |-> 360]
HeavyLimit == [f \in Files |-> 1080]

NoFaults == [k \in FaultKinds |-> 0]

RetryFaults == [NoFaults EXCEPT !["transient"] = 3, !["storage"] = 1, !["persist"] = 1]
ExhaustFaults == [NoFaults EXCEPT !["transient"] = 4]
CrashFaults == [NoFaults EXCEPT !["transient"] = 3, !["crash"] = 6]
OneCrash == [NoFaults EXCEPT !["crash"] = 1]
AnyFaults == [k \in FaultKinds |-> IF k \in {"storage", "persist"} THEN 0 ELSE 1]

WorkerSymmetry == Permutations(Workers)

=============================================================================
