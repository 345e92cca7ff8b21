----------------------------- MODULE FileVerdict -----------------------------
(***************************************************************************)
(* What the task promises about one file: a bounded number of attempts, of *)
(* which one may deliver the verdict the upload deserves. A verdict is     *)
(* given once. How attempts are queued, retried and carried out is left to *)
(* ExtractionTask, which implements this.                                  *)
(***************************************************************************)
EXTENDS Naturals

CONSTANTS Files, Cap

VARIABLES
  state,    \* per file: what its owner is told
  tries,    \* per file: attempts admitted
  upload    \* what was uploaded

vars == <<state, tries, upload>>

Init ==
  /\ state = [f \in Files |-> "pending"]
  /\ tries = [f \in Files |-> 0]
  /\ upload \in [Files -> {"good", "rejected", "noplant"}]

Open(f) == state[f] \in {"pending", "running"}
Tell(f, verdict) == state' = [state EXCEPT ![f] = verdict] /\ UNCHANGED <<tries, upload>>

\* One more attempt; a file without a plant gets none.
Admit(f) ==
  /\ Open(f) /\ upload[f] # "noplant" /\ tries[f] < Cap
  /\ tries' = [tries EXCEPT ![f] = @ + 1]
  /\ UNCHANGED <<state, upload>>

Start(f) == state[f] = "pending" /\ tries[f] > 0 /\ Tell(f, "running")

\* Only an attempt at a good workbook ends in ok ...
Accept(f) == state[f] = "running" /\ upload[f] = "good" /\ Tell(f, "ok")

\* ... and only a bad one ends in an error while there are attempts left.
Refuse(f) ==
  /\ Open(f)
  /\ upload[f] # "good" \/ tries[f] = Cap
  /\ Tell(f, "error")

Next == \E f \in Files : Admit(f) \/ Start(f) \/ Accept(f) \/ Refuse(f)

Spec == Init /\ [][Next]_vars

=============================================================================
