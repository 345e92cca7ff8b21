--------------------------- MODULE PartArithmetic ---------------------------
(***************************************************************************)
(* How a file is cut into the parts of a multipart upload: by the browser, *)
(* which slices it (lib/direct-upload.ts), and by the API, which computes  *)
(* what each part must hold (services/direct_upload.py). What the storage  *)
(* holds is a function from part numbers to sizes in bytes.                *)
(***************************************************************************)
EXTENDS Integers

CONSTANT MaxParts   \* MAX_PARTS

ASSUME MaxPartsAssumption == MaxParts \in Nat \ {0}

\* part_count, -(-size // part_size).
PartCount(size, part) == -((-size) \div part)
Splits(size, part) == size > 0 /\ part > 0 /\ PartCount(size, part) <= MaxParts
PartNumbers(size, part) == 1 .. PartCount(size, part)

\* Mutant: full parts and a rest, which a file of whole parts does not have.
RestPartSize(size, part, i) == IF i < PartCount(size, part) THEN part ELSE size % part

ExpectedPartSize(size, part, i) ==
  IF i < PartCount(size, part) THEN part ELSE size - part * (PartCount(size, part) - 1)

\* verify_parts: what is missing, and what has the wrong size or should not be there.
Missing(held, size, part) == PartNumbers(size, part) \ DOMAIN held
Wrong(held, size, part) ==
  {i \in DOMAIN held : i \notin PartNumbers(size, part) \/ held[i] # ExpectedPartSize(size, part, i)}
Complete(held, size, part) == Missing(held, size, part) = {} /\ Wrong(held, size, part) = {}

\* The browser slices the file ...
SliceStart(part, i) == (i - 1) * part
SliceEnd(size, part, i) == IF SliceStart(part, i) + part < size THEN SliceStart(part, i) + part ELSE size
SliceSize(size, part, i) == SliceEnd(size, part, i) - SliceStart(part, i)

\* ... and puts the parts the API calls missing or wrong once more.
Redone(held, size, part) ==
  LET redo == Missing(held, size, part) \cup Wrong(held, size, part) IN
  [i \in DOMAIN held \cup redo |-> IF i \in redo THEN SliceSize(size, part, i) ELSE held[i]]

-----------------------------------------------------------------------------
(* Properties *)

\* The slices follow one another from the first to the last byte, none empty, none larger
\* than a part, all full but the last, and each has the size the API expects.
SlicesCoverFile(size, part) ==
  LET n == PartCount(size, part) IN
  /\ n > 0 /\ SliceStart(part, 1) = 0 /\ SliceEnd(size, part, n) = size
  /\ \A i \in PartNumbers(size, part) :
       /\ SliceSize(size, part, i) = ExpectedPartSize(size, part, i)
       /\ SliceSize(size, part, i) \in 1 .. part
       /\ i < n => SliceSize(size, part, i) = part /\ SliceStart(part, i + 1) = SliceEnd(size, part, i)

\* What the API takes for complete is the slices of the file and nothing else.
CompleteIsWhole(held, size, part) ==
  Complete(held, size, part) =>
    /\ DOMAIN held = PartNumbers(size, part)
    /\ \A i \in DOMAIN held : held[i] = SliceSize(size, part, i)

\* One more round completes whatever a round left behind.
RedoCompletes(held, size, part) ==
  DOMAIN held \subseteq PartNumbers(size, part) => Complete(Redone(held, size, part), size, part)

=============================================================================
