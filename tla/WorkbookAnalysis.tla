-------------------------- MODULE WorkbookAnalysis --------------------------
(***************************************************************************)
(* From the sheets of a workbook to the sheets that are read: the role of  *)
(* each, continuations, sheets of another document, metadata, the document *)
(* number (analysis/sheet_analyzer.py, analysis/workbook_analyzer.py and   *)
(* the frame of extraction/unified_extractor.py).                          *)
(*                                                                         *)
(* A sheet is [hint, visible, filled, header, layout, cols, low, spir,     *)
(* keys]: what its name hints at, whether it is shown and has cells, a     *)
(* header row, where its tags are, the fields of its columns (and those    *)
(* found with the low threshold), the number printed on it (segments, <<>> *)
(* when there is none) and the other metadata found on it. A document is   *)
(* told by the first four segments. The value of a metadatum is the sheet  *)
(* it was found on. Confidences, which decide nothing, are left out.       *)
(***************************************************************************)
EXTENDS SheetHeaders

-----------------------------------------------------------------------------
(* One sheet *)

\* A spare list named annexure stays data; the low threshold is for sheets with nothing else.
Role(s) ==
  LET tagged == s.layout # "none"
      spares == s.layout = "column_headers" /\ "description" \in s.cols
  IN CASE s.hint = "utility" -> "utility"
       [] s.hint # "utility" /\ ~s.header /\ ~tagged -> IF s.filled THEN "unknown" ELSE "utility"
       [] s.hint # "utility" /\ ~s.header /\ tagged -> IF s.hint = "annexure" THEN "annexure" ELSE "data"
       [] s.hint # "utility" /\ s.header ->
            IF s.layout = "row_headers" THEN "annexure"
            ELSE IF tagged \/ s.cols # {}
            THEN IF s.hint = "annexure" /\ ~spares THEN "annexure" ELSE "data"
            ELSE IF s.low # {} THEN "data" ELSE "unknown"

\* Without a header row there are neither columns nor metadata.
AnalyzeSheet(s, n) ==
  LET read == s.header /\ s.hint # "utility"
      keys == IF ~read THEN {} ELSE s.keys \cup (IF s.spir # <<>> THEN {"spir_no"} ELSE {})
  IN [role   |-> Role(s),
      layout |-> IF s.hint = "utility" THEN "none" ELSE s.layout,
      cols   |-> IF ~read THEN {} ELSE IF s.cols = {} /\ s.layout = "none" THEN s.low ELSE s.cols,
      meta   |-> [k \in keys |-> n],
      parent |-> None]

Extractable(p) == p.role \in {"data", "continuation", "annexure"}

-----------------------------------------------------------------------------
(* Continuations, among the sheets that are data or unknown, in order *)

\* Common columns in a hundred of all the columns of both.
Overlap(a, b) ==
  IF a = {} \/ b = {} THEN 0 ELSE (100 * Cardinality(a \cap b)) \div Cardinality(a \cup b)

\* A name that says so is believed: the latest of the best earlier sheets, or the last one.
FindParent(sheet, earlier) ==
  LET open    == {j \in DOMAIN earlier : earlier[j].role # "continuation"}
      Of(j)   == Overlap(sheet.cols, earlier[j].cols)
      best    == {j \in open : Of(j) > 0 /\ \A k \in open : Of(k) <= Of(j)}
      data    == {j \in DOMAIN earlier : earlier[j].role \in {"data", "annexure"}}
  IN IF best # {} /\ (Of(Max(best)) >= 50 \/ Cardinality(DOMAIN earlier) = 1) THEN Max(best)
     ELSE IF data # {} THEN Max(data) ELSE None

\* Else the first earlier sheet of the same layout with seven columns in ten in common.
Lookalike(sheet, earlier) ==
  LET like == {j \in DOMAIN earlier :
                 /\ earlier[j].role \in {"data", "annexure"}
                 /\ Overlap(sheet.cols, earlier[j].cols) >= 70
                 /\ earlier[j].layout = sheet.layout /\ sheet.layout # "none"}
  IN IF like = {} THEN None ELSE Min(like)

\* What becomes of a sheet, given what became of the earlier ones.
Continued(hint, sheet, earlier) ==
  LET named  == IF hint = "continuation" THEN FindParent(sheet, earlier) ELSE None
      parent == IF named # None THEN named ELSE Lookalike(sheet, earlier)
  IN IF parent = None THEN sheet ELSE [sheet EXCEPT !.role = "continuation", !.parent = parent]

\* Sheets with tags over the columns are left to the extractor, which groups them itself.
DetectContinuations(sheets, profiles) ==
  LET data == {i \in DOMAIN profiles : profiles[i].role \in {"data", "unknown"}}
      done[i \in DOMAIN profiles] ==
        IF i \notin data \/ profiles[i].layout = "column_headers" THEN profiles[i]
        ELSE Continued(sheets[i].hint, profiles[i], [j \in {j \in data : j < i} |-> done[j]])
  IN IF Cardinality(data) < 2 THEN profiles ELSE done

-----------------------------------------------------------------------------
(* Other documents *)

SpirDiffers(a, b) ==
  LET n == Min({4, Len(a), Len(b)})
  IN SubSeq(a, 1, n) # SubSeq(b, 1, n)

\* A sheet whose number is not that of the file is not read, when the file has one.
Foreign(sheets, profiles, file) ==
  {i \in DOMAIN profiles : /\ file # <<>>
                           /\ "spir_no" \in DOMAIN profiles[i].meta
                           /\ SpirDiffers(sheets[i].spir, file)}

ExcludeForeign(sheets, profiles, file) ==
  [i \in DOMAIN profiles |-> IF i \in Foreign(sheets, profiles, file)
                             THEN [profiles[i] EXCEPT !.role = "utility"] ELSE profiles[i]]

\* The first of the richest sheets that are read fills the gaps of the others.
PropagateMetadata(profiles) ==
  LET Size(i) == Cardinality(DOMAIN profiles[i].meta)
      read == {i \in DOMAIN profiles : Extractable(profiles[i])}
      rich == {i \in read : Size(i) > 0 /\ \A j \in read : Size(j) <= Size(i)}
      Fill(mine, best) == [k \in DOMAIN mine \cup DOMAIN best |->
                             IF k \in DOMAIN mine THEN mine[k] ELSE best[k]]
  IN IF rich = {} THEN profiles
     ELSE [i \in DOMAIN profiles |->
             IF i \in read THEN [profiles[i] EXCEPT !.meta = Fill(@, profiles[Min(rich)].meta)]
             ELSE profiles[i]]

\* Mutant: metadata spreads before the sheets of other documents are taken out.
AnalyzeWorkbookLate(sheets, file) ==
  LET first == [i \in DOMAIN sheets |-> AnalyzeSheet(sheets[i], i)]
  IN ExcludeForeign(sheets, PropagateMetadata(DetectContinuations(sheets, first)), file)

\* Hidden sheets are no part of it: give this only the ones that are shown.
AnalyzeWorkbook(sheets, file) ==
  LET first == [i \in DOMAIN sheets |-> AnalyzeSheet(sheets[i], i)]
      roles == ExcludeForeign(sheets, DetectContinuations(sheets, first), file)
  IN PropagateMetadata(roles)

\* The ones that are shown, in the order of the workbook.
Shown(book) ==
  LET shown[n \in 0..Len(book)] ==
        IF n = 0 THEN <<>>
        ELSE IF book[n].visible THEN Append(shown[n - 1], book[n]) ELSE shown[n - 1]
  IN shown[Len(book)]

-----------------------------------------------------------------------------
(* What the extractor takes from the profiles *)

\* Sheets with tags over the columns first, as a group; then the others one by one. Lists
\* of tags are only looked up.
Columnar(profiles) == {i \in DOMAIN profiles : Extractable(profiles[i])
                         /\ profiles[i].layout = "column_headers" /\ profiles[i].role # "annexure"}
Others(profiles)   == {i \in DOMAIN profiles : Extractable(profiles[i])
                         /\ profiles[i].layout # "column_headers" /\ profiles[i].role # "annexure"}

Strategy(p) ==
  CASE p.layout = "row_headers" -> "transposed"
    [] p.layout \in {"tag_column", "global_tag"} -> "tabular"
    [] p.layout = "none" /\ p.cols # {} -> "tabular"
    [] OTHER -> "none"

\* The number is taken from the first sheet that has one, read or not, then from the name of
\* the file; the revision from that sheet, then from any other, then from the name.
ResolveSpirNo(profiles, file) ==
  LET with == {i \in DOMAIN profiles : "spir_no" \in DOMAIN profiles[i].meta}
      revised == {i \in DOMAIN profiles : "revision" \in DOMAIN profiles[i].meta}
      own  == IF with # {} /\ Min(with) \in revised THEN {Min(with)} ELSE revised
  IN [sheet    |-> IF with # {} THEN profiles[Min(with)].meta["spir_no"] ELSE None,
      revision |-> IF with # {} /\ own # {} THEN profiles[Min(own)].meta["revision"] ELSE None]

\* The value of a key for the workbook: the first sheet that is read and has it. The supplier
\* for the vendor columns is the first of all sheets.
CollectMetadata(profiles, key) ==
  LET has == {i \in DOMAIN profiles : Extractable(profiles[i]) /\ key \in DOMAIN profiles[i].meta}
  IN IF has = {} THEN None ELSE profiles[Min(has)].meta[key]

VendorSupplier(profiles) ==
  LET has == {i \in DOMAIN profiles : "supplier" \in DOMAIN profiles[i].meta}
  IN IF has = {} THEN None ELSE profiles[Min(has)].meta["supplier"]

-----------------------------------------------------------------------------
(***************************************************************************)
(* What the analysis promises                                              *)
(***************************************************************************)

\* Sheets of another document: those with a number that is not the file's.
Strangers(sheets, file) ==
  {i \in DOMAIN sheets : /\ file # <<>> /\ sheets[i].spir # <<>> /\ SpirDiffers(sheets[i].spir, file)
                         /\ sheets[i].header /\ sheets[i].hint # "utility"}

\* Metadata of a stranger reaches no sheet that is read, nor the workbook, and a sheet keeps
\* what was found on itself.
MetadataIsOwn(sheets, file) ==
  LET profiles == AnalyzeWorkbook(sheets, file)
  IN \A i \in DOMAIN profiles : Extractable(profiles[i]) =>
       /\ i \notin Strangers(sheets, file)
       /\ \A k \in DOMAIN profiles[i].meta :
            /\ profiles[i].meta[k] \notin Strangers(sheets, file)
            /\ k \in sheets[i].keys /\ sheets[i].header => profiles[i].meta[k] = i
            /\ CollectMetadata(profiles, k) \notin Strangers(sheets, file) \cup {None}

\* A continuation leads to an earlier sheet that continues nothing itself, and that has its
\* layout unless the name of the sheet says that it continues. What it leads to may be a sheet of
\* another document, which is taken out only after continuations were found: a sheet without a
\* number is then read as the continuation of one that is not. No other sheet that is continued
\* is taken out, and every data sheet is read in exactly one way.
ContinuationsRooted(sheets, file) ==
  LET profiles == AnalyzeWorkbook(sheets, file)
  IN /\ \A i \in DOMAIN profiles : profiles[i].role = "continuation" =>
          LET p == profiles[i].parent
          IN /\ p \in 1..(i - 1) /\ profiles[p].role # "continuation"
             /\ profiles[p].role = "utility" => p \in Strangers(sheets, file)
             /\ sheets[i].hint = "continuation" \/ profiles[i].layout = profiles[p].layout
     /\ Columnar(profiles) \cap Others(profiles) = {}
     /\ \A i \in DOMAIN profiles : profiles[i].role = "data" =>
          i \in Columnar(profiles) \/ Strategy(profiles[i]) # "none"
=============================================================================
