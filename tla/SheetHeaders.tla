---------------------------- MODULE SheetHeaders ----------------------------
(***************************************************************************)
(* What the head of a sheet says: the header row, which column holds which *)
(* field, the labelled values, the type of the document, the last row      *)
(* (analysis/header_detector.py, analysis/column_mapper.py).               *)
(*                                                                         *)
(* A row is a sequence of cells: "blank", "text", "key" (holds a header    *)
(* keyword), "crit" (one of the decisive ones), "item" (ITEM NUMBER),      *)
(* "rare" (a keyword of the built-in list only), "word" (one of the        *)
(* configured list only, config/keywords.yaml), "site" (belongs to the     *)
(* block of dates and authorities).                                        *)
(***************************************************************************)
EXTENDS Integers, SequencesExt

None == 0

Cells(row, kinds) == {c \in DOMAIN row : row[c] \in kinds}
Keys(row) == Cells(row, {"key", "crit", "item", "rare"})
Words(row) == Cells(row, {"key", "crit", "item", "word"})
Crits(row) == Cells(row, {"crit", "item"})
HasItem(row) == Cells(row, {"item"}) # {}
Width(set) == IF set = {} THEN 0 ELSE Max(set) - Min(set)

-----------------------------------------------------------------------------
(* The header row *)

Accepted(row) ==
  LET k == Cardinality(Keys(row))  c == Cardinality(Crits(row))
  IN /\ k >= 2 /\ ~(Width(Keys(row)) < 3 /\ k < 4)
     /\ \/ c >= 2 /\ k >= 3
        \/ c >= 1 /\ k >= 4
        \/ HasItem(row) /\ c >= 1
     /\ HasItem(row) \/ Cells(row, {"site"}) = {}

\* Ten times the weighted score.
Score(row) ==
  200 * Cardinality(Keys(row)) + 100 * Cardinality(Crits(row)) + 20 * Width(Keys(row))
  + 2 * Min({Cardinality(DOMAIN row \ Cells(row, {"blank"})), 30})
  + (IF HasItem(row) THEN 1000 ELSE 0)

\* scan_rows: a header below row 30 is not looked for.
Scanned(rows) == {n \in DOMAIN rows : n <= 30}

\* Mutant: the first acceptable row is taken.
FindHeaderRowFirst(rows) ==
  LET full == {n \in Scanned(rows) : Accepted(rows[n])}
  IN IF full = {} THEN None ELSE Min(full)

\* The best accepted row; else the first with the item number and another keyword; else the
\* one with most keywords of the configured list. The first of equals.
FindHeaderRow(rows) ==
  LET full   == {n \in Scanned(rows) : Accepted(rows[n])}
      best   == {n \in full : \A m \in full : Score(rows[m]) <= Score(rows[n])}
      sparse == {n \in Scanned(rows) : HasItem(rows[n]) /\ Cardinality(Keys(rows[n])) >= 2}
      most   == {n \in Scanned(rows) : /\ Cardinality(Words(rows[n])) >= 2
                   /\ \A m \in Scanned(rows) :
                        Cardinality(Words(rows[m])) <= Cardinality(Words(rows[n]))}
  IN IF best # {} THEN Min(best)
     ELSE IF sparse # {} THEN Min(sparse)
     ELSE IF most # {} THEN Min(most) ELSE None

\* The rows that count as the header: the one above when it names items or descriptions,
\* and those up to three below, with at most one other row between two of them. A row is
\* [header, core, scores]; scores: how well each column's text fits each field, 0 to 100.
HeaderRows(rows, h) ==
  LET Broken(n) == \E m \in (h + 1)..(n - 2) : ~rows[m].header /\ ~rows[m + 1].header
  IN {h} \cup {n \in {h - 1} \cap DOMAIN rows : rows[n].header /\ rows[n].core}
         \cup {n \in (h + 1)..(h + 3) \cap DOMAIN rows : rows[n].header /\ ~Broken(n)}

-----------------------------------------------------------------------------
(* Columns. A column is [samples, numeric, whole, alpha, reject, prefers]: the sampled cells *)
(* and how many of a hundred are numbers, whole numbers, text; reject: it is to be signed;   *)
(* prefers: the field of "manufacturer model" or "manufacturer serial", or "".               *)

NumericFields == {"quantity", "unit_price"}

Fits(field, col) ==
  /\ ~col.reject
  /\ \/ col.samples < 3
     \/ field \in NumericFields /\ col.numeric >= 55 /\ (field = "quantity" => col.whole >= 45)
     \/ field = "description" /\ col.alpha >= 45
     \/ field \notin NumericFields \cup {"description"}

\* The best text of a column for a field among the header rows.
BestText(rows, h, c, f) == Max({rows[n].scores[c][f] : n \in HeaderRows(rows, h)})

\* The three best fields of each column. Fields are in the order of the keyword list.
Candidates(rows, h, columns, fields, least) ==
  LET base == [c \in DOMAIN columns |-> [f \in DOMAIN fields |-> BestText(rows, h, c, f)]]
      Before(c, f) == {g \in DOMAIN fields : \/ base[c][g] > base[c][f]
                                             \/ base[c][g] = base[c][f] /\ g < f}
      Claim(f, c) == [field |-> f, col |-> c, rank |-> Cardinality(Before(c, f)),
                      score |-> base[c][f] + (IF columns[c].prefers = fields[f] THEN 50 ELSE 0)]
  IN {a \in {Claim(f, c) : f \in DOMAIN fields, c \in DOMAIN columns} :
        /\ base[a.col][a.field] >= least
        /\ a.rank < 3
        /\ Fits(fields[a.field], columns[a.col])}

\* The best first; of equals the left column, and there the one that was ahead.
Better(a, b) == \/ a.score > b.score
                \/ a.score = b.score /\ (a.col < b.col \/ (a.col = b.col /\ a.rank < b.rank))

BestOf(set) == {a \in set : \A b \in set \ {a} : Better(a, b)}

Free(all, taken) == {a \in all : \A t \in taken : t.field # a.field /\ t.col # a.col}

\* Greedily, one column for a field and one field for a column.
MapHeaders(rows, h, columns, fields, least) ==
  LET all == Candidates(rows, h, columns, fields, least)
      taken[n \in 0..Len(fields)] ==
        IF n = 0 THEN {}
        ELSE LET before == taken[n - 1]
             IN before \cup BestOf(Free(all, before))
  IN taken[Len(fields)]

-----------------------------------------------------------------------------
(* Labelled values. A label is [field, value]: value "name", "ref" (to an annexure) or "".  *)

\* The first value of a field in the header area; a reference is no name of an equipment.
\* Below the header any first value counts, and then is dropped when it is one. A number
\* without a label is the one DetectSpirNumber finds.
FindMetadata(labels, below, title, number) ==
  LET Usable(l) == l.value # "" /\ ~(l.field = "equipment" /\ l.value = "ref")
      First(seq, field, P(_)) ==
        LET at == {i \in DOMAIN seq : seq[i].field = field /\ P(seq[i])}
        IN IF at = {} THEN "" ELSE seq[Min(at)].value
      Of(field) ==
        LET above == First(labels, field, Usable)
            late  == First(below, field, LAMBDA l : l.value # "")
            found == IF above # "" THEN above ELSE late
        IN IF field = "spir_no" /\ found = "" THEN number
           ELSE IF field = "equipment" /\ found \in {"", "ref"}
           THEN IF title THEN "name" ELSE ""
           ELSE found
      fields == {l.field : l \in Range(labels) \cup Range(below)} \cup {"equipment", "spir_no"}
  IN [f \in fields |-> Of(f)]

-----------------------------------------------------------------------------
(* The type of the document: 1 commissioning, 2 initial, 3 normal operation, 4 life cycle. *)

\* Check boxes of an old workbook decide when one names a type: exactly one type has to be
\* ticked, all readable, none without a caption. A box is [types, state]: state 1 is ticked,
\* 2 unreadable; types are those its caption names, {None} for no caption. None: no decision.
NoBoxes(boxes) == \A i \in DOMAIN boxes : boxes[i].types \in {{}, {None}}

TypeFromBoxes(boxes) ==
  LET typed  == {b \in Range(boxes) : b.types \notin {{}, {None}}}
      ticked == UNION {b.types : b \in {b \in typed : b.state = 1}}
      doubt  == \/ \E b \in typed : Cardinality(b.types) > 1 \/ b.state = 2
                \/ \E b \in Range(boxes) : b.types = {None}
  IN IF ~doubt /\ Cardinality(ticked) = 1 THEN CHOOSE t \in ticked : TRUE ELSE None

\* Those of a new workbook: the first that is ticked and names a type.
TypeFromDrawing(boxes) ==
  LET at == {i \in DOMAIN boxes : boxes[i].state = 1 /\ boxes[i].types \ {None} # {}}
  IN IF at = {} THEN None ELSE Min(boxes[Min(at)].types)

\* Labels in reading order, the five rows of ticks below the first, in the column of each label,
\* and the cells beside them. A tick is 0, 1 (a number), 2 (TRUE) or 9 (text). A label is
\* [type, line, header, covered, beside]: line is its row; header: it heads a column of the data;
\* covered: its column does, seen from the row of the first label; beside is the best tick
\* between it and the next label of its line, 0, 1 or 2.
TickColumns(labels) == {c \in DOMAIN labels : ~labels[c].covered}

\* TRUE decides alone, a number when it is the only one in its row.
TypeBelow(labels, rows) ==
  LET cols == TickColumns(labels)
      Holding(n, v) == {c \in cols : rows[n][c] = v}
      True(n) == {c \in Holding(n, 2) : \A d \in cols : d < c => rows[n][d] # 9}
      One(n) == Holding(n, 9) = {} /\ Cardinality(Holding(n, 1)) = 1 /\ Holding(n, 0) # {}
      decides == {n \in DOMAIN rows : True(n) # {} \/ One(n)}
      first == Min(decides)
  IN IF decides = {} THEN None
     ELSE labels[Min(IF True(first) # {} THEN True(first) ELSE Holding(first, 1))].type

\* Where labels stand below one another a number beside them is a tick as well.
IsVertical(labels) == \E c, d \in DOMAIN labels : labels[c].line # labels[d].line

\* A label sees a tick up to eleven columns to its right, over the labels between.
Sees(labels, c) ==
  \E d \in DOMAIN labels :
    /\ d >= c /\ labels[d].line = labels[c].line
    /\ labels[d].beside = 2 \/ (labels[d].beside = 1 /\ IsVertical(labels))

\* The first label that sees one decides.
TypeBeside(labels) ==
  LET sees == {c \in DOMAIN labels : ~labels[c].header /\ Sees(labels, c)}
  IN IF sees = {} THEN None ELSE labels[Min(sees)].type

\* A column of three or more logical values without a gap, one of them TRUE, whose place is
\* that of the type in the usual order.
TypeFromColumn(values) ==
  LET true == {i \in DOMAIN values : values[i]}
  IN IF Len(values) >= 3 /\ Cardinality(true) = 1 /\ Min(true) <= 4 THEN Min(true) ELSE None

DetectSpirType(head) ==
  LET FirstOf(a, b) == IF a # None THEN a ELSE b
  IN IF head.legacy /\ ~NoBoxes(head.boxes) THEN TypeFromBoxes(head.boxes)
     ELSE FirstOf(IF head.legacy THEN None ELSE TypeFromDrawing(head.boxes),
          IF head.labels = <<>> THEN None
          ELSE FirstOf(TypeBelow(head.labels, head.rows),
               FirstOf(TypeBeside(head.labels), TypeFromColumn(head.values))))

-----------------------------------------------------------------------------
(* The number and the revision of the document. *)

\* A cell is "number" (nothing else in it), "inside" (a text that holds one), "label" (names
\* the SPIR), "own" (both) or "". The corner at the top right first, from right to left; then
\* row by row a number that has the label before it. The place, or <<>>.
DetectSpirNumber(cells, width) ==
  LET places == {p \in (DOMAIN cells) \X (1..width) : cells[p[1]][p[2]] # ""}
      Before(p, q) == p[1] < q[1] \/ (p[1] = q[1] /\ p[2] < q[2])
      corner == {p \in places : /\ p[1] <= 6 /\ p[2] >= Max({1, (6 * width) \div 10})
                                /\ cells[p[1]][p[2]] = "number"}
      labelled == {p \in places :
                     \/ cells[p[1]][p[2]] = "own"
                     \/ /\ cells[p[1]][p[2]] \in {"number", "inside"} /\ p[2] > 1
                        /\ cells[p[1]][p[2] - 1] \in {"label", "own"}}
  IN IF corner # {}
     THEN CHOOSE p \in corner : \A q \in corner : p[1] < q[1] \/ (p[1] = q[1] /\ p[2] >= q[2])
     ELSE IF labelled # {} THEN CHOOSE p \in labelled : \A q \in labelled \ {p} : Before(p, q)
     ELSE <<>>

\* From the last row up: the value in a cell with a label ("own"), or in the next cell of the
\* five to the right that is not empty. A cell is "", "label", "own", "token" or "text".
FindRevision(cells) ==
  LET Beside(r, c) == {d \in (c + 1)..(c + 5) \cap DOMAIN cells[r] : cells[r][d] # ""}
      Value(r, c) == IF cells[r][c] = "own" THEN c
                     ELSE IF Beside(r, c) # {} /\ cells[r][Min(Beside(r, c))] = "token"
                     THEN Min(Beside(r, c)) ELSE None
      Labels(r) == {c \in DOMAIN cells[r] : cells[r][c] \in {"label", "own"} /\ Value(r, c) # None}
      rows == {r \in DOMAIN cells : r >= Len(cells) - 20 /\ Labels(r) # {}}
  IN IF rows = {} THEN <<>> ELSE <<Max(rows), Value(Max(rows), Min(Labels(Max(rows))))>>

-----------------------------------------------------------------------------
\* The last data row: before a footer, or before a blank row that four rows follow (or the
\* rest) with nothing in the first 14 columns. A row is "data" (filled there), "right" (filled
\* only beyond, up to column 29), "blank" or "footer".
FindDataEnd(rows, header) ==
  LET Ahead(n) == (n + 1)..Min({n + 4, Len(rows)})
      Ends(n) == \/ rows[n] = "footer"
                 \/ rows[n] = "blank" /\ \A m \in Ahead(n) : rows[m] \in {"blank", "right"}
      ends == {n \in (header + 1)..Len(rows) : Ends(n)}
  IN IF ends = {} THEN Len(rows) ELSE Min(ends) - 1

-----------------------------------------------------------------------------
(***************************************************************************)
(* What is promised                                                        *)
(***************************************************************************)

\* Of the first 30 rows none that is a full header itself, and is at least as good in everything
\* and better in something, is passed over; a sheet where one of them names an item number and
\* another field is never without a header.
HeaderNotDominated(rows) ==
  LET h == FindHeaderRow(rows)
      AtLeast(a, b) == /\ Keys(b) \subseteq Keys(a) /\ Crits(b) \subseteq Crits(a)
                       /\ HasItem(b) => HasItem(a)
  IN /\ \A n \in Scanned(rows) : Accepted(rows[n]) =>
          /\ Accepted(rows[h])
          /\ AtLeast(rows[n], rows[h]) => Keys(rows[n]) = Keys(rows[h])
                                          /\ Crits(rows[n]) = Crits(rows[h])
     /\ (\E n \in Scanned(rows) : HasItem(rows[n]) /\ Cardinality(Keys(rows[n])) >= 2) => h # None

\* The columns are shared out without a better claim left over: a field and a column that fit
\* and are not joined have one of them joined at least as well to another.
MappingStable(rows, h, columns, fields, least) ==
  LET map == MapHeaders(rows, h, columns, fields, least)
  IN /\ \A a, b \in map : a # b => a.field # b.field /\ a.col # b.col
     /\ \A a \in Candidates(rows, h, columns, fields, least) :
          \E b \in map : (b.field = a.field \/ b.col = a.col) /\ b.score >= a.score

\* A type is never guessed ("Do NOT guess or default"): it is one that is ticked. Check boxes
\* of an old workbook that leave it open are not overruled by cells, and one of them is ticked
\* alone. A tick beside the labels is one in the line of a label of the type, at it or further on.
TypeNotGuessed(head) ==
  LET type == DetectSpirType(head)
      boxed == head.legacy /\ ~NoBoxes(head.boxes)
      Boxes(t) == {b \in Range(head.boxes) : t \in b.types /\ b.state = 1}
      Below(t) == \E c \in TickColumns(head.labels), n \in DOMAIN head.rows :
                    head.labels[c].type = t /\ head.rows[n][c] \in {1, 2}
      Beside(t) == \E c, d \in DOMAIN head.labels :
                     /\ head.labels[c].type = t /\ d >= c
                     /\ head.labels[d].line = head.labels[c].line /\ head.labels[d].beside # 0
      InColumn(t) == t \in DOMAIN head.values /\ head.values[t]
  IN type # None =>
       IF boxed THEN /\ Boxes(type) # {}
                     /\ \A b \in Range(head.boxes) : b.state = 1 => b.types \in {{}, {type}}
       ELSE \/ ~head.legacy /\ Boxes(type) # {}
            \/ Below(type) \/ Beside(type) \/ InColumn(type)

\* A row with something in its first 14 columns is data unless a footer stands above it, or a
\* gap: a blank row and four more with nothing in those columns. Shorter gaps do not cut it off.
DataReadWhole(rows, header) ==
  LET end == FindDataEnd(rows, header)
      Gap(m) == /\ m + 4 <= Len(rows) /\ rows[m] = "blank"
                /\ \A k \in (m + 1)..(m + 4) : rows[k] \in {"blank", "right"}
  IN \A n \in (header + 1)..Len(rows) : rows[n] = "data" =>
       (n <= end <=> ~ \E m \in (header + 1)..n : rows[m] = "footer" \/ (Gap(m) /\ m + 4 < n))

\* The number and the revision are read from a cell that holds one, and are not missed where
\* a label stands before it, a revision not in the last 21 rows; none is taken from above another.
NumberFound(cells, width) ==
  LET p == DetectSpirNumber(cells, width)
      Labelled(r, c) == cells[r][c] \in {"number", "inside"} /\ cells[r][c - 1] = "label"
  IN IF p = <<>> THEN \A r \in DOMAIN cells, c \in 2..width : ~Labelled(r, c)
     ELSE cells[p[1]][p[2]] \in {"number", "inside", "own"}

RevisionFound(cells) ==
  LET p == FindRevision(cells)
      Labelled(r, c) == cells[r][c] = "token" /\ cells[r][c - 1] = "label"
  IN /\ p # <<>> => cells[p[1]][p[2]] \in {"token", "own"}
     /\ \A r \in DOMAIN cells :
          r >= Len(cells) - 20 /\ (\E c \in 2..Len(cells[r]) : Labelled(r, c)) => p # <<>> /\ p[1] >= r

\* A label further on never changes a value that was found in the header area, and a reference
\* to an annexure never becomes the name of the equipment.
MetadataKept(labels, below, title, number) ==
  LET all == FindMetadata(labels, below, title, number) IN
  /\ all["equipment"] # "ref"
  /\ \A n \in 0..Len(labels) :
       LET some == FindMetadata(SubSeq(labels, 1, n), <<>>, FALSE, "") IN
       \A f \in DOMAIN some : some[f] # "" => all[f] = some[f]
=============================================================================
