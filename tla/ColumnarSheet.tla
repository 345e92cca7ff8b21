---------------------------- MODULE ColumnarSheet ----------------------------
(***************************************************************************)
(* One matrix sheet: tags as column headers, spare parts as rows, the      *)
(* quantities where they cross (extraction/strategies/columnar.py).        *)
(*                                                                         *)
(* A cell that may be empty is the set of its values: {} or {v}.  A sheet: *)
(*   cols    its tag columns, in the order the analysis found them         *)
(*   head    the cells above the data: row -> column -> header cell        *)
(*   tagRows the header rows labelled as the row of the tags               *)
(*   units   the "No. of units" row: column -> {} or {number}              *)
(*   rows    the data rows                                                 *)
(* A header cell [kind, tags, packed] is "none" (empty or a placeholder),  *)
(* "text" (a label, a column number, words), "annex" or "bare" (an annexure*)
(* with or without its number), "ids" (a list of bare ids) or "tag"; tags  *)
(* is what it splits into, packed what a single tag stands for when the    *)
(* units say so ("P-1 A-B").  A data row is [nr, desc, footer, total,      *)
(* group, qty, marks]: total the number of parts fitted, group stands for  *)
(* the six fields filled forward, qty the number per column and marks the  *)
(* columns that hold something else.                                       *)
(* Prices, texts and the currency found in a header are left out.          *)
(***************************************************************************)
EXTENDS Integers, SequencesExt, TLC

\* Python dictionaries keep the place of the first assignment to a key.
Keys(d) == {d[i].key : i \in DOMAIN d}
Lookup(d, k) == d[CHOOSE i \in DOMAIN d : d[i].key = k].val
Assign(d, k, v) ==
  IF k \in Keys(d) THEN [i \in DOMAIN d |-> IF d[i].key = k THEN [key |-> k, val |-> v] ELSE d[i]]
  ELSE Append(d, [key |-> k, val |-> v])

Abs(n) == IF n < 0 THEN -n ELSE n
Order(S) == SetToSortSeq(S, LAMBDA a, b : a < b)

-----------------------------------------------------------------------------
(* The tags *)

\* The cell of a tag column that names its tags: the first that is not refused.
Accepted(s, r, c) ==
  \/ s.head[r][c].kind \in {"annex", "bare", "tag"}
  \/ s.head[r][c].kind = "ids" /\ r \in s.tagRows

TagCell(s, c) ==
  LET hits == {r \in DOMAIN s.head : Accepted(s, r, c)}
  IN IF hits = {} THEN {} ELSE {Min(hits)}

\* Columns near an annexure cell that hold several tags are taken along; per column the
\* longest list near the anchor, the first of equals.
Companions(s, row, col) ==
  LET near == {p \in (DOMAIN s.head) \X (DOMAIN s.head[1]) :
                 /\ Abs(p[1] - row) <= 5 /\ Abs(p[2] - col) <= 3 /\ p # <<row, col>>
                 /\ s.head[p[1]][p[2]].kind \in {"tag", "ids"}
                 /\ Len(s.head[p[1]][p[2]].tags) > 1}
      Score(p) == Len(s.head[p[1]][p[2]].tags) - Abs(p[1] - row) - Abs(p[2] - col)
      Best(c) == CHOOSE p \in near :
                   /\ p[2] = c
                   /\ \A q \in near : q[2] = c =>
                        Score(p) > Score(q) \/ (Score(p) = Score(q) /\ p[1] <= q[1])
  IN [c \in {p[2] : p \in near} |-> s.head[Best(c)[1]][c].tags]

\* Mutant: what an annexure brings along hides the cells of the columns themselves.
ReadTagHeadersHidden(s) ==
  LET Visit(info, c) ==
        IF TagCell(s, c) = {} THEN info
        ELSE LET r == CHOOSE x \in TagCell(s, c) : TRUE
             IN (IF s.head[r][c].kind = "annex" THEN Companions(s, r, c) ELSE <<>>)
                @@ (c :> s.head[r][c].tags) @@ info
  IN FoldLeft(Visit, <<>>, s.cols)

\* Tags per column; a column's own cell goes before what an annexure brought along.
ReadTagHeaders(s) ==
  LET Visit(info, c) ==
        IF TagCell(s, c) = {} THEN info
        ELSE LET r    == CHOOSE x \in TagCell(s, c) : TRUE
                 own  == (c :> s.head[r][c].tags) @@ info
                 with == Companions(s, r, c)
             IN IF s.head[r][c].kind = "annex"
                THEN own @@ [x \in DOMAIN with \ DOMAIN own |-> with[x]] ELSE own
  IN FoldLeft(Visit, <<>>, s.cols)

\* The units a column declares, or as many as it has tags.
Declared(s, info) ==
  [c \in DOMAIN info |->
     IF c \in DOMAIN s.units /\ s.units[c] # {} THEN CHOOSE n \in s.units[c] : TRUE
     ELSE Len(info[c])]

\* A single tag that stands for as many tags as the column declares units.
ExpandTags(s, info) ==
  LET Packed(c) == {s.head[r][c].packed : r \in TagCell(s, c)} IN
  [c \in DOMAIN info |->
     IF /\ Len(info[c]) = 1 /\ Declared(s, info)[c] > 1
        /\ \E p \in Packed(c) : Len(p) = Declared(s, info)[c]
     THEN CHOOSE p \in Packed(c) : TRUE ELSE info[c]]

\* The number of units a tag column stands for.
UnitsForCol(s, c, tags) ==
  IF Len(tags[c]) > 1 THEN Len(tags[c])
  ELSE IF c \in DOMAIN s.units /\ s.units[c] \cap (Nat \ {0}) # {}
  THEN CHOOSE n \in s.units[c] : TRUE ELSE 1

-----------------------------------------------------------------------------
(* The items *)

\* The rows above the footer. One without a number is kept apart under a negative key;
\* a later row with the same number replaces the data.
ReadItems(s) ==
  LET feet == {i \in DOMAIN s.rows : s.rows[i].footer}
      upto == IF feet = {} THEN Len(s.rows) ELSE Min(feet) - 1
      Visit(items, i) ==
        LET row == s.rows[i] IN
        IF row.nr # {} THEN Assign(items, CHOOSE n \in row.nr : TRUE, row)
        ELSE IF row.desc THEN Assign(items, -i, row) ELSE items
  IN FoldLeft(Visit, <<>>, [i \in 1..upto |-> i])

\* An empty group field takes the last one above.
FillForward(items) ==
  LET Visit(acc, e) ==
        LET g == IF e.val.group # {} THEN e.val.group ELSE acc.last
        IN [last |-> g, out |-> Append(acc.out, [e EXCEPT !.val.group = g])]
  IN FoldLeft(Visit, [last |-> {}, out |-> <<>>], items).out

\* The item list of a sheet: its own, or the given one with the numbers it lacks.
ItemsOf(s, given) ==
  LET own == SelectSeq(FillForward(ReadItems(s)), LAMBDA e : e.key > 0)
  IN IF given = {} THEN own
     ELSE LET g == CHOOSE x \in given : TRUE
          IN g \o SelectSeq(own, LAMBDA e : e.key \notin Keys(g))

-----------------------------------------------------------------------------
(* The column of the item numbers, when no header names it *)

\* cells: row -> column -> {} or {number}; tagCols are no candidates.
Follows(cells, r, c, from) ==
  \E n \in cells[r][c] : n + 1 \in cells[r + 1][c] /\ (from => n = 1)

\* First pass: 1, 2 in the first nine columns. Second pass: any two numbers in sequence,
\* anywhere. Six rows are tried, the uppermost hit counts, then the leftmost.
ItemColumn(cells, tagCols, start) ==
  LET last == IF start + 5 < Len(cells) - 1 THEN start + 5 ELSE Len(cells) - 1
      Hits(strict) == {p \in (start..last) \X (DOMAIN cells[1] \ tagCols) :
                         Follows(cells, p[1], p[2], strict) /\ (strict => p[2] <= 9)}
      Upper(S) == CHOOSE p \in S : \A q \in S : p[1] < q[1] \/ (p[1] = q[1] /\ p[2] <= q[2])
  IN IF Hits(TRUE) # {} THEN {Upper(Hits(TRUE))}
     ELSE IF Hits(FALSE) # {} THEN {Upper(Hits(FALSE))} ELSE {}

\* After the second pass the start moves up while the numbers count down.
WalkBack(cells, hit) ==
  LET c == hit[2]
      first == CHOOSE n \in cells[hit[1]][c] : TRUE
      Run(r) == \A x \in r..hit[1] : first - (hit[1] - x) \in cells[x][c]
  IN Min({r \in 1..hit[1] : Run(r)})

\* The column and the first row the quantities are read from.
ItemStart(cells, tagCols, start) ==
  {[col |-> hit[2], row |-> IF Follows(cells, hit[1], hit[2], TRUE) /\ hit[2] <= 9
                            THEN hit[1] ELSE WalkBack(cells, hit)]
     : hit \in ItemColumn(cells, tagCols, start)}

-----------------------------------------------------------------------------
(* The quantities and the rows *)

Quantity(row, c) == IF c \in row.marks THEN {1} ELSE row.qty[c]

\* A cell of a column with several tags may hold the sum over them. It is taken for the
\* quantity per tag when that is what the total of parts fitted says.
PerTag(s, tags, items, row, nr) ==
  LET cols  == {c \in DOMAIN tags : Quantity(row, c) # {}}
      Q(c)  == CHOOSE q \in Quantity(row, c) : TRUE
      Splits(c) == Len(tags[c]) > 1 /\ Q(c) > 0 /\ Q(c) % Len(tags[c]) = 0
      fitted == Lookup(items, nr).total
      whole == MapThenSumSet(LAMBDA c : Q(c) * UnitsForCol(s, c, tags), {c \in cols : Q(c) > 0})
      keep  == (\E c \in cols : Splits(c)) /\ fitted \cap (Nat \ {0}) # {} /\ whole \in fitted
  IN [c \in cols |-> IF Splits(c) /\ ~keep THEN Q(c) \div Len(tags[c]) ELSE Q(c)]

\* Column -> items with a positive quantity; a later row with the number replaces it.
TagItems(s, tags, items) ==
  LET Visit(map, row) ==
        LET nr == CHOOSE n \in row.nr : TRUE
            q  == PerTag(s, tags, items, row, nr)
        IN IF row.nr = {} \/ row.nr \cap Keys(items) = {} THEN map
           ELSE [c \in DOMAIN tags |->
                   IF c \in DOMAIN q /\ q[c] > 0 THEN Assign(map[c], nr, q[c]) ELSE map[c]]
  IN FoldLeft(Visit, [c \in DOMAIN tags |-> <<>>], s.rows)

\* Tags that are really the document number are dropped with their column.
DropDocument(info, spirNo) ==
  [c \in {x \in DOMAIN info : spirNo \notin Range(info[x])} |-> info[c]]

\* Per column, left to right, and per tag: an equipment row and its items, or nothing.
SheetRows(s, given, spirNo) ==
  LET info  == DropDocument(ReadTagHeaders(s), spirNo)
      tags  == ExpandTags(s, info)
      items == ItemsOf(s, given)
      map   == TagItems(s, tags, items)
      units == Declared(s, tags)
      Row(tag, c, item, q) == [tag |-> tag, col |-> c, item |-> item, qty |-> q]
      OfTag(tag, c) ==
        IF map[c] = <<>> THEN <<>>
        ELSE <<Row(tag, c, 0, units[c])>>
             \o [i \in DOMAIN map[c] |-> Row(tag, c, map[c][i].key, map[c][i].val)]
      OfCol(c) == FlattenSeq([i \in DOMAIN tags[c] |-> OfTag(tags[c][i], c)])
      order == Order(DOMAIN tags)
  IN FlattenSeq([i \in DOMAIN order |-> OfCol(order[i])])
-----------------------------------------------------------------------------
(***************************************************************************)
(* What reading a sheet promises                                           *)
(***************************************************************************)

\* The item numbers of the rows are all different.
Numbered(s) ==
  \A i, j \in DOMAIN s.rows : s.rows[i].nr = s.rows[j].nr /\ s.rows[i].nr # {} => i = j

\* The two ways a row is filled in: every cell holds the quantity of one tag, or every
\* cell holds the sum over its tags.
EachTag(s, tags, row) ==
  MapThenSumSet(LAMBDA c : (CHOOSE q \in Quantity(row, c) : TRUE) * UnitsForCol(s, c, tags),
        {c \in DOMAIN tags : Quantity(row, c) # {}}) \in row.total
AllTags(s, tags, row) ==
  /\ MapThenSumSet(LAMBDA c : CHOOSE q \in Quantity(row, c) : TRUE,
           {c \in DOMAIN tags : Quantity(row, c) # {}}) \in row.total
  /\ \A c \in DOMAIN tags : \A q \in Quantity(row, c) :
       IF Len(tags[c]) > 1 THEN q % Len(tags[c]) = 0 ELSE UnitsForCol(s, c, tags) = 1

\* Whichever way a row is filled in, the quantities written for the tags add up to the
\* total of parts fitted.
FittedAddsUp(s) ==
  Numbered(s) =>
  \A tags \in {ExpandTags(s, DropDocument(ReadTagHeaders(s), "spir"))}, out \in {SheetRows(s, {}, "spir")} :
    LET Each(c) == IF Len(tags[c]) > 1 THEN 1 ELSE UnitsForCol(s, c, tags)
        Written(nr) == MapThenSumSet(LAMBDA i : IF out[i].item = nr THEN out[i].qty * Each(out[i].col) ELSE 0,
                             DOMAIN out)
        feet == {i \in DOMAIN s.rows : s.rows[i].footer}
    IN \A i \in DOMAIN s.rows : \A nr \in s.rows[i].nr :
         /\ \A f \in feet : i < f
         /\ \A c \in DOMAIN tags : \A q \in Quantity(s.rows[i], c) : q >= 0
         /\ EachTag(s, tags, s.rows[i]) \/ AllTags(s, tags, s.rows[i])
         => Written(nr) \in s.rows[i].total

\* An annexure never hides the tags a column names itself, whatever the columns' order,
\* and no column is read that is neither a tag column nor near an annexure.
OwnTagsWin(s) ==
  \A info \in {ReadTagHeaders(s)} : \A c \in DOMAIN info :
    IF c \in Range(s.cols) /\ TagCell(s, c) # {}
    THEN \E r \in TagCell(s, c) : info[c] = s.head[r][c].tags
    ELSE \E a \in Range(s.cols) : \E r \in TagCell(s, a) :
           s.head[r][a].kind = "annex" /\ Abs(a - c) <= 3 /\ Len(info[c]) > 1

\* A filled group field is that of the item itself or of one further up.
FilledFromAbove(s) ==
  LET items == FillForward(ReadItems(s)) IN
  Numbered(s) =>
    \A i \in DOMAIN items :
      LET above == {j \in 1..i : ReadItems(s)[j].val.group # {}}
      IN items[i].val.group = IF above = {} THEN {} ELSE ReadItems(s)[Max(above)].val.group

\* When one column alone counts up, the numbers are read from their very first.
RunReadWhole(cells, tagCols, start) ==
  \A c \in DOMAIN cells[1] \ tagCols : \A a, b \in DOMAIN cells :
    /\ \A r \in a..b : \E n \in cells[a][c] : n + r - a \in cells[r][c]
    /\ a < b /\ a <= start + 5 /\ start < b
    /\ \A r \in DOMAIN cells, x \in DOMAIN cells[1] :
         cells[r][x] # {} => x \in tagCols \/ (x = c /\ r \in a..b)
    => \E h \in ItemStart(cells, tagCols, start) :
         h.col = c /\ (h.row = a \/ (h.row >= start /\ 1 \in cells[h.row][c]))
=============================================================================
