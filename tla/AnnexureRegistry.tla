-------------------------- MODULE AnnexureRegistry --------------------------
(***************************************************************************)
(* Which tags an annexure stands for: how the annexure sheets of a         *)
(* workbook are read into a registry, and what continuation sheets add     *)
(* to it (extraction/unified_extractor.py, 1428-2513 and 2573-2660).       *)
(*                                                                         *)
(* A value that may be missing is a set, {} or {v}. A registry key is      *)
(* <<n, g>>: annexure n, 0 when it has no number, -i when it goes by the   *)
(* name of sheet i; g is its group or 0.                                   *)
(*                                                                         *)
(* A sheet [role, key, digits, list, heads, theme, table, named]: role: it *)
(* was classified as an annexure; key and digits: what its name reads as,  *)
(* by the general rule and by the digits alone; list: its rows as a list   *)
(* of sections; heads: its header cells; theme: the columns that share a   *)
(* word with its name, with how many; table: its rows as a table.          *)
(* What is left out: lettered annexures, sheets with the tags as column    *)
(* headers, tag columns without a header, the notes in a tag column.       *)
(***************************************************************************)
EXTENDS Integers, SequencesExt, TLC

Unnumbered == 0
The(opt) == CHOOSE x \in opt : TRUE
Indexes(seq) == [i \in DOMAIN seq |-> i]

-----------------------------------------------------------------------------
(* The columns of a table: heads is a set of header cells                  *)
(*   [row, col, field, len, old]                                           *)
(* len is the length of the keyword that matched and tells keywords apart, *)
(* old marks "OLD TAG NO". The columns the analysis of the sheet found      *)
(* agree with these or give way to them.                                   *)

\* The longest keyword wins, then the upper, then the left cell.
Before(a, b) ==
  \/ a.len > b.len
  \/ a.len = b.len /\ (a.row < b.row \/ (a.row = b.row /\ a.col < b.col))

BestCell(cells) == {a \in cells : \A b \in cells \ {a} : Before(a, b)}

\* One cell per column, the one with the longest keyword.
TagCells(heads) ==
  LET tags == {h \in heads : h.field = "tag"}
  IN {h \in tags : \A x \in tags \ {h} : x.col = h.col => Before(h, x)}

\* The tag columns that replace an old one on their row; then no old one is read.
Renewed(heads) ==
  {h \in TagCells(heads) : ~h.old /\ \E o \in TagCells(heads) : o.old /\ o.row = h.row}

\* Mutant: columns that were replaced are read all the same.
CurrentTagsAll(heads) == TagCells(heads)

CurrentTags(heads) ==
  IF Renewed(heads) = {} THEN TagCells(heads) ELSE {h \in TagCells(heads) : ~h.old}

\* The main tag column before the name of the sheet is looked at: the best cell, or the
\* best that replaces it; one on the row of the model or serial headers if there is one.
PlainTag(heads) ==
  LET tags   == CurrentTags(heads)
      top    == BestCell(TagCells(heads))
      best   == IF Renewed(heads) # {} /\ \A h \in top : h.old
                THEN {CHOOSE h \in Renewed(heads) : \A x \in Renewed(heads) :
                        h.len > x.len \/ (h.len = x.len /\ h.col <= x.col)}
                ELSE top
      rows   == {h.row : h \in UNION {BestCell({h \in heads : h.field = f}) : f \in {"model", "serial"}}}
      beside == {h \in tags : h.row = Min(rows)}
      Seen(c) == Min({h.row : h \in {x \in heads : x.field = "tag" /\ x.col = c}})
  IN IF best = {} \/ rows = {} THEN best
     ELSE IF The(best).row \in rows \/ beside = {} THEN best
     ELSE {CHOOSE h \in beside : \A x \in beside :
             Seen(h.col) < Seen(x.col) \/ (Seen(h.col) = Seen(x.col) /\ h.col <= x.col)}

\* A column that shares more with the name of the sheet replaces it.
ThemeCol(theme, current) ==
  LET Wins(c) == /\ theme[c] > 0
                 /\ \A d \in DOMAIN theme :
                      theme[d] < theme[c] \/ (theme[d] = theme[c] /\ d # current /\ c <= d)
  IN {c \in DOMAIN theme \ {current} : Wins(c)}

\* The columns to read, given the cell of the main one: main, all columns read like it, and
\* those of other equipment; was is the main column before the name of the sheet counted.
ColumnsBeside(main, tags, theme) ==
  LET moved == ThemeCol(theme, main.col)
      col   == IF moved = {} THEN main.col ELSE The(moved)
      peers == {h \in tags : h.col # col /\ moved = {} /\ h.row = main.row /\ h.len = main.len}
      cols  == {h.col : h \in peers}
  IN [all   |-> <<col>> \o SetToSortSeq(cols, LAMBDA a, b : a < b),
      other |-> {h.col : h \in tags} \ (cols \cup {col}),
      was   |-> main.col]

TagColumns(heads, theme) ==
  IF PlainTag(heads) = {} THEN [all |-> <<>>, other |-> {}, was |-> 0]
  ELSE ColumnsBeside(The(PlainTag(heads)), CurrentTags(heads), theme)

\* A model or serial column left of the tags belongs to another piece of equipment, when
\* there is one to their right; one between the old and the new main column is dropped.
FieldColumn(heads, cols, field) ==
  LET all   == cols.all
      cells == {h \in heads : h.field = field}
      found == {h.col : h \in BestCell(cells)}
      kept  == {c \in found : ~(all # <<>> /\ cols.was <= c /\ c < all[1])}
      right == {h.col : h \in {x \in cells : all # <<>> /\ x.col > all[1]}}
  IN IF all # <<>> /\ right # {} /\ (field = "model" => kept # {}) /\ \A c \in kept : c < all[1]
     THEN {Min(right)} ELSE kept

-----------------------------------------------------------------------------
(* The rows: [tags : column -> sequence, group, model, serial, mfr]        *)

\* A serial cell [whole, sep, parts]; what several tags in one cell get of it.
SplitSerial(s, n) ==
  IF \/ s.sep = "to" /\ Len(s.parts) = 2
     \/ s.sep \in {"/", ","} /\ Len(s.parts) >= 2
     \/ s.sep = "-" /\ n > 1 /\ Len(s.parts) = n
  THEN s.parts ELSE <<s.whole>>

SerialFor(serial, n, i) ==
  IF serial = {} THEN {}
  ELSE LET parts == SplitSerial(The(serial), n)
       IN IF i <= Len(parts) THEN {parts[i]} ELSE {The(serial).whole}

\* Model and manufacturer are carried on from the last entry, the group from the last
\* row that has one. A row without a tag counts if it has data of its own and no tag of
\* other equipment.
ReadRows(sheet, cols) ==
  LET single == Len(cols.all) = 1
      models == FieldColumn(sheet.heads, cols, "model")
      sers   == FieldColumn(sheet.heads, cols, "serial")
      Cell(row, field, at) == IF at = {} THEN {} ELSE row[field][The(at)]
      Visit(acc, row) ==
        LET last   == IF acc.out = <<>> THEN [model |-> {}, mfr |-> {}] ELSE Last(acc.out)
            model  == Cell(row, "model", models)
            serial == Cell(row, "serial", sers)
            group  == IF row.group # {} THEN row.group ELSE acc.group
            Entry(tag, ser) ==
              [tag |-> tag, serial |-> ser, group |-> group,
               model |-> IF model # {} THEN model ELSE last.model,
               mfr |-> IF row.mfr # {} THEN row.mfr ELSE last.mfr]
            blank == /\ single /\ row.tags[cols.all[1]] = <<>>
                     /\ \A c \in cols.other : row.tags[c] = <<>>
                     /\ model # {} \/ serial # {} \/ row.mfr # {}
            OfCol(c) == [i \in DOMAIN row.tags[c] |->
                           Entry({row.tags[c][i]},
                                 IF single THEN SerialFor(serial, Len(row.tags[c]), i)
                                 ELSE {The(s).whole : s \in {serial} \ {{}}})]
        IN [group |-> group,
            out   |-> acc.out
                      \o (IF blank THEN <<Entry({}, SerialFor(serial, 1, 1))>>
                          ELSE FlattenSeq([x \in DOMAIN cols.all |-> OfCol(cols.all[x])]))]
  IN IF cols.all = <<>> THEN <<>>
     ELSE FoldLeft(Visit, [group |-> {}, out |-> <<>>], sheet.table).out

ReadTable(sheet) == ReadRows(sheet, TagColumns(sheet.heads, sheet.theme))

\* A list of sections: a row names the annexure the rows below it belong to, titles are
\* skipped, a row without a tag number counts if it has a model.
ReadList(rows) ==
  LET Entry(tag, model) == [tag |-> {tag}, serial |-> {}, group |-> {}, model |-> model, mfr |-> {}]
      Found(r) ==
        CASE r.kind = "tags" -> [i \in DOMAIN r.tags |-> Entry(r.tags[i], r.model)]
          [] r.kind = "na" /\ r.model # {} -> <<Entry("N/A", r.model)>>
          [] OTHER -> <<>>
      Visit(acc, r) ==
        IF r.kind = "section"
        THEN [acc EXCEPT !.key = {r.n}]
        ELSE IF acc.key = {} \/ Found(r) = <<>> THEN acc
        ELSE LET k   == <<The(acc.key), 0>>
                 old == IF k \in DOMAIN acc.reg THEN acc.reg[k] ELSE <<>>
             IN [acc EXCEPT !.reg = (k :> old \o Found(r)) @@ @]
  IN FoldLeft(Visit, [key |-> {}, reg |-> <<>>], rows).reg

\* The key of a sheet; the digits of its name decide.
SheetKey(sheets, i) ==
  LET s == sheets[i] IN
  IF s.digits # {} /\ (s.role \/ s.key # {}) THEN s.digits
  ELSE IF s.key # {} THEN s.key
  ELSE IF s.role THEN {-i} ELSE {}

\* The entries of annexure n, group by group.
Grouped(n, entries) ==
  LET Group(e) == IF e.group = {} THEN 0 ELSE The(e.group)
  IN [k \in {<<n, Group(e)>> : e \in Range(entries)} |->
        SelectSeq(entries, LAMBDA e : <<n, Group(e)>> = k)]

\* Sheet after sheet; a key read again replaces what it stood for.
BuildRegistry(sheets) ==
  LET OfSheet(i) ==
        LET n     == The(SheetKey(sheets, i))
            lists == IF n = Unnumbered THEN ReadList(sheets[i].list) ELSE <<>>
        IN IF SheetKey(sheets, i) = {} THEN <<>>
           ELSE IF DOMAIN lists # {} THEN lists
           ELSE Grouped(n, ReadTable(sheets[i]))
  IN FoldLeft(LAMBDA reg, i : OfSheet(i) @@ reg, <<>>, Indexes(sheets))

-----------------------------------------------------------------------------
(* What the continuation sheets add: columns is a sequence of [key, serial, items] *)

\* The serial numbers of an annexure, column by column; a column without one, or with a
\* number of one or two digits, is passed over.
SerialMap(columns, k) ==
  LET mine == SelectSeq(columns, LAMBDA c : c.key = k /\ k[1] # Unnumbered /\ c.serial # {})
  IN [i \in DOMAIN mine |-> The(mine[i].serial)]

\* Entries in a row that have the same model.
SubGroups(entries) ==
  FoldLeft(LAMBDA acc, i : IF i > 1 /\ entries[i].model = entries[i - 1].model
                           THEN [acc EXCEPT ![Len(acc)] = @ \cup {i}] ELSE Append(acc, {i}),
           <<>>, Indexes(entries))

\* The i-th serial goes to the i-th sub-group, where an entry has none. The first
\* continuation sheet that names an annexure is the only one used.
EnrichSerials(reg, conts) ==
  LET useful == SelectSeq(conts, LAMBDA cols : \E c \in Range(cols) : SerialMap(cols, c.key) # <<>>)
      Of(k) == IF useful = <<>> THEN <<>> ELSE SerialMap(Head(useful), k)
      Place(k, i) == CHOOSE g \in DOMAIN SubGroups(reg[k]) : i \in SubGroups(reg[k])[g]
  IN [k \in DOMAIN reg |->
        [i \in DOMAIN reg[k] |->
           IF reg[k][i].serial = {} /\ Place(k, i) <= Len(Of(k))
           THEN [reg[k][i] EXCEPT !.serial = {Of(k)[Place(k, i)]}] ELSE reg[k][i]]]

\* The items of each column of an annexure that several columns name.
SubgroupItems(columns) ==
  LET Cols(k) == SelectSeq(columns, LAMBDA c : c.key = k)
      several == {k \in {c.key : c \in Range(columns)} :
                    k[1] # Unnumbered /\ Len(Cols(k)) > 1 /\ \E c \in Range(Cols(k)) : c.items # {}}
  IN [k \in several |-> [i \in DOMAIN Cols(k) |-> Cols(k)[i].items]]

\* What is known of a tag: the registry, its later entries first, goes before the rows,
\* of which the first counts.
TagLookup(rows, reg, tag, field) ==
  LET entries == FlattenSeq([i \in DOMAIN reg |-> SelectSeq(reg[i], LAMBDA e : e.tag = {tag} /\ e[field] # {})])
      seen    == SelectSeq(rows, LAMBDA r : r.tag = {tag} /\ r[field] # {})
  IN IF entries # <<>> THEN Last(entries)[field]
     ELSE IF seen # <<>> THEN Head(seen)[field] ELSE {}
-----------------------------------------------------------------------------
(***************************************************************************)
(* What the registry promises                                              *)
(***************************************************************************)

\* No row is read from a tag column another one replaces, nor twice from one column, and
\* a column of other equipment is never read for tags, unless the name of the sheet asks.
ColumnsFit(heads, theme) ==
  \A cols \in {TagColumns(heads, theme)} :
    /\ IsInjective(cols.all)
    /\ Range(cols.all) \cap cols.other = {}
    /\ (\A c \in DOMAIN theme : theme[c] = 0) =>
         \A c \in Range(cols.all) :
           ~\E o, n \in TagCells(heads) : o.old /\ o.col = c /\ ~n.old /\ n.row = o.row

\* Every tag of an annexure sheet is registered under the sheet's key and the group of
\* the nearest row above that names one, as often as the sheet lists it.
TagsRegistered(sheets) ==
  \A reg \in {BuildRegistry(sheets)}, i \in DOMAIN sheets :
  \A cols \in {TagColumns(sheets[i].heads, sheets[i].theme)} :
    LET s == sheets[i]
        GroupAt(x) == LET above == {y \in 1..x : s.table[y].group # {}}
                      IN IF above = {} THEN 0 ELSE The(s.table[Max(above)].group)
        Listed(t, g) == MapThenSumSet(
          LAMBDA p : Len(SelectSeq(s.table[p[1]].tags[p[2]], LAMBDA u : u = t)),
          {p \in (DOMAIN s.table) \X Range(cols.all) : GroupAt(p[1]) = g})
        all == UNION {Range(s.table[x].tags[c]) : x \in DOMAIN s.table, c \in Range(cols.all)}
    IN /\ SheetKey(sheets, i) # {} /\ The(SheetKey(sheets, i)) # Unnumbered
       /\ \A j \in DOMAIN sheets \ {i} : SheetKey(sheets, j) # SheetKey(sheets, i)
       => \A t \in all : \A g \in {GroupAt(x) : x \in DOMAIN s.table} :
            LET k == <<The(SheetKey(sheets, i)), g>> IN
            Listed(t, g) = IF k \in DOMAIN reg
                           THEN Len(SelectSeq(reg[k], LAMBDA e : e.tag = {t})) ELSE 0

\* Tags get the serial number of the continuation column in the place of their model, as
\* long as every column has one and each column stands for one model.
SerialsAligned(reg, columns) ==
  \A k \in DOMAIN reg :
    LET mine == SelectSeq(columns, LAMBDA c : c.key = k)
        subs == SubGroups(reg[k])
        out  == EnrichSerials(reg, <<columns>>)[k]
    IN (\A c \in Range(mine) : c.serial # {}) =>
         \A i \in DOMAIN out :
           LET g == CHOOSE x \in DOMAIN subs : i \in subs[x] IN
           out[i].serial = IF reg[k][i].serial # {} THEN reg[k][i].serial
                           ELSE IF g <= Len(mine) THEN mine[g].serial ELSE {}

\* A serial cell with a number for each of its tags gives every tag its own.
SerialPerTag(serial, n) ==
  Len(serial.parts) = n /\ n > 1 =>
    \A i \in 1..n : SerialFor({serial}, n, i) = {serial.parts[i]}
=============================================================================
