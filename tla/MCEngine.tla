------------------------------ MODULE MCEngine ------------------------------
(***************************************************************************)
(* The pure modules of the extraction engine on small inputs. An input     *)
(* grows step by step, a sheet, row, cell or column at a time; kind says   *)
(* whose input it is, and each property looks at the inputs of its module. *)
(***************************************************************************)
EXTENDS MaterialNumber, PartArithmetic, WorkbookAnalysis, DuplicateChecker, RowSheets, TLC

Groups == INSTANCE SheetGroups
Fanout == INSTANCE AnnexureFanout
TagColumns == INSTANCE ColumnarSheet
Registry == INSTANCE AnnexureRegistry
TagParts == INSTANCE TagCells

VARIABLES kind, x

Is(k) == kind = k

-----------------------------------------------------------------------------
(* Sheets of one columnar workbook *)

GroupMain(first, last, marks, tags) ==
  [conti |-> FALSE, marks |-> marks, main |-> TRUE, score |-> 3,
   own |-> [k \in first..last |-> k # 2], listed |-> first..last, tags |-> tags]
GroupCont(listed, marks, tags, own, conti) ==
  [conti |-> conti, marks |-> marks, main |-> FALSE, score |-> IF own = {} THEN 0 ELSE 2,
   own |-> [k \in own |-> TRUE], listed |-> listed, tags |-> tags]
GroupSheets ==
  {GroupMain(1, 2, {}, <<"a">>), GroupMain(1, 2, {2}, <<"a">>), GroupMain(3, 3, {}, <<"a">>), GroupMain(1, 1, {2}, <<"b">>)}
    \cup {GroupCont(1..n, m, <<"a", "b">>, {}, TRUE) : n \in {2, 4}, m \in {{}, {2}}}
    \cup {GroupCont(1..n, {}, <<"a", "b">>, 1..2, c) : n \in {2, 4}, c \in BOOLEAN}

\* A continuation that spans several mains has no item column of its own: see the README.
Spanless(book) ==
  LET split == Groups!SplitOverflow(book) IN
  Len(split.kept) > 1 => \A i \in DOMAIN book : Groups!Spans(book, split, i) => DOMAIN book[i].own = {}

GrowGroups ==
  /\ Is("groups") /\ Len(x) < 4
  /\ \E s \in GroupSheets : x' = Append(x, s) /\ Spanless(x')

\* The workbook's item lists, uses and equipment rows: each once, each with its own sheet.
GroupsAreWhole ==
  Is("groups") /\ x # <<>> => Groups!EquipmentOnce(x) /\ Groups!NoForeignItems(x) /\ Groups!UsesOnce(x)

-----------------------------------------------------------------------------
(* Rows that refer to an annexure, and its tags *)

FanRow(sheet, tag, item, main, col, units, qty) ==
  [sheet |-> sheet, tag |-> tag, item |-> item, main |-> main, col |-> col, units |-> units, qty |-> qty, mfr |-> TRUE]
Matrix(sheet, tag, col, units, items) ==
  <<FanRow(sheet, tag, 0, 1, col, units, 0)>> \o [i \in DOMAIN items |-> FanRow(sheet, tag, items[i], 1, col, 0, 1)]
Listed(sheet, tag, units, item) ==
  <<FanRow(sheet, tag, 0, sheet, 0, units, 0), FanRow(sheet, tag, item, sheet, 0, 0, 6)>>
\* A sheet with a column of tags has spare rows alone.
InTagColumn(sheet, tag, mfr) == <<[FanRow(sheet, tag, 7, sheet, 0, 0, 6) EXCEPT !.mfr = mfr]>>
FanBlocks ==
  {Matrix(s, Fanout!Ref(1, u), c, u, <<i>>) : s \in {1, 2}, u \in {1, 2}, c \in {4, 5}, i \in {1, 2}}
    \cup {Matrix(s, Fanout!Ref(1, 1), c, 2, <<1>>) : s \in {1, 2}, c \in {4, 5}}
    \cup {Listed(3, t, u, 7) : t \in {Fanout!Ref(1, 1), Fanout!Ref(0, 1), Fanout!Ref(2, 1)}, u \in {0, 2}}
    \cup {Listed(3, t, 2, 8) : t \in {Fanout!Ref(1, 1), Fanout!Ref(1, 2), Fanout!Ref(2, 1)}}
    \cup {InTagColumn(4, t, m) : t \in {Fanout!Ref(1, 1), Fanout!Ref(0, 1)}, m \in BOOLEAN}
Tags(after, n) == [i \in 1..n |-> [tag |-> Fanout!Real(after + i)]]
Annexures ==
  {(Fanout!Key(1, 0) :> Tags(0, 3)),
   (Fanout!Key(1, 1) :> Tags(0, 2)) @@ (Fanout!Key(1, 2) :> Tags(2, 1)),
   (Fanout!Key(1, 1) :> Tags(0, 2)) @@ (Fanout!Key(2, 1) :> Tags(2, 2)) @@ (Fanout!Key(2, 2) :> Tags(4, 3)),
   (Fanout!AnyKey :> Tags(0, 2))}

GrowFanout ==
  /\ Is("fanout") /\ Len(x.rows) < 5
  /\ \E b \in FanBlocks : x' = [x EXCEPT !.rows = @ \o b]

\* Each spare reaches each tag it is for, columns of one sheet share the tags out by their
\* units, and the tags of a lone reference share its total.
FanoutKeeps ==
  Is("fanout") /\ Fanout!Completes(x.rows, x.reg) =>
    /\ Fanout!ItemsReachTags(x.rows, x.reg, <<>>)
    /\ Fanout!UnitsShared(x.rows, x.reg, <<>>)
    /\ Fanout!TotalsKept(x.rows, x.reg, <<>>)

-----------------------------------------------------------------------------
(* Tag headers, item rows and ranges of one columnar sheet *)

Cell(k, tags, packed) == [kind |-> k, tags |-> tags, packed |-> packed]
Blank == Cell("none", <<>>, <<>>)
Tag1 == Cell("tag", <<"a">>, <<>>)
Packed == Cell("tag", <<"ab">>, <<"a1", "b1">>)
Tag2 == Cell("tag", <<"c", "d">>, <<>>)
Tag3 == Cell("tag", <<"e", "f", "h">>, <<>>)
Ids == Cell("ids", <<"i", "j">>, <<>>)
Annexed == Cell("annex", <<"x">>, <<>>)
HeadRows == {<<Blank, Tag1, Blank>>, <<Blank, Blank, Tag2>>, <<Tag3, Annexed, Ids>>, <<Tag2, Packed, Blank>>}
ItemRow(nr, total, qty, marks, footer, group) ==
  [nr |-> nr, desc |-> TRUE, footer |-> footer, total |-> total, group |-> group, qty |-> qty, marks |-> marks]
ItemRows ==
  {ItemRow({1}, {t}, <<{}, {2}, {p}>>, m, FALSE, g) : t \in {4, 6}, p \in {0, 1, 2, 4}, m \in {{}, {1}}, g \in {{}, {1}}}
    \cup {ItemRow({}, {}, <<{}, {}, {}>>, {}, f, {}) : f \in BOOLEAN}
Numbers == {{}, {1}, {2}, {3}, {4}, {5}}

GrowHead ==
  /\ Is("columns") /\ x.rows = <<>> /\ Len(x.head) < 2
  /\ \E h \in HeadRows : x' = [x EXCEPT !.head = Append(@, h)]
SetUnits ==
  /\ Is("columns") /\ x.rows = <<>> /\ x.head # <<>>
  /\ \E u \in {1, 2}, c \in {2, 3} : x' = [x EXCEPT !.units[c] = {u}]
GrowItems ==
  /\ Is("columns") /\ x.head # <<>> /\ Len(x.rows) < 2
  /\ \E r \in ItemRows : x' = [x EXCEPT !.rows = Append(@, r)]
GrowRun ==
  /\ Is("runs") /\ Len(x) < 4
  /\ \E a, b \in Numbers : (a = {} \/ b = {}) /\ x' = Append(x, (1 :> {}) @@ (2 :> a) @@ (20 :> b))

\* Quantities add up, a column's tags are its own, gaps are filled from above, runs are whole.
ColumnsAddUp ==
  /\ Is("columns") /\ x.head # <<>> =>
       TagColumns!FittedAddsUp(x) /\ TagColumns!OwnTagsWin(x) /\ TagColumns!FilledFromAbove(x)
  /\ Is("runs") => \A start \in 1..Len(x) : TagColumns!RunReadWhole(x, {1}, start)

-----------------------------------------------------------------------------
(* Annexure sheets: their headings, tables and serial numbers *)

Heading(r, c, field, len, old) == [row |-> r, col |-> c, field |-> field, len |-> len, old |-> old]
Headings ==
  {Heading(r, c, "tag", l, o) : r \in {1, 2}, c \in {2, 4}, l \in {3, 6}, o \in BOOLEAN}
    \cup {Heading(2, c, f, 5, FALSE) : c \in {1, 3}, f \in {"model", "serial"}}
Theme(a, b) == (2 :> a) @@ (4 :> b)
Serial(whole, sep, parts) == [whole |-> whole, sep |-> sep, parts |-> parts]
Serials == {Serial("s1", "", <<"s1">>), Serial("p / q", "/", <<"p", "q">>)}
TableRow(t2, t4, group) ==
  [tags |-> (2 :> t2) @@ (4 :> t4), group |-> group, model |-> (1 :> {}) @@ (3 :> {}), serial |-> (1 :> {}) @@ (3 :> {}), mfr |-> {}]
TableRows == {TableRow(t, u, g) : t \in {<<>>, <<"a", "b">>}, u \in {<<>>, <<"b">>}, g \in {{}, {1}}}
OneColumn == {Heading(1, 2, "tag", 6, FALSE), Heading(1, 3, "model", 5, FALSE)}
TwoColumns == {Heading(1, 2, "tag", 6, FALSE), Heading(1, 4, "tag", 6, FALSE)}
AnnexSheet(name, heads) ==
  [role |-> name[1], key |-> name[2], digits |-> name[3], list |-> <<>>, heads |-> heads, theme |-> Theme(0, 0), table |-> <<>>]
AnnexNames == {<<TRUE, {}, {}>>, <<FALSE, {1}, {1}>>, <<TRUE, {10}, {1}>>, <<TRUE, {2}, {2}>>, <<FALSE, {}, {}>>}
Column(n, serial) == [key |-> <<n, 0>>, serial |-> serial, items |-> {}]
Entry(model, serial) == [tag |-> {"t"}, serial |-> serial, group |-> {}, model |-> model, mfr |-> {}]

GrowHeadings ==
  /\ Is("headings") /\ Cardinality(x.cells) < 3
  /\ \E h \in Headings : /\ \A g \in x.cells : <<g.row, g.col>> # <<h.row, h.col>>
                         /\ x' = [x EXCEPT !.cells = @ \cup {h}]
Paint == Is("headings") /\ \E a, b \in 0..1 : x' = [x EXCEPT !.theme = Theme(a, b)]
GrowAnnexures ==
  /\ Is("annexures") /\ Len(x) < 2 /\ (x # <<>> => Len(x[1].table) < 3)
  /\ \E n \in AnnexNames, h \in {OneColumn, TwoColumns} : x' = Append(x, AnnexSheet(n, h))
GrowTable ==
  /\ Is("annexures") /\ x # <<>> /\ Len(x[Len(x)].table) < (IF Len(x) = 1 THEN 3 ELSE 1)
  /\ \E r \in TableRows : x' = [x EXCEPT ![Len(x)].table = Append(@, r)]
GrowEntries ==
  /\ Is("serials") /\ Len(x.entries) < 3
  /\ \E m \in {{}, {1}, {2}}, s \in {{}, {"own"}} : x' = [x EXCEPT !.entries = Append(@, Entry(m, s))]
GrowColumns ==
  /\ Is("serials") /\ Len(x.columns) < 3
  /\ \E n \in {1, 2}, s \in {{}, {"A"}, {"B"}} : x' = [x EXCEPT !.columns = Append(@, Column(n, s))]

\* Every tag of an annexure is registered, under its own columns and with its own serial.
AnnexureIsRead ==
  /\ Is("headings") => Registry!ColumnsFit(x.cells, x.theme)
  /\ Is("annexures") => Registry!TagsRegistered(x)
  /\ Is("serials") => /\ Registry!SerialsAligned(IF x.entries = <<>> THEN <<>> ELSE (<<1, 0>> :> x.entries), x.columns)
                      /\ \A n \in 1..3, s \in Serials : Registry!SerialPerTag(s, n)

-----------------------------------------------------------------------------
(* Old material numbers *)

Segments == {<<31, 14, 23>>, <<4, 4, 6, 0>>, <<0, 0, 1>>, <<5>>, <<4, 3>>, <<0, 1, 1, 5>>, <<13, 16>>,
             <<10, 11, 12, 13, 14>>, <<10>>, <<0, 0>>, <<10, 4, 10>>, <<1, 2, 3, 4, 5>>, <<0, 1, 2, 3, 4>>}
\* What a fourth and a fifth segment follow: project, discipline, subgroup; or project, type, discipline.
Openings == {<<<<4, 4, 6, 0>>, <<5>>, <<4, 3>>>>, <<<<4, 4, 6, 0>>, <<10, 11, 12, 13, 14>>, <<5>>>>}
Sheets == {1, 2, 12}
Lines == {1, 12, 100}
Sequences10 == {<<1, 2, 3, 4, 5>>, <<0, 0, 0, 1, 2>>, <<5>>, <<5, 1>>, <<0, 5, 1, 1>>, <<1, 1, 0, 0, 1>>, <<0, 0>>, <<1, 0>>}

GrowNumber ==
  /\ Is("numbers") /\ (Len(x) < 3 \/ (Len(x) < 5 /\ \E o \in Openings : IsPrefix(o, x)))
  /\ \E s \in Segments : x' = Append(x, s)

OutSheet(role, named, overflow) == [role |-> role, named |-> named, overflow |-> overflow]
OutSheets == <<OutSheet("data", FALSE, FALSE), OutSheet("continuation", TRUE, FALSE), OutSheet("data", FALSE, FALSE),
               OutSheet("data", FALSE, TRUE), OutSheet("utility", FALSE, FALSE)>>
GrowOut ==
  /\ Is("output") /\ Len(x) < 3
  /\ \E s \in {1, 2, 3, 4}, t \in {"a", "b"}, i \in 0..2 : x' = Append(x, [sheet |-> s, tag |-> t, item |-> i])

\* The numbers of the lines of one file differ; they fit the field, but for a strict one with
\* a long sequence; one led by a type of the document keeps its sequence; no row is lost.
NumbersTellApart ==
  /\ Is("output") => RowsAreNumbered(x, OutSheets, <<<<5>>, <<4, 3>>, <<0, 1>>>>)
  /\ Is("numbers") => /\ OmnTellsApart(x, Sheets, Lines) /\ OmnFits(x, Sheets, Lines)
                      /\ x = <<>> => \A n \in 1..9 : TypeLossless([i \in 1..n |-> 10], Sequences10, Sheets, Lines)

-----------------------------------------------------------------------------
(* Rows to compare *)

PartNos == {[text |-> 0, num |-> 0], [text |-> 1, num |-> 1], [text |-> 2, num |-> 1], [text |-> 3, num |-> 3]}
DupSheets == {[rank |-> 1, main |-> TRUE], [rank |-> 2, main |-> TRUE], [rank |-> 1, main |-> FALSE]}
Omns == {NoOmn, [sheet |-> 1, line |-> 1, body |-> 1], [sheet |-> 2, line |-> 1, body |-> 1]}
DupRows ==
  {r \in [part : PartNos, desc : {1}, sap : 0..2, omn : Omns, sheet : DupSheets, item : 0..2] :
     /\ r.part.text = 0 => r.sap = 0
     /\ r.omn # NoOmn => r.item = 1 /\ r.sheet.rank = 1
     /\ r.item = 0 => r.part.text = 0
     /\ r.sap # 0 => r.omn = NoOmn /\ r.item = 1 /\ r.sheet.rank = 1 /\ r.sheet.main}

GrowRows == Is("dups") /\ Len(x) < 3 /\ \E r \in DupRows : x' = Append(x, r)

\* Conflicts of SAP numbers are marked, up to the majority; spares that repeat are marked, name
\* each other and are counted.
DuplicatesNamed == Is("dups") => SapConflictsNamed(x) /\ SpareGroupsNamed(x) /\ SpareGroupsCounted(x)

-----------------------------------------------------------------------------
(* Sheets of a workbook to analyse *)

BookSheets ==
  {s \in [hint : {"utility", "annexure", "continuation", "plain"}, visible : BOOLEAN, header : BOOLEAN,
          layout : {"none", "column_headers", "row_headers"}, cols : {{}, {"description", "qty"}, {"description", "qty", "price"}},
          low : {{}, {"price"}}, spir : {<<>>, <<1, 2, 3, 4, 5>>, <<1, 2, 3, 5>>}, keys : {{}, {"revision"}}] :
     /\ ~ s.visible => s.hint = "plain" /\ s.header /\ s.layout = "none" /\ s.cols = {} /\ s.low = {}
     /\ s.low # {} => s.layout = "none" /\ s.cols = {}
     /\ ~ s.header => s.cols = {} /\ s.spir = <<>> /\ s.low = {} /\ s.keys = {}
     /\ s.hint = "utility" => s.header /\ s.layout = "none"}
WithFilled(s) ==
  [hint |-> s.hint, visible |-> s.visible, filled |-> s.layout # "none" \/ s.keys # {}, header |-> s.header,
   layout |-> s.layout, cols |-> s.cols, low |-> s.low, spir |-> s.spir, keys |-> s.keys]
FileName == <<1, 2, 3, 4>>

GrowBook == Is("book") /\ Len(x) < 2 /\ \E s \in BookSheets : x' = Append(x, WithFilled(s))

\* Metadata are lent only within one SPIR. A continuation leads to an earlier sheet that
\* continues nothing; that one is read, unless it turned out to belong to another SPIR.
BookIsCoherent ==
  Is("book") => \A file \in {FileName, <<>>} :
    MetadataIsOwn(Shown(x), file) /\ ContinuationsRooted(Shown(x), file)

-----------------------------------------------------------------------------
(* Sheets with one row per spare or per tag *)

RowSerials ==
  {NoSerial, [sep |-> "none", parts |-> <<5>>], [sep |-> ",", parts |-> <<5, 6>>], [sep |-> "-", parts |-> <<5, 106>>],
   [sep |-> "-", parts |-> <<5, 6>>]}
Profiles ==
  {[layout |-> l, global |-> IF l = "global_tag" THEN g ELSE <<>>, metaSerial |-> Whole(m),
    metaQty |-> 3, metaCurrency |-> 1, own |-> TRUE] :
     l \in {"tag_column", "global_tag", "none"}, g \in {<<1>>, <<1, 2>>}, m \in {NoSerial, [sep |-> "none", parts |-> <<9>>]}}
ListRows ==
  {r \in [kind : {"data", "stub", "footer"}, desc : BOOLEAN, part : BOOLEAN, item : {0, 1}, tags : {<<>>, <<3>>, <<3, 4>>},
          serial : RowSerials, equip : BOOLEAN, units : {FALSE}] :
     r.kind # "data" => ~ r.part /\ r.desc /\ r.item = 0 /\ ~ r.equip /\ r.serial = NoSerial}

GrowList ==
  /\ Is("list") /\ Len(x.rows) < 2
  /\ \E r \in ListRows : /\ x.rows # <<>> => r.serial \in {NoSerial, x.rows[1].serial}
                         /\ x' = [x EXCEPT !.rows = Append(@, r)]

GrowLabelled ==
  /\ Is("labelled") /\ Len(x) < 3
  /\ \E k \in {"data", "footer"}, l \in {<<>>, <<1>>, <<1, 2>>}, d \in BOOLEAN, t \in {<<>>, <<3>>} :
       x' = Append(x, [kind |-> k, label |-> l, desc |-> d, part |-> FALSE, tags |-> t, item |-> Len(x) + 1])

\* Every spare reaches its tags, the tag of a whole sheet appears once, sheets are read downwards.
ListIsComplete ==
  /\ Is("list") => SparesReachTags(x.rows, x.profile) /\ GlobalTagOnce(x.rows, x.profile)
  /\ Is("labelled") => ReadDownwards(x)

-----------------------------------------------------------------------------
(* Cells with tags, and where they stand *)

TagSheet(label, rows) ==
  [tagCol |-> 1, columns |-> <<[raw |-> 3, clean |-> 0, named |-> TRUE], [raw |-> 2, clean |-> 2, named |-> FALSE]>>,
   label |-> label, rows |-> rows, labels |-> 2, global |-> 1]
Header3 == <<"tag", "tag", "tag">>
Dash == TagParts!Hyphen
CellTexts == {<<10, Dash, 0, 5>>, <<10, Dash, 5, TagParts!Space, 11>>, <<10, Dash, 5, 11>>, <<11>>, <<7>>, <<0, 6>>, <<11, 5>>, <<5, Dash, 10>>}
Codes == {<<10>>, <<11>>, <<12>>, <<10, 11>>, <<10, 5>>}
Stems == {<<10, Dash, 5>>, <<10, Dash, 5, TagParts!Space>>, <<10, Dash, 5, Dash>>, <<10, 5, 11, 5>>}

GrowParts == Is("parts") /\ Len(x) < 3 /\ \E t \in CellTexts : x' = Append(x, t)
GrowCodes == Is("codes") /\ Len(x) < 3 /\ \E t \in Codes : x' = Append(x, t)
GrowLabel == Is("label") /\ Len(x) < 5 /\ \E t \in {"blank", "tag", "list", "annexure", "text", "break"} : x' = Append(x, t)
GrowTagRow == Is("tagrow") /\ Len(x) < 10 /\ \E t \in {"blank", "tag"} : x' = Append(x, t)

\* No tag of a cell is lost or doubled; right of the label no tag is skipped; and of the row
\* that decides, the one with the most tags, the longest chain of tags is taken whole.
TagsAreFound ==
  /\ Is("parts") => TagParts!PartsKept(x)
  /\ Is("codes") => \A b \in Stems : TagParts!UnitsAgree(b, x)
  /\ Is("label") => TagParts!HeaderTagsFound(TagSheet(x, <<>>))
  /\ Is("tagrow") => \A rows \in {<<x>>, <<x, Header3>>, <<<<"tag">>, x>>} :
                       TagParts!HeaderTagsFound(TagSheet(<<>>, rows))

-----------------------------------------------------------------------------
(* Rows above the data: the header, the columns, the type of the SPIR *)

HeadCells ==
  {<<a, b, c, d>> : a \in {"blank", "item", "word"}, b \in {"blank", "item", "crit"}, c \in {"key", "crit", "site"},
                    d \in {"key", "item", "blank", "rare"}}
Blanks(n) == [i \in 1..n |-> <<"blank">>]
ColumnFacts ==
  {f \in [samples : {2, 3}, numeric : {0, 60}, whole : {60}, alpha : {0, 50}, reject : {FALSE}, prefers : {"", "model"}] :
     f.samples = 3 \/ (f.numeric = 60 /\ f.alpha = 0)}
Fields == <<"description", "quantity", "model">>
Above(columns) ==
  <<[header |-> TRUE, core |-> FALSE, scores |-> [i \in DOMAIN columns |-> columns[i].upper]],
    [header |-> TRUE, core |-> TRUE, scores |-> [i \in DOMAIN columns |-> <<0, 0, 0>>]],
    [header |-> FALSE, core |-> TRUE, scores |-> [i \in DOMAIN columns |-> columns[i].lower]],
    [header |-> TRUE, core |-> TRUE, scores |-> [i \in DOMAIN columns |-> columns[i].lower]]>>

GrowHeader == Is("header") /\ Len(x) \in {1, 2, 29, 30} /\ \E r \in HeadCells : x' = Append(x, r)
GrowMap ==
  /\ Is("map") /\ Len(x) < 2
  /\ \E f \in ColumnFacts, a \in {0, 35, 80}, b, c \in {35, 80}, d \in {0, 80} :
       x' = Append(x, [facts |-> f, upper |-> <<a, b, c>>, lower |-> <<0, 0, d>>])
GrowBoxes ==
  /\ Is("type") /\ Len(x.boxes) < 2 /\ x.labels = <<>>
  /\ \E t \in {{}, {None}, {1}, {1, 2}}, st \in 0..2 : x' = [x EXCEPT !.boxes = Append(@, [types |-> t, state |-> st])]
\* Two captions side by side, or one below the other, where their ticks stand in one column.
Caption(type, line, header, covered, beside) ==
  [type |-> type, line |-> line, header |-> header, covered |-> covered, beside |-> beside]
GrowLabels ==
  /\ Is("type") /\ x.labels = <<>> /\ Len(x.boxes) < 2
  /\ \E h, v \in BOOLEAN, a, b \in 0..2 :
       x' = [x EXCEPT !.labels = <<Caption(3, 1, h, h, a), Caption(1, IF v THEN 2 ELSE 1, FALSE, v /\ h, b)>>]
GrowTicks ==
  /\ Is("type") /\ x.labels # <<>> /\ Len(x.rows) < 2 /\ x.values = <<>>
  /\ \E a, b \in {0, 1, 2, 9} :
       /\ IF IsVertical(x.labels) THEN a = b /\ (x.rows = <<>> => a = 9) ELSE a # 9 /\ b # 2
       /\ x' = [x EXCEPT !.rows = Append(@, <<a, b>>)]
GrowValues ==
  /\ Is("type") /\ x.labels # <<>> /\ Len(x.values) < 3
  /\ \E b \in BOOLEAN : x' = [x EXCEPT !.values = Append(@, b)]

GrowCells ==
  /\ kind \in {"number", "revision"} /\ Len(x) < 2
  /\ \E a, b, c \in {"", "label", "own"} \cup (IF Is("number") THEN {"number", "inside"} ELSE {"token", "text"}) :
       x' = Append(x, <<a, b, c>>)
GrowValued ==
  /\ Is("valued") /\ Len(x) < 4
  /\ \E f \in {"equipment", "spir_no", "project"}, v \in {"name", "ref", ""} : x' = Append(x, [field |-> f, value |-> v])

GrowEnd == Is("end") /\ Len(x) < 8 /\ \E r \in {"blank", "data", "right", "footer"} : x' = Append(x, r)

\* No better header row is passed over, no column maps worse for its order, no type is guessed.
HeadIsRead ==
  /\ Is("header") => HeaderNotDominated(x)
  /\ Is("map") => MappingStable(Above(x), 2, [i \in DOMAIN x |-> x[i].facts], Fields, 30)
  /\ Is("type") => TypeNotGuessed(x)
  /\ Is("end") => DataReadWhole(x, 1)
  /\ Is("number") => NumberFound(x, 3)
  /\ Is("revision") => RevisionFound(x)
  /\ Is("valued") => \A n \in 0..Len(x), t \in BOOLEAN :
       MetadataKept(SubSeq(x, 1, n), SubSeq(x, n + 1, Len(x)), t, "number")

-----------------------------------------------------------------------------
(* The parts of an upload that the storage holds *)

GrowUpload ==
  /\ Is("upload")
  /\ \E i \in 1 .. PartCount(x.size, x.part) + 1, bytes \in 1 .. x.part :
       i \notin DOMAIN x.held /\ x' = [x EXCEPT !.held = (i :> bytes) @@ @]

\* Browser and API cut the file alike, and one round repairs what another left behind.
PartsMakeTheFile ==
  Is("upload") => /\ SlicesCoverFile(x.size, x.part)
                  /\ CompleteIsWhole(x.held, x.size, x.part)
                  /\ RedoCompletes(x.held, x.size, x.part)

-----------------------------------------------------------------------------

Init ==
  \/ kind \in {"groups", "runs", "annexures", "numbers", "dups", "book", "parts", "codes", "label", "tagrow", "map",
             "output", "labelled", "end", "number", "revision", "valued"} /\ x = <<>>
  \/ Is("upload") /\ x \in [size : 1 .. 9, part : 1 .. 4, held : {<<>>}] /\ Splits(x.size, x.part)
  \/ Is("fanout") /\ x \in [rows : {<<>>}, reg : Annexures]
  \/ /\ Is("columns")
     /\ x = [cols |-> <<3, 2>>, head |-> <<>>, tagRows |-> {2}, units |-> (2 :> {}) @@ (3 :> {}), rows |-> <<>>]
  \/ Is("headings") /\ x = [cells |-> {}, theme |-> Theme(0, 0)]
  \/ Is("serials") /\ x = [entries |-> <<>>, columns |-> <<>>]
  \/ Is("list") /\ x \in [rows : {<<>>}, profile : Profiles]
  \/ Is("header") /\ x \in {Blanks(1), Blanks(29)}
  \/ Is("type") /\ x \in [legacy : BOOLEAN, boxes : {<<>>}, labels : {<<>>}, rows : {<<>>}, values : {<<>>}]

Next ==
  /\ UNCHANGED kind
  /\ \/ GrowGroups \/ GrowFanout \/ GrowHead \/ SetUnits \/ GrowItems \/ GrowRun
     \/ GrowHeadings \/ Paint \/ GrowAnnexures \/ GrowTable \/ GrowEntries \/ GrowColumns
     \/ GrowNumber \/ GrowRows \/ GrowBook \/ GrowList
     \/ GrowParts \/ GrowCodes \/ GrowLabel \/ GrowTagRow
     \/ GrowHeader \/ GrowMap \/ GrowBoxes \/ GrowLabels \/ GrowTicks \/ GrowValues
     \/ GrowUpload \/ GrowOut \/ GrowLabelled \/ GrowEnd \/ GrowCells \/ GrowValued

Spec == Init /\ [][Next]_<<kind, x>>

=============================================================================
