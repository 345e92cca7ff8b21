----------------------------- MODULE SheetGroups -----------------------------
(***************************************************************************)
(* How the matrix sheets (tags as column headers) of a workbook are put    *)
(* together: which sheets are mains of their own, which are overflow pages *)
(* or continuations, whose item list each sheet is read with, and which    *)
(* rows come out (extraction/unified_extractor.py, 251-743).               *)
(*                                                                         *)
(* A workbook is a sequence of sheets; a sheet is named by its position:   *)
(*   conti   its name contains "conti"                                     *)
(*   marks   the numbers in parentheses in its name                        *)
(*   main    it maps an item number, a description and two more columns    *)
(*   score   how many of the five data columns it maps                     *)
(*   own     the items it describes: item number -> has a description      *)
(*   listed  the item numbers its tag columns hold quantities for          *)
(*   tags    the tags of its columns, left to right                        *)
(* Rows without an item number and failures inside a sheet are left out.   *)
(***************************************************************************)
EXTENDS Integers, SequencesExt

Header == 0   \* the item of an equipment row

Indices(W) == [i \in DOMAIN W |-> i]

\* Item numbers are positive; 0 stands for "no item" in a maximum.
Top(S) == IF S = {} THEN 0 ELSE Max(S)

\* What is known of each item a sheet describes, and where it was read.
ReadItems(W, i) ==
  [k \in DOMAIN W[i].own |-> [from |-> i, nr |-> k, desc |-> W[i].own[k]]]

\* A sheet with an item list of its own that is not named a continuation.
PrimaryMain(s) == ~s.conti /\ s.main

Primaries(W) == SelectSeq(Indices(W), LAMBDA i : PrimaryMain(W[i]))

\* A main with the tags of the main kept last, whose items all come after those seen
\* there and on its pages, is an overflow page of that main.
SplitOverflow(W) ==
  LET Visit(acc, i) ==
        LET nums == DOMAIN W[i].own
            tags == Range(W[i].tags)
        IN IF /\ acc.kept # <<>> /\ tags # {} /\ nums # {}
              /\ tags = acc.tags /\ Min(nums) > acc.top
           THEN [acc EXCEPT !.pageOf[i] = Last(acc.kept), !.top = Max(nums)]
           ELSE [acc EXCEPT !.kept = Append(@, i), !.tags = tags, !.top = Top(nums)]
  IN FoldLeft(Visit,
              [kept |-> <<>>, pageOf |-> [i \in DOMAIN W |-> 0], tags |-> {}, top |-> 0],
              Primaries(W))

\* The main a sheet belongs to: a shared number in parentheses, else the last main
\* before it, else the first main.
MainOf(W, mains, c) ==
  LET marked == SelectSeq(mains, LAMBDA m : W[m].marks \cap W[c].marks # {})
      before == SelectSeq(mains, LAMBDA m : m < c)
  IN IF marked # <<>> THEN Head(marked)
     ELSE IF before # <<>> THEN Last(before) ELSE Head(mains)

\* The highest number of a continuation's item column, which is recognised by its 1, 2.
ContMaxItem(s) == IF {1, 2} \subseteq s.listed THEN Max(s.listed) ELSE 0

\* The sheet with most data columns, the first of equals, if it has at least two of them.
ItemSource(W, group) ==
  LET best == Max({W[i].score : i \in Range(group)})
  IN IF best >= 2
     THEN Head(SelectSeq(group, LAMBDA i : W[i].score = best))
     ELSE Head(group)

\* The source's items; the other sheets add items, and replace one without a description
\* by one that has it.
SharedItems(W, group) ==
  LET src == ItemSource(W, group)
      Merge(items, i) ==
        LET other == ReadItems(W, i) IN
        [k \in DOMAIN items \cup DOMAIN other |->
           IF \/ k \notin DOMAIN items
              \/ k \in DOMAIN other /\ other[k].desc /\ ~items[k].desc
           THEN other[k] ELSE items[k]]
  IN FoldLeft(Merge, ReadItems(W, src), SelectSeq(group, LAMBDA i : i # src))

\* The rows of one sheet read with the items given to it and those it describes itself:
\* per tag an equipment row and the items it holds a quantity for, or nothing.
SheetRows(W, i, given, main) ==
  LET own   == ReadItems(W, i)
      items == [k \in DOMAIN given \cup DOMAIN own |->
                  IF k \in DOMAIN given THEN given[k] ELSE own[k]]
      used  == SetToSortSeq(W[i].listed \cap DOMAIN items, LAMBDA a, b : a < b)
      Row(tag, k, from, nr) ==
        [sheet |-> i, label |-> i, main |-> main, tag |-> tag,
         item |-> k, from |-> from, nr |-> nr]
      TagRows(tag) ==
        IF used = <<>> THEN <<>>
        ELSE <<Row(tag, Header, i, 0)>>
             \o [n \in DOMAIN used |-> Row(tag, used[n], items[used[n]].from, items[used[n]].nr)]
  IN FlattenSeq([n \in DOMAIN W[i].tags |-> TagRows(W[i].tags[n])])

\* One group: its sheets read with one item list, the source first; an overflow page
\* repeats no equipment row.
GroupRows(W, group, main, pageOf) ==
  LET src     == ItemSource(W, group)
      ordered == <<src>> \o SelectSeq(group, LAMBDA i : i # src)
      items   == SharedItems(W, group)
      Visit(rows, i) ==
        LET seen == {r.tag : r \in {x \in Range(rows) : x.item = Header}}
            new  == SheetRows(W, i, items, IF main = 0 THEN i ELSE main)
        IN rows \o SelectSeq(new, LAMBDA r : \/ pageOf[i] = 0
                                             \/ r.item # Header
                                             \/ r.tag \notin seen)
  IN FoldLeft(Visit, <<>>, ordered)

\* Rows take the label of their main; a sheet named a continuation gets its own back.
Relabel(W, rows, main) ==
  [n \in DOMAIN rows |->
     IF W[rows[n].sheet].conti THEN rows[n] ELSE [rows[n] EXCEPT !.label = main]]

\* Mutant: the sections of a spanning continuation stay as they are.
RegroupNot(rows) == rows

\* All rows of a tag together, with the first of its equipment rows.
RegroupByTag(rows) ==
  LET tags  == FoldLeft(LAMBDA acc, r : IF r.tag \in Range(acc) THEN acc
                                        ELSE Append(acc, r.tag), <<>>, rows)
      Of(t) == LET mine == SelectSeq(rows, LAMBDA r : r.tag = t)
                   head == SelectSeq(mine, LAMBDA r : r.item = Header)
               IN (IF head = <<>> THEN <<>> ELSE <<Head(head)>>)
                  \o SelectSeq(mine, LAMBDA r : r.item # Header)
  IN FlattenSeq([n \in DOMAIN tags |-> Of(tags[n])])

\* The offset of each main's items in the numbering that runs through all mains.
Offset(W, mains, n) ==
  FoldLeft(LAMBDA acc, m : acc + Top(DOMAIN W[m].own), 0, SubSeq(mains, 1, n - 1))

\* A continuation that spans the mains is read once per main, with that main's items
\* shifted to the common numbering and shifted back in the rows.
GlobalRows(W, mains, c) ==
  LET Section(n) ==
        LET m       == mains[n]
            own     == ReadItems(W, m)
            off     == Offset(W, mains, n)
            top     == Top(DOMAIN own)
            shifted == [k \in {j + off : j \in DOMAIN own} |-> own[k - off]]
            Back(r) == IF r.item # Header /\ r.item - off \in 1..top
                       THEN [r EXCEPT !.item = @ - off] ELSE r
            rows    == SheetRows(W, c, shifted, m)
        IN IF DOMAIN own = {} THEN <<>> ELSE [x \in DOMAIN rows |-> Back(rows[x])]
  IN RegroupByTag(FlattenSeq([n \in DOMAIN mains |-> Section(n)]))

\* All rows of the matrix sheets of a workbook.
ColumnarRows(W) ==
  LET split   == SplitOverflow(W)
      mains   == split.kept
      pageOf  == split.pageOf
      others  == SelectSeq(Indices(W), LAMBDA i : ~PrimaryMain(W[i]))
      longest == Max({Top(DOMAIN W[m].own) : m \in Range(mains)})
      Global(c) == longest > 0 /\ ContMaxItem(W[c]) > longest
      Group(m) == <<m>>
                  \o SelectSeq(others, LAMBDA c : ~Global(c) /\ MainOf(W, mains, c) = m)
                  \o SelectSeq(Indices(W), LAMBDA p : pageOf[p] = m)
      globals == SelectSeq(others, Global)
  IN IF Len(mains) <= 1
     THEN GroupRows(W, Indices(W), IF mains = <<>> THEN 0 ELSE Head(mains), pageOf)
     ELSE FlattenSeq([n \in DOMAIN mains |->
                        Relabel(W, GroupRows(W, Group(mains[n]), mains[n], pageOf), mains[n])])
          \o FlattenSeq([n \in DOMAIN globals |-> GlobalRows(W, mains, globals[n])])
-----------------------------------------------------------------------------
(***************************************************************************)
(* What the grouping promises                                              *)
(***************************************************************************)

\* The main whose item list a sheet is read with, when there are several mains.
Owner(W, split, i) ==
  IF split.pageOf[i] # 0 THEN split.pageOf[i]
  ELSE IF PrimaryMain(W[i]) THEN i ELSE MainOf(W, split.kept, i)

\* A continuation numbered through all mains.
Spans(W, split, i) ==
  /\ ~PrimaryMain(W[i])
  /\ ContMaxItem(W[i]) > Max({Top(DOMAIN W[m].own) : m \in Range(split.kept)})

\* A sheet and its overflow pages name each of their tags in one equipment row only.
EquipmentOnce(W) ==
  LET split == SplitOverflow(W)
      heads == SelectSeq(ColumnarRows(W), LAMBDA r : r.item = Header)
      Place(r) == <<IF split.pageOf[r.sheet] # 0 THEN split.pageOf[r.sheet] ELSE r.sheet, r.tag>>
  IN Cardinality({Place(heads[n]) : n \in DOMAIN heads}) = Len(heads)

\* With several mains, a spare row carries the data of its own main, of that main's
\* overflow pages or of its continuations, never of another main, and names the item
\* by the number it has there.
NoForeignItems(W) ==
  LET split == SplitOverflow(W) IN
  Len(split.kept) > 1 =>
    \A r \in Range(ColumnarRows(W)) :
      r.item # Header => Owner(W, split, r.from) = r.main /\ r.nr = r.item

\* The items a sheet can name: those of its group, or of all mains in turn.
Nameable(W, split, i) ==
  CASE Len(split.kept) <= 1 -> UNION {DOMAIN W[j].own : j \in DOMAIN W}
    [] Len(split.kept) > 1 /\ Spans(W, split, i) ->
         UNION {{k + Offset(W, split.kept, n) : k \in DOMAIN W[split.kept[n]].own}
                  : n \in DOMAIN split.kept}
    [] OTHER ->
         UNION {DOMAIN W[j].own : j \in
                  {x \in DOMAIN W : /\ ~Spans(W, split, x)
                                    /\ Owner(W, split, x) = Owner(W, split, i)}}

\* Each use of an item that a sheet lists for a tag comes out as exactly one spare row.
UsesOnce(W) ==
  LET split == SplitOverflow(W)
      rows  == ColumnarRows(W)
  IN \A i \in DOMAIN W :
       LET known == Cardinality(W[i].listed \cap Nameable(W, split, i)) IN
       \A t \in Range(W[i].tags) :
         Len(SelectSeq(rows, LAMBDA r : r.sheet = i /\ r.tag = t /\ r.item # Header)) = known
=============================================================================
