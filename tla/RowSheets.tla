------------------------------ MODULE RowSheets ------------------------------
(***************************************************************************)
(* Sheets that are read row by row: tags in a column, or one tag for all   *)
(* (extraction/strategies/tabular.py), and tags as the labels of rows      *)
(* (extraction/strategies/transposed.py).                                  *)
(*                                                                         *)
(* A row is [kind, desc, part, item, tags, serial, equip, units]: kind is  *)
(* "data", "stub" (a short code as description), "footer" or "blank"; desc,*)
(* part, equip (model or maker filled) and units (their number is) are     *)
(* flags, item a number or 0, tags the tags of the tag cell, serial [sep,  *)
(* parts]: the separator and the pieces of the serial cell, a piece being  *)
(* a number or a text (above 100).                                         *)
(* A profile is [layout, global, metaSerial, metaQty, metaCurrency, own]:  *)
(* global the tags of the sheet, own whether there is a currency column.   *)
(* Left out: prices and the joined description.                            *)
(***************************************************************************)
EXTENDS Integers, SequencesExt

NoSerial == [sep |-> "none", parts |-> <<>>]
Whole(serial) == [whole |-> serial]

-----------------------------------------------------------------------------
(* One serial per tag when the pieces are as many as the tags; a hyphen divides only *)
(* numbers. Else every tag has the whole text.                                       *)

SplitSerialForTags(serial, count) ==
  LET piecewise == /\ count > 1 /\ serial.sep \in {"to", "/", ",", "-"}
                   /\ Len(serial.parts) = count
                   /\ serial.sep = "-" => \A i \in DOMAIN serial.parts : serial.parts[i] < 100
  IN [i \in 1..count |-> IF piecewise THEN Whole([sep |-> "none", parts |-> <<serial.parts[i]>>])
                         ELSE Whole(serial)]

\* A serial without a digit is a fragment of another text.
RealSerial(serial) ==
  IF \E i \in DOMAIN serial.parts : serial.parts[i] < 100 THEN serial ELSE NoSerial

\* Rows up to the footer.
BeforeFooter(rows) ==
  LET feet == {i \in DOMAIN rows : rows[i].kind = "footer"}
  IN IF feet = {} THEN rows ELSE SubSeq(rows, 1, Min(feet) - 1)

\* Mutant: only a row with a description counts; a spare known by its part number alone and the
\* row of a tag with its equipment are dropped.
KeptDescribed(row, layout) == row.kind = "data" /\ row.desc

\* A row counts when it describes a spare, or names a tag and its equipment.
Kept(row, layout) ==
  /\ row.kind # "blank"
  /\ ~(row.kind = "stub" /\ row.item = 0)
  /\ row.desc \/ row.part
     \/ (layout = "tag_column" /\ row.tags # <<>>
         /\ (row.equip \/ row.units \/ RealSerial(row.serial) # NoSerial))

\* The output rows of one row: one for each tag, one without tag when there is none.
ExpandRow(row, profile, n) ==
  LET tags    == IF profile.layout = "global_tag" /\ row.tags = <<>> THEN profile.global ELSE row.tags
      serials == SplitSerialForTags(RealSerial(row.serial), Max({Len(tags), 1}))
  IN [i \in 1..Max({Len(tags), 1}) |->
        [row |-> n, tag |-> IF tags = <<>> THEN 0 ELSE tags[i], item |-> row.item,
         serial |-> IF serials[i] = Whole(NoSerial) THEN profile.metaSerial ELSE serials[i],
         qty |-> IF ~row.units /\ profile.layout # "global_tag" THEN profile.metaQty ELSE 0,
         currency |-> IF ~profile.own THEN profile.metaCurrency ELSE 0]]

\* One equipment row per tag of the sheet, with what the sheet says of it.
EquipmentRows(profile) ==
  IF profile.layout # "global_tag" THEN <<>>
  ELSE [i \in DOMAIN profile.global |->
          [row |-> 0, tag |-> profile.global[i], item |-> 0, serial |-> profile.metaSerial,
           qty |-> profile.metaQty, currency |-> 0]]

Tabular(rows, profile) ==
  LET body == BeforeFooter(rows)
  IN EquipmentRows(profile)
     \o FlattenSeq([n \in DOMAIN body |-> IF Kept(body[n], profile.layout)
                                          THEN ExpandRow(body[n], profile, n) ELSE <<>>])

-----------------------------------------------------------------------------
\* The tag of a row is the last label above it; rows before the first label have their own.
Transposed(rows) ==
  LET body == BeforeFooter(rows)
      Labels(n) == {m \in 1..n : body[m].label # <<>>}
      TagsOf(n) == IF Labels(n) # {} THEN body[Max(Labels(n))].label ELSE body[n].tags
      Of(n) == LET tags == IF TagsOf(n) = <<>> THEN <<0>> ELSE TagsOf(n)
               IN [i \in DOMAIN tags |-> [tag |-> tags[i], item |-> body[n].item]]
  IN FlattenSeq([n \in DOMAIN body |-> IF body[n].desc \/ body[n].part THEN Of(n) ELSE <<>>])

\* Without a header row what is right of a label is read by its place among the filled
\* cells: description, quantity, part number. A dash (-1) is filled, but says nothing.
PureTransposed(row) ==
  LET filled == SelectSeq(row.cells, LAMBDA c : c # 0)
      Text(n) == IF Len(filled) >= n /\ filled[n] # -1 THEN filled[n] ELSE 0
  IN [i \in DOMAIN row.label |->
        [tag |-> row.label[i], desc |-> Text(1),
         qty |-> IF Text(2) < 100 THEN Text(2) ELSE 0, part |-> Text(3)]]

-----------------------------------------------------------------------------
(***************************************************************************)
(* What the two strategies promise                                         *)
(***************************************************************************)

\* Every spare above the footer comes once for each of its tags, in order and in one place;
\* pieces of a serial go to the tags in order, and no tag has a piece of another row.
SparesReachTags(rows, profile) ==
  LET out     == Tabular(rows, profile)
      body    == BeforeFooter(rows)
      At(n)   == {j \in DOMAIN out : out[j].row = n}
      Tags(n) == IF body[n].tags # <<>> THEN body[n].tags
                 ELSE IF profile.layout = "global_tag" THEN profile.global ELSE <<>>
  IN \A n \in DOMAIN rows :
       IF n \in DOMAIN body /\ (body[n].desc \/ body[n].part) /\ body[n].kind = "data"
       THEN \E k \in 0..Len(out) :
              /\ At(n) = (k + 1)..(k + Max({Len(Tags(n)), 1}))
              /\ \A i \in DOMAIN Tags(n) : out[k + i].tag = Tags(n)[i]
              /\ Tags(n) # <<>> /\ Len(Tags(n)) = Len(body[n].serial.parts) /\ body[n].serial.sep = ","
                 /\ (\A i \in DOMAIN Tags(n) : body[n].serial.parts[i] < 100)
                 => \A i \in DOMAIN Tags(n) : out[k + i].serial.whole.parts = <<body[n].serial.parts[i]>>
       ELSE n \in DOMAIN body \/ At(n) = {}

\* A tag of the whole sheet has one equipment row, before its spares, and the quantity of the
\* equipment is never repeated on the spares.
GlobalTagOnce(rows, profile) ==
  LET out   == Tabular(rows, profile)
      heads == {i \in DOMAIN out : out[i].row = 0}
  IN profile.layout = "global_tag" =>
       /\ \A i \in DOMAIN profile.global :
            \E h \in heads : out[h].tag = profile.global[i] /\ \A j \in heads \ {h} : out[j].tag # out[h].tag
       /\ \A i \in DOMAIN out \ heads : out[i].qty = 0 /\ \A h \in heads : h < i

\* A row below never changes what was read above it, and a label starts anew: what is above
\* it never changes what is read below.
ReadDownwards(rows) ==
  LET Read(a, b) == Transposed(SubSeq(rows, a, b))
      whole == Transposed(rows)
  IN \A n \in DOMAIN rows :
       /\ IsPrefix(Read(1, n), whole)
       /\ rows[n].label # <<>> /\ (\A m \in 1..(n - 1) : rows[m].kind # "footer")
            => whole = Read(1, n - 1) \o Read(n, Len(rows))
=============================================================================
