--------------------------- MODULE MaterialNumber ---------------------------
(***************************************************************************)
(* The OLD MATERIAL NUMBER (OMN) of a spare: the number of the SPIR        *)
(* document, cut down to fit, then the index of the main sheet and the     *)
(* item number (extraction/post_processor.py), and the order of the rows.  *)
(*                                                                         *)
(* The width of the number is the point, so texts are sequences of         *)
(* symbols: digits 0-9, letters from 10 (A) to 35 (Z), Hyphen. A document  *)
(* number is the sequence of its segments, split at the hyphens.           *)
(* Left out: file extensions and revisions cut off the raw text, numbers   *)
(* computed in advance, positions of the rows of a tag.                    *)
(***************************************************************************)
EXTENDS Integers, SequencesExt

CONSTANT TargetLen   \* characters a material number may have, 18

ASSUME TargetLenAssumption == TargetLen \in Nat

Hyphen  == 99
L       == 21
Vendors == {<<31, 14, 23>>, <<13, 14, 22>>, <<12, 24, 23>>}   \* VEN, DEM, CON

AllDigits(seg)  == seg # <<>> /\ \A i \in DOMAIN seg : seg[i] < 10
AllLetters(seg) == seg # <<>> /\ \A i \in DOMAIN seg : seg[i] \in 10..35
Zero(seg)       == AllDigits(seg) /\ \A i \in DOMAIN seg : seg[i] = 0

\* A number in decimal, with zeros in front up to a width.
Decimal(n) == IF n < 10 THEN <<n>>
              ELSE IF n < 100 THEN <<n \div 10, n % 10>>
              ELSE <<n \div 100, (n \div 10) % 10, n % 10>>
ZFill(seg, width) == IF Len(seg) >= width THEN seg ELSE [i \in 1..(width - Len(seg)) |-> 0] \o seg
Two(n) == ZFill(Decimal(n), 2)

\* Segments joined by hyphens.
Join(segs) == FoldLeft(LAMBDA s, x : IF s = <<>> THEN x ELSE s \o <<Hyphen>> \o x, <<>>, segs)

StripVendor(segs) == IF segs # <<>> /\ Head(segs) \in Vendors THEN Tail(segs) ELSE segs

\* project - TYPE - number: the type leads the material number. Two letters are a class.
HasType(segs) ==
  /\ Len(segs) >= 3
  /\ AllDigits(segs[1]) /\ ~AllDigits(segs[2]) /\ AllDigits(segs[3])
  /\ ~(Len(segs[2]) = 2 /\ AllLetters(segs[2]))

\* project - class - numbers, zeros among them: the numbers are joined without the zeros.
\* A short fifth number stays apart.
CompactClassCode(body) ==
  LET rest    == SubSeq(body, 3, Len(body))
      version == Len(rest) >= 5 /\ Len(Last(rest)) <= 2
      core    == IF version THEN Front(rest) ELSE rest
      joined  == FlattenSeq(SelectSeq(core, LAMBDA s : ~Zero(s)))
  IN IF /\ Len(body) >= 5 /\ AllDigits(body[1])
        /\ Len(body[2]) = 2 /\ AllLetters(body[2])
        /\ \A i \in DOMAIN rest : AllDigits(rest[i])
        /\ \E i \in DOMAIN rest : Zero(rest[i])
        /\ joined # <<>>
     THEN <<body[1], joined>> \o (IF version THEN <<Last(rest)>> ELSE <<>>)
     ELSE body

\* A revision letter after digits goes.
DropRevision(body) ==
  IF /\ Len(body) >= 2 /\ Len(Last(body)) = 1 /\ AllLetters(Last(body))
     /\ AllDigits(body[Len(body) - 1])
  THEN Front(body) ELSE body

Canonical(segs) == DropRevision(CompactClassCode(StripVendor(segs)))

\* PROJ-DSSNNNN-SSLYY: project of four, discipline of one, subgroup of two digits.
FitsStrict(body, line) ==
  /\ Len(body) >= 4
  /\ Len(body[1]) >= 4
  /\ AllDigits(body[2]) /\ Len(body[2]) = 1
  /\ AllDigits(body[3]) /\ Len(body[3]) = 2
  /\ AllDigits(body[4])
  /\ line <= 99

Strict(body, sheet, line) ==
  Join(<<SubSeq(body[1], 1, 4), body[2] \o body[3] \o ZFill(body[4], 4),
         Two(sheet) \o <<L>> \o Two(line)>>)

\* The type, discipline, subgroup and sequence, with as many zeros stripped or hyphens
\* put in as it takes to have the exact length; nothing when that is not possible.
TypeBased(type, rest, sheet, line) ==
  LET suffix == Two(sheet) \o <<L>> \o Two(line)
      long   == ZFill(rest[3], 4)
      fixed  == Len(type) + 3 + Len(suffix)
      Kept(z) == SubSeq(long, z + 1, Len(long))
      \* leading zeros that may go, and those that have to
      zeros  == Max({z \in 0..(Len(long) - 1) : \A i \in 1..z : long[i] = 0})
      over   == fixed + Len(long) + 1 - TargetLen
      cut    == IF over <= 0 THEN 0 ELSE IF over <= zeros THEN over ELSE zeros
      seq    == Kept(cut)
      short  == TargetLen - (fixed + Len(seq) + 1)
      hyphens == IF short <= 0 THEN 0 ELSE IF short <= 3 THEN short ELSE 3
      apart  == short >= 0
      Sep(n) == IF hyphens >= n THEN <<Hyphen>> ELSE <<>>
      omn    == type \o Sep(1) \o rest[1] \o Sep(3) \o rest[2] \o Sep(2) \o seq
                \o (IF apart THEN <<Hyphen>> ELSE <<>>) \o suffix
  IN IF /\ Len(rest) >= 3
        /\ AllDigits(rest[1]) /\ Len(rest[1]) = 1
        /\ AllDigits(rest[2]) /\ Len(rest[2]) = 2 /\ AllDigits(rest[3])
     THEN IF Len(omn) = TargetLen THEN omn ELSE <<>>
     ELSE <<>>

-----------------------------------------------------------------------------
(* Shrinking a body [segs, suffix, fused] that is too long for its suffix  *)

Render(b) == Join(b.segs) \o (IF b.fused THEN <<>> ELSE <<Hyphen>>) \o b.suffix

\* Characters of segments without their hyphens.
Bare(segs) == FoldLeft(LAMBDA n, s : n + Len(s), 0, segs)

Length(b) == Bare(b.segs) + Len(b.segs) - 1 + (IF b.fused THEN 0 ELSE 1) + Len(b.suffix)

\* The rightmost number with a zero in front, the project excepted.
Padded(segs) == {i \in 2..Len(segs) : Len(segs[i]) >= 2 /\ AllDigits(segs[i]) /\ Head(segs[i]) = 0}

\* Two neighbours become one.
Fuse(b, i) ==
  [b EXCEPT !.segs = SubSeq(@, 1, i - 1) \o <<@[i] \o @[i + 1]>> \o SubSeq(@, i + 2, Len(@))]

\* Discipline and subgroup, unless 1 and 2 digits, and not below the target.
CanFuseDiscipline(b) ==
  /\ Len(b.segs) >= 4 /\ AllDigits(b.segs[1])
  /\ AllDigits(b.segs[2]) /\ AllDigits(b.segs[3])
  /\ Len(b.segs[2]) <= 2 /\ Len(b.segs[3]) <= 2
  /\ ~(Len(b.segs[2]) = 1 /\ Len(b.segs[3]) = 2)
  /\ Length(b) > TargetLen

\* The last two of four when the second has four digits.
CanFuseTail(b) ==
  /\ Len(b.segs) = 4 /\ Len(b.segs[2]) = 4
  /\ AllDigits(b.segs[2]) /\ AllDigits(b.segs[3]) /\ AllDigits(b.segs[4])

FuseTail(b) == IF CanFuseTail(b) THEN Fuse(b, 3) ELSE b

\* A zero goes; a sequence that still starts with 00 draws its neighbours together.
StripZero(b) ==
  LET i    == Max(Padded(b.segs))
      next == [b EXCEPT !.segs[i] = Tail(@)]
      seq  == next.segs[4]
  IN IF /\ Len(next.segs) >= 4
        /\ AllDigits(seq) /\ Len(seq) \in 2..3 /\ SubSeq(seq, 1, 2) = <<0, 0>>
        /\ CanFuseDiscipline(next)
     THEN Fuse(next, 2) ELSE FuseTail(next)

\* The digits of the sheet move to the last number of the body.
CanFuseSheet(b) == ~b.fused /\ Head(b.suffix) < 10 /\ AllDigits(Last(b.segs))

FuseSheet(b) ==
  LET l == CHOOSE i \in DOMAIN b.suffix : b.suffix[i] = L
  IN [segs   |-> Front(b.segs) \o <<Last(b.segs) \o SubSeq(b.suffix, 1, l - 1)>>,
      suffix |-> SubSeq(b.suffix, l, Len(b.suffix)), fused |-> TRUE]

\* One step, the first that is possible.
Shrink(b) ==
  CASE Padded(b.segs) # {} -> StripZero(b)
    [] CanFuseDiscipline(b) -> Fuse(b, 2)
    [] CanFuseTail(b) -> Fuse(b, 3)
    [] CanFuseSheet(b) -> FuseSheet(b)
    [] Len(b.segs) >= 2 -> Fuse(b, Len(b.segs) - 1)
    [] Len(b.segs[1]) > 1 -> [b EXCEPT !.segs[1] = Front(@)]
    [] OTHER -> b

\* Until it fits. A step that changes the body makes it shorter, so that these are enough.
Fit(b) == FoldLeft(LAMBDA c, n : IF Length(c) <= TargetLen THEN c ELSE Shrink(c), b,
                   [n \in 1..(Length(b) - TargetLen) |-> n])

\* Shrunk as far as possible; what is still too long is cut off.
Fitted(body, suffix) ==
  LET omn == Render(Fit([segs |-> IF body = <<>> THEN <<<<>>>> ELSE body,
                         suffix |-> suffix, fused |-> FALSE]))
  IN IF Len(omn) > TargetLen THEN SubSeq(omn, 1, TargetLen) ELSE omn

\* Mutant: the sheet is left out.
SuffixSheetless(sheet, line, mains) == <<L>> \o Two(line)

\* The suffix of the flexible form: the sheet only when there are several.
Suffix(sheet, line, mains) ==
  IF mains <= 1 THEN <<L>> \o Two(line) ELSE Decimal(sheet) \o <<L>> \o Decimal(line)

BuildOmn(spir, sheet, line, mains) ==
  LET segs == StripVendor(spir)
      body == Canonical(spir)
  IN IF HasType(segs)
     THEN TypeBased(segs[2], SubSeq(segs, 3, Len(segs)), sheet, line)
     ELSE IF FitsStrict(body, line) THEN Strict(body, sheet, line)
     ELSE Fitted(body, Suffix(sheet, line, mains))

-----------------------------------------------------------------------------
(* Sheets [role, named, overflow] in the order of the workbook: named says that the name *)
(* is that of a continuation or an annexure, overflow that it is a page of another       *)

NonMain(s) == s.named \/ s.role = "annexure" \/ s.overflow

\* Other sheets belong to the last main before them, the first ones to main 1.
SheetIdx(sheets, i) ==
  LET mains == {j \in 1..i : ~NonMain(sheets[j]) /\ sheets[j].role # "utility"}
  IN IF mains = {} THEN 1 ELSE Cardinality(mains)

MainSheets(sheets) ==
  LET mains == {j \in DOMAIN sheets : ~NonMain(sheets[j]) /\ sheets[j].role # "utility"}
  IN IF mains = {} THEN 1 ELSE Cardinality(mains)

\* Rows [sheet, tag, item] (item 0: equipment row) with position and number. Positions are
\* counted per tag as the rows came; then main sheets go in order, each before its other
\* sheets, else as they came.
PostProcess(rows, sheets, spir) ==
  LET Spares(i) == {j \in 1..i : rows[j].tag = rows[i].tag /\ rows[j].item # 0}
      Done(i) == [row |-> rows[i], pos |-> 10 * (IF rows[i].item = 0 THEN 1 ELSE Cardinality(Spares(i))),
                  omn |-> IF rows[i].item = 0 \/ spir = <<>> THEN <<>>
                          ELSE BuildOmn(spir, SheetIdx(sheets, rows[i].sheet), rows[i].item, MainSheets(sheets))]
      Of(idx, named) == SelectSeq([i \in DOMAIN rows |-> Done(i)],
        LAMBDA d : SheetIdx(sheets, d.row.sheet) = idx /\ sheets[d.row.sheet].named = named)
  IN FlattenSeq([idx \in 1..MainSheets(sheets) |-> Of(idx, FALSE) \o Of(idx, TRUE)])

-----------------------------------------------------------------------------
(***************************************************************************)
(* What the material number promises                                       *)
(***************************************************************************)

\* Two items of a document never get the same material number, whatever their sheets: as
\* long as the document number itself has room for the suffix.
OmnTellsApart(spir, sheets, lines) ==
  LET pairs == sheets \X lines IN
  spir # <<>> /\ Bare(Canonical(spir)) + 6 <= TargetLen =>
    \A omn \in {[p \in pairs |-> BuildOmn(spir, p[1], p[2], Cardinality(sheets))]} :
       \A p, q \in pairs : p # q /\ omn[p] # <<>> => omn[p] # omn[q]

\* No material number is longer than it may be, with one exception: a sequence of more than
\* four digits goes into the strict form whole ("18 chars exactly" there is not kept).
OmnFits(spir, sheets, lines) ==
  LET body == Canonical(spir)
      Excess(n) == IF ~HasType(StripVendor(spir)) /\ FitsStrict(body, n)
                   THEN Max({0, Len(body[4]) - 4}) ELSE 0
  IN spir # <<>> => \A s \in sheets, n \in lines :
       s <= 99 => Len(BuildOmn(spir, s, n, Cardinality(sheets))) <= TargetLen + Excess(n)

\* A number led by the type keeps every digit of the sequence that counts: different
\* sequences, sheets or items never meet in one number, whatever hyphens and zeros go.
TypeLossless(type, seqs, sheets, lines) ==
  LET Value(seq) == FoldLeft(LAMBDA n, d : 10 * n + d, 0, seq)
      cases == seqs \X sheets \X lines
  IN \A omn \in {[c \in cases |-> TypeBased(type, <<<<5>>, <<4, 3>>, c[1]>>, c[2], c[3])]} :
     \A c, d \in cases :
       omn[c] # <<>> /\ omn[c] = omn[d] => Value(c[1]) = Value(d[1]) /\ c[2] = d[2] /\ c[3] = d[3]

\* Nothing is lost when the rows are sorted, and the rows of a sheet stay in their order;
\* spares of a tag never share a position, and spares share a number exactly when they are
\* the same item of one main sheet with what belongs to it.
RowsAreNumbered(rows, sheets, spir) ==
  \A out \in {PostProcess(rows, sheets, spir)} :
  LET On(s) == SelectSeq(out, LAMBDA d : d.row.sheet = s)
      Line(d) == <<SheetIdx(sheets, d.row.sheet), d.row.item>>
  IN /\ \A s \in DOMAIN sheets :
          [i \in DOMAIN On(s) |-> On(s)[i].row] = SelectSeq(rows, LAMBDA r : r.sheet = s)
     /\ \A i, j \in DOMAIN out : i # j /\ out[i].row.item # 0 /\ out[j].row.item # 0 =>
          /\ out[i].row.tag = out[j].row.tag => out[i].pos # out[j].pos
          /\ out[i].omn = out[j].omn <=> Line(out[i]) = Line(out[j])
=============================================================================
