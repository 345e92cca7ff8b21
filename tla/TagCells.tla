------------------------------ MODULE TagCells ------------------------------
(***************************************************************************)
(* Tags in the cells of a sheet: the tags one cell stands for              *)
(* (utils/cell_utils.py), and where on a sheet the tags are                *)
(* (analysis/tag_locator.py).                                              *)
(*                                                                         *)
(* The text of a cell is a sequence of symbols: digits 0-9, letters from   *)
(* 10 to 35, Space and Hyphen (for any mark between codes).                *)
(***************************************************************************)
EXTENDS Integers, SequencesExt

Space  == 98
Hyphen == 99

Digit(x)  == x < 10
Letter(x) == x \in 10..35

Number(t) == t # <<>> /\ \A i \in DOMAIN t : Digit(t[i])
Upto(t, i)  == SubSeq(t, 1, i)
After(t, i) == SubSeq(t, i + 1, Len(t))

Ascending(set) == IF set = {} THEN <<>>
                  ELSE SelectSeq([i \in 1..Max(set) |-> i], LAMBDA i : i \in set)

\* A letter, then letters and digits: A, XA, 1 of 1A is not one.
Code(t, width) == /\ Len(t) \in 1..width /\ Letter(Head(t))
                  /\ \A i \in DOMAIN t : Digit(t[i]) \/ Letter(t[i])

-----------------------------------------------------------------------------
(* The parts of a cell between commas, slashes and the like *)

\* Where the suffix code of the first part starts: after a blank, else after a non-letter.
CodeAt(first) ==
  LET spaced == {i \in 2..(Len(first) - 1) : first[i] = Space /\ Code(After(first, i), 4)}
      direct == {i \in 1..(Len(first) - 1) : ~Letter(first[i]) /\ Code(After(first, i), 4)}
  IN IF spaced # {} THEN Max(spaced) ELSE IF direct # {} THEN Max(direct) ELSE 0

\* Where the digits at its end start.
DigitsAt(first) ==
  LET at == {i \in 0..(Len(first) - 1) : Number(After(first, i))}
  IN IF at = {} THEN Len(first) ELSE Min(at)

\* "P-3425 A/B" is P-3425 A and P-3425 B; "GV-146, 171" is GV-146 and GV-171, with the zeros
\* of a first number that has some. A part that is a tag of its own stays as it is.
SplitTags(parts) ==
  LET first  == Head(parts)
      cut    == CodeAt(first)
      digits == After(first, DigitsAt(first))
      padded == Len(digits) > 1 /\ Head(digits) = 0
      Zeros(p) == [i \in 1..(Len(digits) - Len(p)) |-> 0]
      Follow(p) ==
        IF padded /\ Number(p) /\ Len(p) < Len(digits) THEN Upto(first, DigitsAt(first)) \o Zeros(p) \o p
        ELSE IF \A i \in DOMAIN p : ~Letter(p[i]) /\ p[i] # Hyphen
        THEN Upto(first, DigitsAt(first)) \o p ELSE p
  IN IF Len(parts) < 2 THEN parts
     ELSE IF cut # 0 /\ \A i \in 2..Len(parts) : Code(parts[i], 4)
     THEN [i \in DOMAIN parts |-> IF i = 1 THEN first ELSE Upto(first, cut) \o parts[i]]
     ELSE IF digits # <<>>
     THEN [i \in DOMAIN parts |-> IF i = 1 THEN first ELSE Follow(parts[i])]
     ELSE parts

-----------------------------------------------------------------------------
(* One tag that packs the codes of as many units as are counted *)

\* The codes after a base end with a digit, or a digit and a mark.
BaseEnds(t, i) ==
  \/ i >= 1 /\ Digit(t[i])
  \/ i >= 2 /\ t[i] \in {Space, Hyphen} /\ Digit(t[i - 1])

\* Codes divided by marks; blanks around a mark are not modelled.
Codes(t) ==
  LET marks == {i \in DOMAIN t : t[i] \in {Space, Hyphen}} \cup {Len(t) + 1}
      Start(m) == Max({0} \cup {k \in marks : k < m})
      order == Ascending(marks)
  IN [n \in DOMAIN order |-> SubSeq(t, Start(order[n]) + 1, order[n] - 1)]

ExpandTagByCount(t, count) ==
  LET joined == Len(t) - count
      letters == After(t, joined)
      split  == {i \in 1..(Len(t) - 1) :
                   /\ BaseEnds(t, i) /\ Len(Codes(After(t, i))) = count
                   /\ \A n \in 1..count : Code(Codes(After(t, i))[n], 3)}
      codes  == Codes(After(t, Max(split)))
  IN IF count < 2 THEN <<t>>
     ELSE IF /\ joined >= 1 /\ BaseEnds(t, joined) /\ \A i \in DOMAIN letters : Letter(letters[i])
             /\ Cardinality(Range(letters)) = count
     THEN [i \in 1..count |-> Append(Upto(t, joined), letters[i])]
     ELSE IF split # {} /\ Cardinality(Range(codes)) = count
     THEN [i \in 1..count |-> Upto(t, Max(split)) \o codes[i]]
     ELSE <<t>>

-----------------------------------------------------------------------------
(***************************************************************************)
(* Where the tags are. A sheet is [tagCol, columns, label, rows, labels,   *)
(* global]: tagCol the mapped tag column or 0; columns [raw, clean, named] *)
(* the distinct values and tags of each column below the header and        *)
(* whether its header says tag; label the cells right of the equipment tag *)
(* label (<<>>: no label), rows those of the rows above the header, a cell *)
(* being "blank", "tag", "list", "annexure", "text" or "break"; labels the *)
(* number of rows below that start with a tag; global how many different   *)
(* tags there are in the header area.                                      *)
(***************************************************************************)

MinTags == 2

\* A mapped column with too few tags gives way to the purest column whose header says tag.
Rescan(columns, mapped) ==
  LET fit == {c \in DOMAIN columns \ {mapped} : columns[c].named /\ columns[c].clean >= MinTags}
      Purer(c, d) == columns[c].clean * columns[d].raw > columns[d].clean * columns[c].raw
      best == {c \in fit : \A d \in fit : ~Purer(d, c)}
  IN IF best = {} THEN 0 ELSE Min(best)

TagColumn(s) ==
  IF s.tagCol = 0 THEN 0
  ELSE LET c == s.columns[s.tagCol]
       IN IF (c.raw > 20 /\ 100 * c.clean < 30 * c.raw) \/ (c.clean = 0 /\ c.raw > 0)
          THEN Rescan(s.columns, s.tagCol)
          ELSE IF c.clean >= 1 THEN s.tagCol ELSE 0

\* Next to the label everything up to a section break is a tag; one alone has to look like it.
LabelColumns(cells) ==
  LET breaks == {i \in DOMAIN cells : cells[i] = "break"}
      until  == IF breaks = {} THEN Len(cells) ELSE Min(breaks) - 1
      found  == {i \in 1..until : cells[i] # "blank"}
  IN IF Cardinality(found) >= MinTags
        \/ (Cardinality(found) = 1 /\ \A i \in found : cells[i] \in {"tag", "list", "annexure"})
     THEN found ELSE {}

\* Mutant: a chain of tags ends at a gap of four.
FilterTagClusterTight(cols) ==
  LET Add(clusters, c) ==
        IF clusters # <<>> /\ c - Last(Last(clusters)) < 4
        THEN [clusters EXCEPT ![Len(clusters)] = Append(@, c)]
        ELSE Append(clusters, <<c>>)
      clusters == FoldLeft(Add, <<>>, Ascending(cols))
      longest  == {n \in DOMAIN clusters : \A m \in DOMAIN clusters : Len(clusters[m]) <= Len(clusters[n])}
  IN IF cols = {} THEN {} ELSE Range(clusters[Min(longest)])

\* Columns in a chain of gaps of at most four; of the chains the longest, the first of equals.
FilterTagCluster(cols) ==
  LET Add(clusters, c) ==
        IF clusters # <<>> /\ c - Last(Last(clusters)) <= 4
        THEN [clusters EXCEPT ![Len(clusters)] = Append(@, c)]
        ELSE Append(clusters, <<c>>)
      clusters == FoldLeft(Add, <<>>, Ascending(cols))
      longest  == {n \in DOMAIN clusters : \A m \in DOMAIN clusters : Len(clusters[m]) <= Len(clusters[n])}
  IN IF cols = {} THEN {} ELSE Range(clusters[Min(longest)])

\* Without a label: the row above the header with the most tags.
HeaderRowColumns(rows) ==
  LET Tags(n) == {i \in DOMAIN rows[n] : rows[n][i] \in {"tag", "annexure"}}
      most == {n \in DOMAIN rows : \A m \in DOMAIN rows : Cardinality(Tags(m)) <= Cardinality(Tags(n))}
      found == IF most = {} THEN {} ELSE FilterTagCluster(Tags(Min(most)))
  IN IF Cardinality(found) >= MinTags THEN found ELSE {}

ColumnHeaders(s) ==
  IF LabelColumns(s.label) # {} THEN LabelColumns(s.label) ELSE HeaderRowColumns(s.rows)

\* One tag for the sheet: the cell next to the label, whatever it says, else the only tag.
GlobalTag(s) == (s.label # <<>> /\ Head(s.label) # "blank") \/ s.global = 1

LocateTags(s) ==
  IF TagColumn(s) # 0 THEN [layout |-> "tag_column", cols |-> {TagColumn(s)}]
  ELSE IF ColumnHeaders(s) # {} THEN [layout |-> "column_headers", cols |-> ColumnHeaders(s)]
  ELSE IF s.labels >= MinTags THEN [layout |-> "row_headers", cols |-> {}]
  ELSE IF GlobalTag(s) THEN [layout |-> "global_tag", cols |-> {}]
  ELSE [layout |-> "none", cols |-> {}]

-----------------------------------------------------------------------------
(***************************************************************************)
(* What is promised                                                        *)
(***************************************************************************)

\* The ways to write several units of one equipment say the same: P-5 A/B, and P-5 AB or
\* P-5 A-B with two units counted, are the tags P-5 A and P-5 B. Codes with a mark between
\* them have to end alike, all with a digit or all with a letter: A5-AB is read as A5-A, A5-B.
UnitsAgree(base, codes) ==
  LET tags   == [i \in DOMAIN codes |-> base \o codes[i]]
      slash  == [i \in DOMAIN codes |-> IF i = 1 THEN base \o codes[1] ELSE codes[i]]
      dashed == base \o FoldLeft(LAMBDA t, c : IF t = <<>> THEN c ELSE t \o <<Hyphen>> \o c, <<>>, codes)
      single == \A i \in DOMAIN codes : Len(codes[i]) = 1
      alike  == \A i, j \in DOMAIN codes : Digit(Last(codes[i])) <=> Digit(Last(codes[j]))
  IN Cardinality(Range(codes)) = Len(codes) /\ codes # <<>> /\ BaseEnds(base, Len(base)) =>
       /\ SplitTags(slash) = tags
       /\ alike => ExpandTagByCount(dashed, Len(codes)) = tags
       /\ single => ExpandTagByCount(base \o FlattenSeq(codes), Len(codes)) = tags

\* Every part of a cell gives one tag, which ends with it, and a number written shorter than
\* the first one names the tag of that width.
PartsKept(parts) ==
  LET tags  == SplitTags(parts)
      Ends(t, p) == Len(t) >= Len(p) /\ After(t, Len(t) - Len(p)) = p
      width == Len(Head(parts)) - DigitsAt(Head(parts))
  IN parts # <<>> =>
       /\ Len(tags) = Len(parts)
       /\ \A i \in DOMAIN parts : Ends(tags[i], parts[i])
       /\ \A i \in DOMAIN parts :
            /\ Number(parts[i]) /\ Number(After(Head(parts), DigitsAt(Head(parts))))
            /\ Head(After(Head(parts), DigitsAt(Head(parts)))) = 0 /\ Len(parts[i]) <= width
            => Len(tags[i]) = Len(Head(parts))

\* Tags over the columns, in a sheet without a tag column. With a label, every tag right of it
\* and before a section break is found, and nothing after the break is. Without, the first of
\* the rows with the most tags decides alone, whatever the other rows hold: found are all the
\* tags of one chain of gaps of at most four, a longest one and the first of these; and the
\* sheet is taken to have no tags over its columns only if no two tags of that row are so near.
HeaderTagsFound(s) ==
  LET at      == LocateTags(s)
      Open(i) == \A j \in 1..i : s.label[j] # "break"
      due     == {i \in DOMAIN s.label : s.label[i] \in {"tag", "list", "annexure"} /\ Open(i)}
      Tags(n) == {i \in DOMAIN s.rows[n] : s.rows[n][i] \in {"tag", "annexure"}}
      Count(n) == Cardinality(Tags(n))
      decides == {n \in DOMAIN s.rows : \A m \in DOMAIN s.rows :
                    Count(m) <= Count(n) /\ (m < n => Count(m) < Count(n))}
      Chain(set) == \A a, b \in set : a < b => \E c \in set : c > a /\ c - a <= 4
  IN TagColumn(s) = 0 =>
       /\ due # {} => at.layout = "column_headers" /\ due \subseteq at.cols
       /\ LabelColumns(s.label) # {} => \A i \in at.cols : s.label[i] # "blank" /\ Open(i)
       /\ LabelColumns(s.label) = {} => \A n \in decides :
            IF at.layout = "column_headers"
            THEN /\ at.cols \subseteq Tags(n) /\ Chain(at.cols)
                 /\ \A i \in Tags(n) \ at.cols, f \in at.cols : i - f \notin -4..4
                 /\ \A other \in SUBSET (Tags(n) \ at.cols) : other # {} /\ Chain(other) =>
                      /\ Cardinality(other) <= Cardinality(at.cols)
                      /\ Cardinality(other) = Cardinality(at.cols) => Min(at.cols) < Min(other)
            ELSE \A i, j \in Tags(n) : i < j => j - i > 4
=============================================================================
