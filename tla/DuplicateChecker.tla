-------------------------- MODULE DuplicateChecker --------------------------
(***************************************************************************)
(* The ERROR column (services/duplicate_checker.py): three rules over the  *)
(* rows of one workbook, and the counts shown to the user.                 *)
(*                                                                         *)
(* A row is [part, desc, sap, omn, sheet, item]. A part number is          *)
(* [text, num]: the place of its text in the alphabet and the number it is *)
(* without leading zeros (num = text for a text that is no number). 0, or  *)
(* text 0, is an empty cell; a SAP number of zero is empty as well. A      *)
(* material number is [sheet, line, body] or NoOmn, a sheet [rank, main].  *)
(***************************************************************************)
EXTENDS Integers, SequencesExt

NoOmn == [sheet |-> 0, line |-> 0, body |-> 0]

RowsOf(rows, P(_)) == {i \in DOMAIN rows : P(rows[i])}

\* A rule numbers its groups in the order of their keys.
Number(keys, Before(_, _), k) == 1 + Cardinality({o \in keys : Before(o, k)})

-----------------------------------------------------------------------------
(* The SAP rules look only at rows with both numbers *)

SapRows(rows) == RowsOf(rows, LAMBDA r : r.part.text # 0 /\ r.sap # 0)

\* Part numbers with several SAP numbers.
Mismatched(rows) ==
  {rows[i].part : i \in {i \in SapRows(rows) :
     \E j \in SapRows(rows) : rows[j].part = rows[i].part /\ rows[j].sap # rows[i].sap}}

Mismatch(rows, i) ==
  LET bad == Mismatched(rows)
  IN IF i \in SapRows(rows) /\ rows[i].part \in bad
     THEN {<<"mismatch", Number(bad, LAMBDA a, b : a.text < b.text, rows[i].part)>>}
     ELSE {}

PartsOf(rows, sap) == {rows[i].part : i \in {i \in SapRows(rows) : rows[i].sap = sap}}

\* SAP numbers with several part numbers that differ in more than leading zeros.
Shared(rows) ==
  {s \in {rows[i].sap : i \in SapRows(rows)} :
     Cardinality({p.num : p \in PartsOf(rows, s)}) > 1}

\* Mutant: equals are all taken for right.
DominantTies(rows, sap) ==
  LET Count(p) == Cardinality({i \in SapRows(rows) : rows[i].sap = sap /\ rows[i].part = p})
  IN {p \in PartsOf(rows, sap) : \A q \in PartsOf(rows, sap) : Count(q) <= Count(p)}

\* The part number with most rows is taken for the right one, when there is just one such.
Dominant(rows, sap) ==
  LET Count(p) == Cardinality({i \in SapRows(rows) : rows[i].sap = sap /\ rows[i].part = p})
      top == {p \in PartsOf(rows, sap) : \A q \in PartsOf(rows, sap) : Count(q) <= Count(p)}
  IN IF Cardinality(top) = 1 THEN top ELSE {}

SapDuplicate(rows, i) ==
  LET shared == Shared(rows)
  IN IF i \in SapRows(rows) /\ rows[i].sap \in shared
        /\ rows[i].part \notin Dominant(rows, rows[i].sap)
     THEN {<<"duplicate", Number(shared, LAMBDA a, b : a < b, rows[i].sap)>>}
     ELSE {}

-----------------------------------------------------------------------------
(* The same part and description under several identities *)

\* The material number, else sheet and item; a row without either is no spare.
HasIdentity(r) == r.part.text # 0 /\ (r.omn # NoOmn \/ r.item # 0)

Identity(r) == IF r.omn # NoOmn THEN [omn |-> r.omn]
               ELSE [sheet |-> r.sheet, item |-> r.item]

\* Main sheets are numbered by the natural order of their names, whatever the order of the
\* rows; any other sheet counts as the first.
SheetNumber(rows, sheet) ==
  LET mains == {s \in {rows[i].sheet : i \in DOMAIN rows} : s.main}
  IN IF sheet \in mains THEN Number(mains, LAMBDA a, b : a.rank < b.rank, sheet) ELSE 1

Ref(rows, id) == IF "omn" \in DOMAIN id THEN <<id.omn.sheet, id.omn.line>>
                 ELSE <<SheetNumber(rows, id.sheet), id.item>>

Key(r) == <<r.part, r.desc>>

IdentitiesOf(rows, key) ==
  {Identity(rows[i]) : i \in RowsOf(rows, LAMBDA r : HasIdentity(r) /\ Key(r) = key)}

\* The label is the list of the references in order, not a number: equal references stay. It is
\* told by how often each reference is in it.
RefList(rows, ids) ==
  [ref \in {Ref(rows, id) : id \in ids} |-> Cardinality({id \in ids : Ref(rows, id) = ref})]

SpareDuplicate(rows, i) ==
  LET ids == IdentitiesOf(rows, Key(rows[i]))
  IN IF HasIdentity(rows[i]) /\ Cardinality(ids) > 1
     THEN {<<"spare", RefList(rows, ids)>>} ELSE {}

-----------------------------------------------------------------------------
\* The ERROR cell of every row, and the number of spare duplicates that is shown.
DeduplicateRows(rows) ==
  [i \in DOMAIN rows |-> SpareDuplicate(rows, i) \cup SapDuplicate(rows, i) \cup Mismatch(rows, i)]

Dup1Count(rows) ==
  Cardinality({l \in UNION {DeduplicateRows(rows)[i] : i \in DOMAIN rows} : l[1] = "spare"})

-----------------------------------------------------------------------------
(***************************************************************************)
(* What the column promises                                                *)
(***************************************************************************)

Labels(rows, i, rule) == {l \in DeduplicateRows(rows)[i] : l[1] = rule}

\* Rows with one part number and different SAP numbers are marked, with a label that is theirs
\* alone. Of rows with one SAP number and numerically different parts all are marked but those
\* of a part that has more rows than any other: the last row of a minority is marked alone,
\* and names none ("shared by every row in that same group" is not so there).
SapConflictsNamed(rows) ==
  LET Conflict(i, j) == rows[i].part = rows[j].part /\ rows[i].sap # rows[j].sap
      Shares(i, j)   == rows[i].sap = rows[j].sap /\ rows[i].part.num # rows[j].part.num
      Alike(i) == {k \in SapRows(rows) : rows[k].sap = rows[i].sap /\ rows[k].part = rows[i].part}
  IN \A i \in SapRows(rows) :
       /\ Labels(rows, i, "mismatch") # {} <=> \E j \in SapRows(rows) : Conflict(i, j)
       /\ Labels(rows, i, "duplicate") # {} => \E j \in SapRows(rows) : Shares(i, j)
       /\ \A j \in SapRows(rows) :
            /\ Conflict(i, j) => Labels(rows, i, "mismatch") = Labels(rows, j, "mismatch")
            /\ Labels(rows, i, "mismatch") # {} /\ Labels(rows, i, "mismatch") = Labels(rows, j, "mismatch")
               => rows[i].part = rows[j].part
            /\ Shares(i, j) /\ Labels(rows, i, "duplicate") = {}
               => /\ Labels(rows, j, "duplicate") # {}
                  /\ Cardinality(Alike(i)) > Cardinality(Alike(j))

\* A spare is marked when, and only when, its part and description come again as another spare;
\* both are marked alike, and the mark holds the reference of each of them.
SpareGroupsNamed(rows) ==
  \A i \in DOMAIN rows :
    LET again == {j \in RowsOf(rows, HasIdentity) :
                    HasIdentity(rows[i]) /\ Key(rows[j]) = Key(rows[i]) /\ Identity(rows[j]) # Identity(rows[i])}
    IN /\ again = {} => Labels(rows, i, "spare") = {}
       /\ \A j \in again : /\ Labels(rows, i, "spare") = Labels(rows, j, "spare")
                           /\ \E l \in Labels(rows, i, "spare") : Ref(rows, Identity(rows[j])) \in DOMAIN l[2]

\* The number shown is the number of spares that repeat, when an identity and a reference
\* belong to one spare: labels made of references do not merge two groups.
SpareGroupsCounted(rows) ==
  LET spares == RowsOf(rows, HasIdentity)
      groups == {k \in {Key(rows[i]) : i \in spares} : Cardinality(IdentitiesOf(rows, k)) > 1}
  IN (\A i, j \in spares : Ref(rows, Identity(rows[i])) = Ref(rows, Identity(rows[j]))
                           => Key(rows[i]) = Key(rows[j]))
     => Dup1Count(rows) = Cardinality(groups)
=============================================================================
