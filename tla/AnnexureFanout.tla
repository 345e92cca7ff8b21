--------------------------- MODULE AnnexureFanout ---------------------------
(***************************************************************************)
(* Rows that name an annexure ("Annexure 2") in place of a tag are         *)
(* replaced by rows for the tags of that annexure                          *)
(* (_enrich_equipment_data in extraction/unified_extractor.py).            *)
(*                                                                         *)
(* A tag is [kind, n, sub]: a real tag; a reference to annexure n, sub     *)
(* telling apart how it is written ("Annexure 1", "Refer Annex 1"), with   *)
(* n = 0 for a reference without a number; or, of kind "key", group sub of *)
(* annexure n, with sub = 0 when the annexure has no groups.               *)
(*                                                                         *)
(* A row is [sheet, tag, item, main, col, units, qty, mfr]: item 0 is an   *)
(* equipment row, the only one to declare units (0: none); col is its      *)
(* column in a matrix sheet, 0 elsewhere; mfr: it names a manufacturer.    *)
(* The registry maps a key to the entries [tag] of that annexure, columns  *)
(* maps a key to the item sets of its columns in the continuation sheet.   *)
(* Totals are multiples of the number of tags they are divided by.         *)
(*                                                                         *)
(* Lettered references, model and serial numbers copied from the entries,  *)
(* and direct enrichment of rows with real tags are left out.              *)
(***************************************************************************)
EXTENDS Integers, SequencesExt

Real(x)     == [kind |-> "real", n |-> x, sub |-> 0]
Ref(n, v)   == [kind |-> "ref", n |-> n, sub |-> v]
Key(n, s)   == [kind |-> "key", n |-> n, sub |-> s]
NoKey       == [kind |-> "none", n |-> 0, sub |-> 0]
AnyKey      == Key(0, 0)

\* The key a text reads as: the number of the annexure, without a group.
Normalize(tag) == IF tag.kind = "real" THEN NoKey ELSE Key(tag.n, 0)

Bare(tag) == Normalize(tag) = AnyKey

\* The registry key of a tag: as normalised, or the tag itself once it is resolved.
AnnexureKey(tag, reg) ==
  IF Normalize(tag) \in DOMAIN reg THEN Normalize(tag)
  ELSE IF tag \in DOMAIN reg THEN tag ELSE NoKey

\* A numbered reference that is no key by itself.
Unresolved(tag, reg) ==
  tag.kind # "real" /\ ~Bare(tag) /\ Normalize(tag) \notin DOMAIN reg

\* A number may mean a group: the only group with it, of the annexure the sheet is known
\* to use if there is one, else the only such group with as many entries as units.
ResolveSubgroup(n, reg, units, prefer) ==
  LET numbered == {k \in DOMAIN reg : k.sub = n}
      known    == {k \in numbered : k.n = prefer}
      fit      == IF prefer # 0 /\ known # {} THEN known ELSE numbered
      sized    == {k \in fit : Len(reg[k]) = units}
  IN IF Cardinality(fit) = 1 THEN CHOOSE k \in fit : TRUE
     ELSE IF Cardinality(sized) = 1 THEN CHOOSE k \in sized : TRUE ELSE NoKey

\* A reference without a number means the only annexure, when there is just one.
ResolveBare(rows, reg) ==
  LET keys == DOMAIN reg \ {AnyKey} IN
  [i \in DOMAIN rows |->
     IF Bare(rows[i].tag) /\ Cardinality(keys) = 1
     THEN [rows[i] EXCEPT !.tag = CHOOSE k \in keys : TRUE] ELSE rows[i]]

\* Equipment rows, in two passes: a sheet's first resolved reference tells which annexure
\* the sheet uses, and the second pass tries again those that came before it.
ResolveHeaders(rows, reg) ==
  LET Visit(second, acc, i) ==
        LET r      == acc.rows[i]
            prefer == acc.prefix[r.sheet]
            k      == ResolveSubgroup(r.tag.n, reg, r.units, prefer)
        IN IF \/ r.item # 0
              \/ ~Unresolved(r.tag, reg)
              \/ second /\ (r.tag \in DOMAIN reg \/ prefer = 0)
              \/ k = NoKey
           THEN acc
           ELSE [rows     |-> [acc.rows EXCEPT ![i].tag = k],
                 resolved |-> Append(acc.resolved, <<r.sheet, r.tag, k>>),
                 prefix   |-> IF prefer = 0 /\ ~second
                              THEN [acc.prefix EXCEPT ![r.sheet] = k.n] ELSE acc.prefix]
      sheets == {rows[i].sheet : i \in DOMAIN rows}
      first  == FoldLeft(LAMBDA acc, i : Visit(FALSE, acc, i),
                         [rows |-> rows, resolved |-> <<>>, prefix |-> [s \in sheets |-> 0]],
                         [i \in DOMAIN rows |-> i])
  IN FoldLeft(LAMBDA acc, i : Visit(TRUE, acc, i), first, [i \in DOMAIN rows |-> i])

\* Spare rows follow the equipment row of the same sheet and tag, the last one resolved.
ResolveTags(given, reg) ==
  LET done == ResolveHeaders(ResolveBare(given, reg), reg)
      Follow(r) ==
        LET hits == SelectSeq(done.resolved, LAMBDA x : x[1] = r.sheet /\ x[2] = r.tag)
        IN IF r.item = 0 \/ hits = <<>> THEN r ELSE [r EXCEPT !.tag = Last(hits)[3]]
  IN [i \in DOMAIN done.rows |-> Follow(done.rows[i])]

\* The first of the rows that agree under Same.
FirstOf(rows, Same(_)) ==
  LET Visit(acc, r) ==
        IF \E x \in Range(acc) : Same(x) = Same(r) THEN acc ELSE Append(acc, r)
  IN FoldLeft(Visit, <<>>, rows)

ForTag(rows, tag) == [i \in DOMAIN rows |-> [rows[i] EXCEPT !.tag = tag]]

\* A lone column fans out over all its tags, or the units it declares. Rows that are not
\* from a matrix carry a total, which is divided; col tells them apart. With one tag
\* repeated and a continuation column per entry, each entry has its column's items.
FanOutOne(headers, details, entries, columns) ==
  LET units  == IF headers = <<>> THEN 0 ELSE Head(headers).units
      n      == IF units \in 1..(Len(entries) - 1) THEN units ELSE Len(entries)
      byCol  == /\ Len(entries) > 1 /\ Len(columns) = Len(entries)
                /\ \A a, b \in DOMAIN entries : entries[a].tag = entries[b].tag
      once   == FirstOf(details, LAMBDA d : <<d.item, d.main>>)
      Share(d) == IF n > 1 /\ ~byCol /\ d.col = 0
                  THEN [d EXCEPT !.qty = @ \div n] ELSE d
      Rows(e) ==
        LET mine == SelectSeq(once, LAMBDA d : byCol => d.item \in columns[e])
        IN IF mine = <<>> THEN <<>>
           ELSE ForTag(headers \o [i \in DOMAIN mine |-> Share(mine[i])], entries[e].tag)
  IN FlattenSeq([e \in 1..n |-> Rows(e)])

\* Several columns of one main: on different sheets each adds items for all tags
\* (extend), on one sheet each takes the next tags, as many as its units (split).
FanOutMain(headers, details, entries) ==
  LET once   == FirstOf(details, LAMBDA d : <<d.item, d.col>>)
      Items(h) == {d.item : d \in {x \in Range(once) : x.col = h.col}}
      rest   == {Items(h) : h \in {x \in Range(Tail(headers)) : x.col # 0}} \ {{}}
      extend == Cardinality({h.sheet : h \in Range(headers)}) > 1
      order  == IF ~extend /\ Cardinality(rest) > 1
                THEN Tail(headers) \o <<Head(headers)>> ELSE headers
      Visit(acc, x) ==
        LET h      == order[x]
            own    == SelectSeq(once, LAMBDA d : d.col = h.col)
            mine   == IF own = <<>> THEN once ELSE own
            slice  == IF extend THEN entries
                      ELSE IF h.units > 0
                      THEN SubSeq(entries, acc.taken + 1,
                                  IF acc.taken + h.units < Len(entries)
                                  THEN acc.taken + h.units ELSE Len(entries))
                      ELSE SubSeq(entries, acc.taken + 1, Len(entries))
            heads  == IF extend /\ x > 1 THEN <<>> ELSE <<h>>
        IN [taken |-> acc.taken + Len(slice),
            rows  |-> acc.rows
                      \o FlattenSeq([e \in DOMAIN slice |-> ForTag(heads \o mine, slice[e].tag)])]
  IN FoldLeft(Visit, [taken |-> 0, rows |-> <<>>], [x \in DOMAIN order |-> x]).rows

\* Mutant: mains are not told apart.
FanOutTogether(group, entries, columns) ==
  LET headers == FirstOf(SelectSeq(group, LAMBDA r : r.item = 0), LAMBDA h : <<h.tag, h.main, h.col>>)
      details == SelectSeq(group, LAMBDA r : r.item # 0)
  IN IF Len(headers) <= 1 THEN FanOutOne(headers, details, entries, columns)
     ELSE FanOutMain(headers, details, entries)

\* All references to one annexure. Headers are told apart by text, main and column; with
\* more than one of them, each main sees the whole annexure.
FanOut(group, entries, columns) ==
  LET headers == FirstOf(SelectSeq(group, LAMBDA r : r.item = 0),
                         LAMBDA h : <<h.tag, h.main, h.col>>)
      details == SelectSeq(group, LAMBDA r : r.item # 0)
      mains   == FoldLeft(LAMBDA acc, h : IF h.main \in Range(acc) THEN acc
                                          ELSE Append(acc, h.main), <<>>, headers)
      Of(rows, m) == SelectSeq(rows, LAMBDA r : r.main = m)
  IN IF Len(headers) <= 1 THEN FanOutOne(headers, details, entries, columns)
     ELSE FlattenSeq([x \in DOMAIN mains |->
            FanOutMain(Of(headers, mains[x]), Of(details, mains[x]), entries)])

\* Spare rows without an equipment row, one of them without a manufacturer: the code
\* reads the last header before it has seen one.
HeaderMissing(group) ==
  /\ \A r \in Range(group) : r.item # 0
  /\ \E r \in Range(group) : ~r.mfr

\* The enriched rows: groups stand where their first row stood, references that stayed
\* unresolved are dropped, bare ones kept.
EnrichRows(rows, reg, columns) ==
  LET KeyAt(i) == AnnexureKey(rows[i].tag, reg)
      Group(k) == SelectSeq(rows, LAMBDA r : AnnexureKey(r.tag, reg) = k)
      At(i) ==
        IF KeyAt(i) # NoKey
        THEN IF \E j \in 1..(i - 1) : KeyAt(j) = KeyAt(i) THEN <<>>
             ELSE FanOut(Group(KeyAt(i)), reg[KeyAt(i)],
                         IF KeyAt(i) \in DOMAIN columns THEN columns[KeyAt(i)] ELSE <<>>)
        ELSE IF Unresolved(rows[i].tag, reg) THEN <<>> ELSE <<rows[i]>>
  IN FlattenSeq([i \in DOMAIN rows |-> At(i)])

Enrich(given, reg, columns) == EnrichRows(ResolveTags(given, reg), reg, columns)

\* Whether the enrichment ends without an exception.
Completes(given, reg) ==
  LET rows == ResolveTags(given, reg) IN
  \A k \in DOMAIN reg :
    ~HeaderMissing(SelectSeq(rows, LAMBDA r : AnnexureKey(r.tag, reg) = k))
-----------------------------------------------------------------------------
(***************************************************************************)
(* What the enrichment promises                                            *)
(***************************************************************************)

\* The columns of one annexure in one main's rows.
HeadersOf(rows, reg, k, m) ==
  FirstOf(SelectSeq(rows, LAMBDA r : r.item = 0 /\ r.main = m /\ AnnexureKey(r.tag, reg) = k),
          LAMBDA h : <<h.tag, h.col>>)

\* Every column that takes tags of its own gets as many as it declares.
UnitsFit(headers, entries) ==
  \/ Cardinality({h.sheet : h \in Range(headers)}) > 1
  \/ /\ \A h \in Range(headers) : h.units > 0
     /\ FoldLeft(LAMBDA n, h : n + h.units, 0, headers) <= Len(entries)

Naming(rows, reg, k) == SelectSeq(rows, LAMBDA r : AnnexureKey(r.tag, reg) = k)
AllHeaders(rows, reg, k) ==
  FirstOf(SelectSeq(Naming(rows, reg, k), LAMBDA r : r.item = 0), LAMBDA h : <<h.tag, h.main, h.col>>)

Groups(rows, reg) ==
  {<<AnnexureKey(r.tag, reg), r.main>> : r \in Range(rows)} \ ({NoKey} \X {r.main : r \in Range(rows)})

\* The units of the columns of one number.
UnitsAt(headers, col) ==
  FoldLeft(LAMBDA n, h : IF h.col = col THEN n + h.units ELSE n, 0, headers)

\* How many tags a spare in a column is for: those of the annexure, or, of a lone column, as
\* many as its units; columns of one sheet have their units each.
TagsDue(all, headers, col, entries) ==
  IF Len(all) <= 1
  THEN IF all # <<>> /\ all[1].units \in DOMAIN entries THEN all[1].units ELSE Len(entries)
  ELSE IF Cardinality({h.sheet : h \in Range(headers)}) > 1 THEN Len(entries)
  ELSE UnitsAt(headers, col)

\* No spare is lost: every item that names an annexure reaches every tag it is for, as long as
\* the units the columns declare do not exceed the tags of the annexure, and its main has an
\* equipment row when several columns name the annexure.
ItemsReachTags(given, reg, columns) ==
  \A rows \in {ResolveTags(given, reg)}, out \in {Range(Enrich(given, reg, columns))} :
     \A g \in Groups(rows, reg) :
       \A all \in {AllHeaders(rows, reg, g[1])}, heads \in {HeadersOf(rows, reg, g[1], g[2])} :
         Len(all) <= 1 \/ (heads # <<>> /\ UnitsFit(heads, reg[g[1]])) =>
           \A r \in Range(Naming(rows, reg, g[1])) :
             r.main = g[2] /\ r.item # 0 =>
               Cardinality({e \in DOMAIN reg[g[1]] :
                              \E x \in out : /\ x.item = r.item /\ x.main = r.main /\ x.col = r.col
                                             /\ x.tag = reg[g[1]][e].tag})
                 = TagsDue(all, heads, r.col, reg[g[1]])

\* Columns of one sheet share an annexure out: each gets exactly the units it declares,
\* and no tag gets two equipment rows.
UnitsShared(given, reg, columns) ==
  \A rows \in {ResolveTags(given, reg)}, out \in {Range(Enrich(given, reg, columns))} :
     \A g \in Groups(rows, reg) : \A heads \in {HeadersOf(rows, reg, g[1], g[2])} :
       LET made  == {x \in out : x.item = 0 /\ x.main = g[2]
                                 /\ x.tag \in {reg[g[1]][e].tag : e \in DOMAIN reg[g[1]]}}
       IN /\ Len(heads) > 1
          /\ Cardinality({h.sheet : h \in Range(heads)}) = 1
          /\ UnitsFit(heads, reg[g[1]])
          => /\ \A h \in Range(heads) : Cardinality({x \in made : x.col = h.col}) = UnitsAt(heads, h.col)
             /\ \A x, y \in made : x.tag = y.tag => x = y

\* A total that is not from a matrix is what the rows of the tags add up to, when one
\* reference names the annexure and the item is listed once. With several references every
\* tag has the whole total: what is divided there is "quantity", a field no row has.
TotalsKept(given, reg, columns) ==
  LET Sum(s) == FoldLeft(LAMBDA n, r : n + r.qty, 0, s)
      Mine(s, r) == SelectSeq(s, LAMBDA x : x.item = r.item /\ x.main = r.main)
  IN \A rows \in {ResolveTags(given, reg)}, out \in {Enrich(given, reg, columns)} :
     \A r \in Range(rows) :
       /\ r.item # 0 /\ r.col = 0 /\ AnnexureKey(r.tag, reg) # NoKey
       /\ Len(Mine(rows, r)) = 1
       /\ Len(AllHeaders(rows, reg, AnnexureKey(r.tag, reg))) <= 1
       => Sum(Mine(out, r)) = r.qty
=============================================================================
