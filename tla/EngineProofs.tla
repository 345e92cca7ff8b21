---------------------------- MODULE EngineProofs ----------------------------
(***************************************************************************)
(* Proofs about the algorithms of the engine, for workbooks, rows and      *)
(* sheets of any size.                                                     *)
(***************************************************************************)
EXTENDS WorkbookAnalysis, DuplicateChecker, FiniteSetTheorems, SequenceTheorems,
        WellFoundedInduction, TLAPS

-----------------------------------------------------------------------------
(* The least and the greatest of a set of numbers *)

LessThan == OpToRel(<, Nat)

\* There is no endless descent among the natural numbers.
LEMMA LessWF == IsWellFoundedOn(LessThan, Nat)
<1>1. IsWellFoundedOn(OpToRel(<, Nat), Nat) BY NatLessThanWellFounded
<1> QED BY <1>1, Zenon DEF LessThan

\* A set of natural numbers that is not empty has a least member.
LEMMA Least ==
  ASSUME NEW S \in SUBSET Nat, S # {}
  PROVE  \E m \in S : \A k \in S : m <= k
<1>1. \E m \in S : \A k \in S : ~ (<<k, m>> \in LessThan)
  BY WFMin, LessWF, Zenon
<1>2. PICK m \in S : \A k \in S : ~ (<<k, m>> \in LessThan) BY <1>1
<1>4. \A k, l \in Nat : k < l => <<k, l>> \in LessThan BY DEF LessThan, OpToRel
<1>3. \A k \in S : ~(k < m) BY <1>2, <1>4
<1> QED BY <1>3

\* And every bounded one a greatest.
LEMMA Greatest ==
  ASSUME NEW S \in SUBSET Nat, S # {}, NEW b \in Nat, \A k \in S : k <= b
  PROVE  \E m \in S : \A k \in S : k <= m
<1> DEFINE U == {n \in Nat : \A k \in S : k <= n}
<1>1. U \in SUBSET Nat /\ U # {} OBVIOUS
<1> HIDE DEF U
<1>2. PICK m \in U : \A n \in U : m <= n BY <1>1, Least
<1>3. m \in Nat /\ \A k \in S : k <= m BY <1>2 DEF U
<1>4. CASE m \in S BY <1>3, <1>4
<1>5. CASE m \notin S
  <2>1. \A k \in S : k < m BY <1>3, <1>5
  <2>2. m > 0
    <3>1. PICK k \in S : TRUE OBVIOUS
    <3>2. k \in Nat /\ k < m BY <2>1
    <3> QED BY <3>2, <1>3
  <2>3. m - 1 \in U BY <2>1, <2>2, <1>3 DEF U
  <2> QED BY <1>2, <1>3, <2>3
<1> QED BY <1>4, <1>5

\* What Min and Max pick.
LEMMA Chosen ==
  ASSUME NEW S \in SUBSET Nat, S # {}
  PROVE  /\ Min(S) \in S /\ \A k \in S : Min(S) <= k
         /\ (\E b \in Nat : \A k \in S : k <= b) => Max(S) \in S /\ \A k \in S : k <= Max(S)
<1>1. Min(S) \in S /\ \A k \in S : Min(S) <= k
  <2>1. \E m \in S : \A k \in S : m <= k BY Least
  <2> QED BY <2>1 DEF Min
<1>2. ASSUME NEW b \in Nat, \A k \in S : k <= b
      PROVE  Max(S) \in S /\ \A k \in S : k <= Max(S)
  <2>1. \E m \in S : \A k \in S : k <= m BY <1>2, Greatest
  <2>2. \E m \in S : \A k \in S : m >= k BY <2>1
  <2>3. Max(S) \in S /\ \A k \in S : Max(S) >= k BY <2>2 DEF Max
  <2> QED BY <2>3
<1> QED BY <1>1, <1>2

\* The lesser of two numbers.
LEMMA LesserOfTwo ==
  ASSUME NEW a \in Nat, NEW b \in Nat
  PROVE  Min({a, b}) = IF a <= b THEN a ELSE b
<1> DEFINE S == {a, b}
<1>1. S \in SUBSET Nat /\ S # {} /\ a \in S /\ b \in S OBVIOUS
<1>2. \A k \in S : k = a \/ k = b OBVIOUS
<1> HIDE DEF S
<1>3. Min(S) \in S /\ Min(S) <= a /\ Min(S) <= b BY <1>1, Chosen
<1>4. Min(S) = a \/ Min(S) = b BY <1>2, <1>3
<1>5. Min(S) = IF a <= b THEN a ELSE b BY <1>3, <1>4
<1> QED BY <1>5 DEF S

\* Rows or columns, counted from 1.
IsColumn(s) == \E n \in Nat : DOMAIN s = 1..n

-----------------------------------------------------------------------------
(* The sheets of a workbook: continuations, strangers, metadata *)

\* What becomes of sheet i, when d says what became of the others.
Fate(sheets, profiles, data, d, i) ==
  IF i \notin data \/ profiles[i].layout = "column_headers" THEN profiles[i]
  ELSE Continued(sheets[i].hint, profiles[i], [j \in {j \in data : j < i} |-> d[j]])

\* The recursion over the sheets is well-founded.
LEMMA Fated ==
  ASSUME NEW sheets, NEW profiles, DOMAIN profiles \subseteq Nat,
         NEW b \in Nat, \A i \in DOMAIN profiles : i <= b,
         NEW data, data \subseteq DOMAIN profiles
  PROVE  \E d : d = [i \in DOMAIN profiles |-> Fate(sheets, profiles, data, d, i)]
<1> DEFINE D == DOMAIN profiles
           F(d, i) == Fate(sheets, profiles, data, d, i)
           Upto(n) == {i \in D : i <= n}
           Good(n, d) == d = [i \in Upto(n) |-> F(d, i)]
           bad == {n \in Nat : ~ \E d : Good(n, d)}
<1>1. ASSUME NEW d, NEW e, NEW i \in D, \A j \in data : j < i => d[j] = e[j]
      PROVE  F(d, i) = F(e, i)
  <2>1. [j \in {j \in data : j < i} |-> d[j]] = [j \in {j \in data : j < i} |-> e[j]] BY <1>1
  <2> QED BY <2>1 DEF Fate
<1> HIDE DEF F
<1>2. bad = {}
  <2> SUFFICES ASSUME bad # {} PROVE FALSE OBVIOUS
  <2>1. PICK m \in bad : \A k \in bad : m <= k BY Least
  <2> DEFINE Below == {i \in D : i < m}
  <2>2. PICK e : e = [i \in Below |-> F(e, i)]
    <3>1. CASE m = 0
      <4>1. Below = {} BY <3>1
      <4> DEFINE e == [i \in {} |-> {}]
      <4>2. e = [i \in Below |-> F(e, i)] BY <4>1
      <4> QED BY <4>2
    <3>2. CASE m # 0
      <4>0. m \in Nat /\ m - 1 \in Nat /\ ~(m <= m - 1) BY <3>2
      <4>1. m - 1 \in Nat /\ m - 1 \notin bad
        <5> HIDE DEF bad
        <5> QED BY <2>1, <4>0
      <4>2. PICK e : Good(m - 1, e) BY <4>1
      <4>3. Upto(m - 1) = Below BY <2>1
      <4> QED BY <4>2, <4>3
    <3> QED BY <3>1, <3>2
  <2> DEFINE d == [i \in Upto(m) |-> F(e, i)]
  <2>3. \A j \in Below : d[j] = e[j] BY <2>2
  <2>4. ASSUME NEW i \in Upto(m) PROVE F(d, i) = F(e, i)
    <3> HIDE DEF d
    <3>1. \A j \in data : j < i => j \in Below BY <2>1
    <3> QED BY <3>1, <2>3, <1>1
  <2>5. Good(m, d) BY <2>4
  <2> QED BY <2>1, <2>5
<1>3. PICK d : Good(b, d) BY <1>2
<1>4. Upto(b) = D OBVIOUS
<1> QED BY <1>3, <1>4 DEF F

IsProfile(p) == DOMAIN p = {"role", "layout", "cols", "meta", "parent"}

\* A sheet that continues something continues one of the earlier sheets, which does not itself.
LEMMA Continues ==
  ASSUME NEW hint, NEW sheet, IsProfile(sheet), NEW earlier, DOMAIN earlier \subseteq Nat,
         NEW b \in Nat, \A j \in DOMAIN earlier : j <= b
  PROVE  LET c == Continued(hint, sheet, earlier)
         IN \/ c = sheet
            \/ /\ IsProfile(c) /\ c.role = "continuation"
               /\ c.layout = sheet.layout /\ c.meta = sheet.meta
               /\ c.parent \in DOMAIN earlier /\ earlier[c.parent].role # "continuation"
               /\ hint = "continuation" \/ sheet.layout = earlier[c.parent].layout
<1> DEFINE found == FindParent(sheet, earlier)
           like  == Lookalike(sheet, earlier)
           Fine(p) == p \in DOMAIN earlier /\ earlier[p].role # "continuation"
<1>1. found # None => Fine(found)
  <2> DEFINE open == {j \in DOMAIN earlier : earlier[j].role # "continuation"}
             Of(j) == Overlap(sheet.cols, earlier[j].cols)
             best == {j \in open : Of(j) > 0 /\ \A k \in open : Of(k) <= Of(j)}
             data == {j \in DOMAIN earlier : earlier[j].role \in {"data", "annexure"}}
  <2>1. best # {} => Max(best) \in best BY Chosen
  <2>2. data # {} => Max(data) \in data BY Chosen
  <2>3. found = IF best # {} /\ (Of(Max(best)) >= 50 \/ Cardinality(DOMAIN earlier) = 1) THEN Max(best)
                ELSE IF data # {} THEN Max(data) ELSE None
    BY DEF FindParent
  <2> HIDE DEF found
  <2> QED BY <2>1, <2>2, <2>3
<1>2. like # None => Fine(like) /\ earlier[like].layout = sheet.layout
  <2> DEFINE S == {j \in DOMAIN earlier :
                     /\ earlier[j].role \in {"data", "annexure"}
                     /\ Overlap(sheet.cols, earlier[j].cols) >= 70
                     /\ earlier[j].layout = sheet.layout /\ sheet.layout # "none"}
  <2>1. S # {} => Min(S) \in S BY Chosen
  <2>2. like = IF S = {} THEN None ELSE Min(S) BY DEF Lookalike
  <2> HIDE DEF like
  <2> QED BY <2>1, <2>2
<1> DEFINE named == IF hint = "continuation" THEN found ELSE None
           parent == IF named # None THEN named ELSE like
<1>3. Continued(hint, sheet, earlier)
        = IF parent = None THEN sheet ELSE [sheet EXCEPT !.role = "continuation", !.parent = parent]
  BY DEF Continued
<1>4. parent # None => Fine(parent) /\ (hint = "continuation" \/ sheet.layout = earlier[parent].layout)
  BY <1>1, <1>2
<1> HIDE DEF parent
<1> QED BY <1>3, <1>4 DEF IsProfile

\* The sheets that are shown, as the analysis gets them.
IsBook(sheets) ==
  /\ \E n \in Nat : DOMAIN sheets = 1..n
  /\ \A i \in DOMAIN sheets :
       /\ sheets[i].layout \in {"none", "column_headers", "row_headers", "tag_column", "global_tag"}
       /\ "spir_no" \notin sheets[i].keys

Analysed(sheets) == [i \in DOMAIN sheets |-> AnalyzeSheet(sheets[i], i)]
Joined(sheets) == DetectContinuations(sheets, Analysed(sheets))

\* What sheet i, looked at alone, becomes.
FirstLook(s, i, p) ==
  /\ IsProfile(p)
  /\ p.role \in {"utility", "unknown", "annexure", "data"}
  /\ p.role # "utility" => s.hint # "utility"
  /\ p.meta = [k \in DOMAIN p.meta |-> i]
  /\ s.hint # "utility" /\ s.header => s.keys \subseteq DOMAIN p.meta
  /\ s.hint # "utility" => p.layout = s.layout
  /\ "spir_no" \in DOMAIN p.meta <=> s.header /\ s.hint # "utility" /\ s.spir # <<>>
  /\ p.role = "data" /\ p.layout = "none" => p.cols # {}

\* Looked at alone, a sheet is one of the kinds the code tells apart, and its metadata are its own.
LEMMA AnalysedFacts ==
  ASSUME NEW sheets, IsBook(sheets), NEW i \in DOMAIN sheets
  PROVE  FirstLook(sheets[i], i, Analysed(sheets)[i])
<1> DEFINE p == Analysed(sheets)[i]
           s == sheets[i]
           read == s.header /\ s.hint # "utility"
           keys == IF ~read THEN {} ELSE s.keys \cup (IF s.spir # <<>> THEN {"spir_no"} ELSE {})
           cols == IF ~read THEN {} ELSE IF s.cols = {} /\ s.layout = "none" THEN s.low ELSE s.cols
<1>1. p = [role |-> Role(s), layout |-> IF s.hint = "utility" THEN "none" ELSE s.layout,
           cols |-> cols, meta |-> [k \in keys |-> i], parent |-> None]
  BY DEF Analysed, AnalyzeSheet
<1>2. /\ s.layout \in {"none", "column_headers", "row_headers", "tag_column", "global_tag"}
      /\ "spir_no" \notin s.keys
  BY DEF IsBook
<1>3. s.hint = "utility" => Role(s) = "utility" BY DEF Role
<1>4. ASSUME s.hint # "utility", ~s.header
      PROVE  Role(s) \in {"utility", "unknown", "annexure", "data"}
             /\ (Role(s) = "data" => s.layout # "none")
  BY <1>4 DEF Role
<1>5. ASSUME s.hint # "utility", s.header = TRUE
      PROVE  Role(s) \in {"unknown", "annexure", "data"}
             /\ (Role(s) = "data" /\ s.layout = "none" => s.cols # {} \/ s.low # {})
  BY <1>5 DEF Role
<1>6. Role(s) \in {"utility", "unknown", "annexure", "data"} BY <1>3, <1>4, <1>5
<1>7. Role(s) = "data" /\ s.hint # "utility" /\ s.layout = "none" => cols # {}
  BY <1>4, <1>5
<1>8. /\ IsProfile(p) /\ p.role = Role(s) /\ p.cols = cols
      /\ p.layout = IF s.hint = "utility" THEN "none" ELSE s.layout
      /\ p.meta = [k \in keys |-> i]
  <2> HIDE DEF p, s, cols, keys
  <2> QED BY <1>1 DEF IsProfile
<1> SUFFICES FirstLook(s, i, p) OBVIOUS
<1> HIDE DEF p, s, cols
<1> QED BY <1>2, <1>3, <1>6, <1>7, <1>8 DEF FirstLook

\* Sheet i of the sheets named hinted may continue an earlier one that continues nothing.
Continuing(hint, i, first, done, S) ==
  LET p == done[i].parent
  IN /\ done[i].role = "continuation" /\ first[i].role \in {"data", "unknown"}
     /\ p \in S /\ p < i /\ done[p].role # "continuation"
     /\ first[p].role \in {"data", "unknown"}
     /\ hint = "continuation" \/ done[i].layout = done[p].layout

\* _detect_continuations leaves a sheet as it was, or makes it continue an earlier one.
LEMMA Detected ==
  ASSUME NEW sheets, IsBook(sheets)
  PROVE  /\ DOMAIN Joined(sheets) = DOMAIN sheets
         /\ \A i \in DOMAIN sheets :
              /\ IsProfile(Joined(sheets)[i])
              /\ Joined(sheets)[i].meta = Analysed(sheets)[i].meta
              /\ Joined(sheets)[i].layout = Analysed(sheets)[i].layout
              /\ \/ Joined(sheets)[i] = Analysed(sheets)[i]
                 \/ Continuing(sheets[i].hint, i, Analysed(sheets), Joined(sheets), DOMAIN sheets)
<1> DEFINE first == Analysed(sheets)
           done == Joined(sheets)
           data == {j \in DOMAIN first : first[j].role \in {"data", "unknown"}}
           Earlier(j) == [k \in {k \in data : k < j} |-> done[k]]
<1>1. PICK n \in Nat : DOMAIN sheets = 1..n BY DEF IsBook
<1>2. DOMAIN first = DOMAIN sheets /\ \A j \in DOMAIN sheets : IsProfile(first[j])
  BY AnalysedFacts DEF Analysed, FirstLook
<1>3. CASE Cardinality(data) < 2
  <2>1. done = first BY <1>3 DEF DetectContinuations, Joined
  <2> QED BY <1>2, <2>1
<1>4. CASE ~(Cardinality(data) < 2)
  <2>1. done = [j \in DOMAIN first |-> Fate(sheets, first, data, done, j)]
    <3>1. \E d : d = [j \in DOMAIN first |-> Fate(sheets, first, data, d, j)]
      <4>1. DOMAIN first \subseteq Nat /\ \A j \in DOMAIN first : j <= n BY <1>1, <1>2
      <4> HIDE DEF first
      <4> QED BY <4>1, Fated
    <3>2. done = CHOOSE d : d = [j \in DOMAIN first |-> Fate(sheets, first, data, d, j)]
      BY <1>4 DEF DetectContinuations, Joined, Fate
    <3> HIDE DEF first, data, done
    <3> QED BY <3>1, <3>2
  <2> HIDE DEF first, done
  <2>2. ASSUME NEW j \in DOMAIN sheets
        PROVE  \/ done[j] = first[j]
               \/ j \in data /\ done[j] = Continued(sheets[j].hint, first[j], Earlier(j))
    BY <1>2, <2>1 DEF Fate
  <2>3. ASSUME NEW j \in DOMAIN sheets
        PROVE  \/ done[j] = first[j]
               \/ /\ IsProfile(done[j]) /\ done[j].role = "continuation" /\ j \in data
                  /\ done[j].layout = first[j].layout /\ done[j].meta = first[j].meta
                  /\ done[j].parent \in data /\ done[j].parent < j
                  /\ done[done[j].parent].role # "continuation"
                  /\ sheets[j].hint = "continuation" \/ first[j].layout = done[done[j].parent].layout
    <3>1. DOMAIN Earlier(j) \subseteq Nat /\ \A k \in DOMAIN Earlier(j) : k <= n BY <1>1, <1>2
    <3> DEFINE c == Continued(sheets[j].hint, first[j], Earlier(j))
    <3>2. \/ c = first[j]
          \/ /\ IsProfile(c) /\ c.role = "continuation"
             /\ c.layout = first[j].layout /\ c.meta = first[j].meta
             /\ c.parent \in DOMAIN Earlier(j) /\ Earlier(j)[c.parent].role # "continuation"
             /\ sheets[j].hint = "continuation" \/ first[j].layout = Earlier(j)[c.parent].layout
      <4> HIDE DEF Earlier
      <4> QED BY <1>1, <1>2, <3>1, Continues
    <3>3. done[j] = first[j] \/ (j \in data /\ done[j] = c) BY <2>2
    <3>4. \A k \in DOMAIN Earlier(j) : k \in data /\ k < j /\ Earlier(j)[k] = done[k] OBVIOUS
    <3> HIDE DEF c, data, Earlier
    <3> QED BY <3>2, <3>3, <3>4
  <2>4. DOMAIN done = DOMAIN sheets BY <1>2, <2>1
  <2>5. data \subseteq DOMAIN sheets /\ \A j \in data : first[j].role \in {"data", "unknown"} BY <1>2
  <2> HIDE DEF data
  <2>6. \A j \in DOMAIN sheets : IsProfile(done[j]) /\ done[j].layout = first[j].layout BY <1>2, <2>3
  <2>7. ASSUME NEW i \in DOMAIN sheets, done[i] # first[i]
        PROVE  Continuing(sheets[i].hint, i, first, done, DOMAIN sheets)
    BY <2>3, <2>5, <2>6, <2>7 DEF Continuing
  <2>8. \A i \in DOMAIN sheets : done[i].meta = first[i].meta BY <2>3
  <2> QED BY <2>4, <2>6, <2>7, <2>8 DEF first, done
<1> QED BY <1>3, <1>4

Outcome(sheets, file, first, done, out) ==
  /\ DOMAIN out = DOMAIN sheets
  /\ \A i \in DOMAIN sheets :
       /\ out[i].role = IF i \in Strangers(sheets, file) THEN "utility" ELSE done[i].role
       /\ out[i].layout = done[i].layout /\ out[i].parent = done[i].parent
       /\ out[i].cols = done[i].cols
       /\ Extractable(out[i]) =>
            /\ DOMAIN first[i].meta \subseteq DOMAIN out[i].meta
            /\ \A k \in DOMAIN first[i].meta : out[i].meta[k] = i
            /\ \A k \in DOMAIN out[i].meta :
                 \E j \in DOMAIN sheets : Extractable(out[j]) /\ out[i].meta[k] = j

\* What the analysis makes of a sheet, and whose metadata it has.
LEMMA AnalysisFacts ==
  ASSUME NEW sheets, IsBook(sheets), NEW file
  PROVE  Outcome(sheets, file, Analysed(sheets), Joined(sheets), AnalyzeWorkbook(sheets, file))
<1> DEFINE first == Analysed(sheets)
           done == Joined(sheets)
           roles == ExcludeForeign(sheets, done, file)
           out == AnalyzeWorkbook(sheets, file)
<1>1. out = PropagateMetadata(roles) BY DEF AnalyzeWorkbook, Analysed, Joined
<1>2. /\ DOMAIN done = DOMAIN sheets
      /\ \A i \in DOMAIN sheets : IsProfile(done[i]) /\ done[i].meta = first[i].meta
  BY Detected
<1>3. \A i \in DOMAIN sheets : i \in Foreign(sheets, done, file) <=> i \in Strangers(sheets, file)
  <2> SUFFICES ASSUME NEW i \in DOMAIN sheets
               PROVE  i \in Foreign(sheets, done, file) <=> i \in Strangers(sheets, file)
    OBVIOUS
  <2>1. FirstLook(sheets[i], i, first[i]) BY AnalysedFacts
  <2> HIDE DEF first, done
  <2> QED BY <1>2, <2>1 DEF Foreign, Strangers, FirstLook
<1>4. /\ DOMAIN roles = DOMAIN sheets
      /\ \A i \in DOMAIN sheets :
           /\ IsProfile(roles[i]) /\ roles[i].meta = first[i].meta
           /\ roles[i].role = IF i \in Strangers(sheets, file) THEN "utility" ELSE done[i].role
           /\ roles[i].layout = done[i].layout /\ roles[i].parent = done[i].parent
           /\ roles[i].cols = done[i].cols
  <2> HIDE DEF done, first
  <2> QED BY <1>2, <1>3 DEF ExcludeForeign, IsProfile
<1> DEFINE Size(i) == Cardinality(DOMAIN roles[i].meta)
           read == {i \in DOMAIN roles : Extractable(roles[i])}
           rich == {i \in read : Size(i) > 0 /\ \A j \in read : Size(j) <= Size(i)}
           best == roles[Min(rich)].meta
           Filled(i) == [k \in DOMAIN roles[i].meta \cup DOMAIN best |->
                           IF k \in DOMAIN roles[i].meta THEN roles[i].meta[k] ELSE best[k]]
<1>5. out = IF rich = {} THEN roles
            ELSE [i \in DOMAIN roles |-> IF i \in read THEN [roles[i] EXCEPT !.meta = Filled(i)] ELSE roles[i]]
  <2> HIDE DEF out, roles
  <2> QED BY <1>1 DEF PropagateMetadata
<1>6. rich # {} => Min(rich) \in read
  <2>1. rich \in SUBSET Nat
    <3>1. DOMAIN sheets \subseteq Nat BY DEF IsBook
    <3> HIDE DEF roles
    <3> QED BY <1>4, <3>1
  <2> HIDE DEF roles
  <2> QED BY <2>1, Chosen
<1>7. \A i \in DOMAIN sheets : \A k \in DOMAIN first[i].meta : first[i].meta[k] = i
  <2> SUFFICES ASSUME NEW i \in DOMAIN sheets
               PROVE  \A k \in DOMAIN first[i].meta : first[i].meta[k] = i
    OBVIOUS
  <2>1. FirstLook(sheets[i], i, first[i]) BY AnalysedFacts
  <2> HIDE DEF first
  <2> QED BY <2>1 DEF FirstLook
<1> SUFFICES Outcome(sheets, file, first, done, out) OBVIOUS
<1> HIDE DEF out, roles, first, done
<1>8. CASE rich = {}
  <2>1. out = roles BY <1>5, <1>8
  <2> QED BY <1>4, <1>7, <2>1 DEF Outcome
<1>9. CASE rich # {}
  <2>1. \A i \in DOMAIN sheets :
          out[i] = IF i \in read THEN [roles[i] EXCEPT !.meta = Filled(i)] ELSE roles[i]
    BY <1>4, <1>5, <1>9
  <2>2. \A i \in DOMAIN sheets :
          /\ out[i].role = roles[i].role /\ out[i].layout = roles[i].layout
          /\ out[i].parent = roles[i].parent /\ out[i].cols = roles[i].cols
    BY <1>4, <2>1 DEF IsProfile
  <2>3. \A i \in DOMAIN sheets : i \in read <=> Extractable(out[i])
    BY <1>4, <2>2 DEF Extractable
  <2>4. \A i \in read : out[i].meta = Filled(i)
    BY <1>4, <2>1 DEF IsProfile
  <2>5. DOMAIN out = DOMAIN sheets BY <1>4, <1>5, <1>9
  <2>6. Min(rich) \in read /\ Min(rich) \in DOMAIN sheets BY <1>4, <1>6, <1>9
  <2>7. read \subseteq DOMAIN sheets BY <1>4
  <2>8. ASSUME NEW i \in read
        PROVE  /\ DOMAIN first[i].meta \subseteq DOMAIN out[i].meta
               /\ \A k \in DOMAIN first[i].meta : out[i].meta[k] = i
               /\ \A k \in DOMAIN out[i].meta : out[i].meta[k] \in {i, Min(rich)}
    <3>1. /\ roles[i].meta = first[i].meta /\ best = first[Min(rich)].meta
      BY <1>4, <2>6, <2>7
    <3>2. out[i].meta = [k \in DOMAIN first[i].meta \cup DOMAIN first[Min(rich)].meta |->
                           IF k \in DOMAIN first[i].meta THEN first[i].meta[k]
                           ELSE first[Min(rich)].meta[k]]
      BY <2>4, <3>1
    <3> HIDE DEF rich, read
    <3> QED BY <1>7, <2>6, <2>7, <3>2
  <2> HIDE DEF read, rich, Filled
  <2> QED BY <1>4, <2>2, <2>3, <2>5, <2>6, <2>7, <2>8 DEF Outcome
<1> QED BY <1>8, <1>9

\* For any workbook: analyze_workbook keeps a sheet's own metadata, fills what is missing from a
\* sheet that is read too, and metadata of another SPIR's sheet reach neither a sheet nor the file.
THEOREM MetadataStaysHome ==
  ASSUME NEW sheets, IsBook(sheets), NEW file
  PROVE  MetadataIsOwn(sheets, file)
<1> DEFINE first == Analysed(sheets)
           done == Joined(sheets)
           out == AnalyzeWorkbook(sheets, file)
<1>1. Outcome(sheets, file, first, done, out) BY AnalysisFacts
<1>2. \A i \in DOMAIN sheets : FirstLook(sheets[i], i, first[i]) BY AnalysedFacts
<1>3. \A i \in DOMAIN sheets : i \in Nat /\ i # None BY DEF IsBook, None
<1>4. \A i \in DOMAIN sheets : Extractable(out[i]) => i \notin Strangers(sheets, file)
  <2> HIDE DEF out, done, first
  <2> QED BY <1>1 DEF Outcome, Extractable
<1>5. ASSUME NEW i \in DOMAIN sheets, Extractable(out[i]), sheets[i].header, NEW k \in sheets[i].keys
      PROVE  out[i].meta[k] = i
  <2>1. i \notin Strangers(sheets, file) BY <1>4, <1>5
  <2>2. Extractable(done[i]) /\ done[i].role # "utility"
    <3> HIDE DEF out, done, first
    <3> QED BY <1>1, <1>5, <2>1 DEF Outcome, Extractable
  <2>3. first[i].role # "utility"
    <3>1. \/ done[i] = first[i]
          \/ Continuing(sheets[i].hint, i, first, done, DOMAIN sheets)
      BY Detected
    <3> HIDE DEF done, first
    <3> QED BY <2>2, <3>1 DEF Continuing
  <2> HIDE DEF out, done, first
  <2>4. k \in DOMAIN first[i].meta BY <1>2, <1>5, <2>3 DEF FirstLook
  <2> QED BY <1>1, <1>5, <2>4 DEF Outcome
<1>6. ASSUME NEW i \in DOMAIN sheets, Extractable(out[i]), NEW k \in DOMAIN out[i].meta
      PROVE  /\ out[i].meta[k] \notin Strangers(sheets, file)
             /\ CollectMetadata(out, k) \notin Strangers(sheets, file) \cup {None}
  <2> DEFINE has == {j \in DOMAIN out : Extractable(out[j]) /\ k \in DOMAIN out[j].meta}
  <2>1. CollectMetadata(out, k) = out[Min(has)].meta[k]
    <3>1. has # {} BY <1>1, <1>6 DEF Outcome
    <3> HIDE DEF out
    <3> QED BY <3>1 DEF CollectMetadata
  <2> HIDE DEF out, done, first
  <2>2. DOMAIN out = DOMAIN sheets BY <1>1 DEF Outcome
  <2>3. has # {} /\ has \in SUBSET Nat BY <1>3, <1>6, <2>2
  <2>4. Min(has) \in has
    <3> HIDE DEF has
    <3> QED BY <2>3, Chosen
  <2>5. ASSUME NEW j \in DOMAIN sheets, Extractable(out[j]), k \in DOMAIN out[j].meta
        PROVE  out[j].meta[k] \notin Strangers(sheets, file) \cup {None}
    <3>1. PICK h \in DOMAIN sheets : Extractable(out[h]) /\ out[j].meta[k] = h
      BY <1>1, <2>5 DEF Outcome
    <3> QED BY <1>3, <1>4, <3>1
  <2> QED BY <1>6, <2>1, <2>2, <2>4, <2>5
<1> HIDE DEF first, done
<1>7. DOMAIN out = DOMAIN sheets BY <1>1 DEF Outcome
<1> QED BY <1>4, <1>5, <1>6, <1>7 DEF MetadataIsOwn

\* For any workbook: a continuation leads to an earlier sheet that is not one, and that is taken
\* out only if it is foreign; no sheet is read in two ways, and every data sheet is read in one.
THEOREM ContinuationsAreRooted ==
  ASSUME NEW sheets, IsBook(sheets), NEW file
  PROVE  ContinuationsRooted(sheets, file)
<1> DEFINE first == Analysed(sheets)
           done == Joined(sheets)
           out == AnalyzeWorkbook(sheets, file)
<1>1. Outcome(sheets, file, first, done, out) BY AnalysisFacts
<1>2. \A i \in DOMAIN sheets : FirstLook(sheets[i], i, first[i]) BY AnalysedFacts
<1>3. \A i \in DOMAIN sheets : /\ done[i].layout = first[i].layout
                               /\ \/ done[i] = first[i]
                                  \/ Continuing(sheets[i].hint, i, first, done, DOMAIN sheets)
  BY Detected
<1>4. PICK n \in Nat : DOMAIN sheets = 1..n BY DEF IsBook
<1> SUFFICES /\ \A i \in DOMAIN out : out[i].role = "continuation" =>
                  LET p == out[i].parent
                  IN /\ p \in 1..(i - 1) /\ out[p].role # "continuation"
                     /\ out[p].role = "utility" => p \in Strangers(sheets, file)
                     /\ sheets[i].hint = "continuation" \/ out[i].layout = out[p].layout
             /\ Columnar(out) \cap Others(out) = {}
             /\ \A i \in DOMAIN out : out[i].role = "data" =>
                  i \in Columnar(out) \/ Strategy(out[i]) # "none"
  BY DEF ContinuationsRooted
<1> HIDE DEF first, done, out
<1>5. DOMAIN out = DOMAIN sheets BY <1>1 DEF Outcome
<1>6. ASSUME NEW i \in DOMAIN sheets, out[i].role = "continuation"
      PROVE  LET p == out[i].parent
             IN /\ p \in 1..(i - 1) /\ out[p].role # "continuation"
                /\ out[p].role = "utility" => p \in Strangers(sheets, file)
                /\ sheets[i].hint = "continuation" \/ out[i].layout = out[p].layout
  <2>1. done[i].role = "continuation" BY <1>1, <1>6 DEF Outcome
  <2>2. done[i] # first[i] BY <1>2, <2>1 DEF FirstLook
  <2>3. Continuing(sheets[i].hint, i, first, done, DOMAIN sheets) BY <1>3, <2>2
  <2> DEFINE p == done[i].parent
  <2>4. /\ p \in DOMAIN sheets /\ p < i /\ done[p].role # "continuation"
        /\ first[p].role \in {"data", "unknown"}
        /\ sheets[i].hint = "continuation" \/ done[i].layout = done[p].layout
    BY <2>3 DEF Continuing
  <2>5. done[p] = first[p] BY <1>3, <2>4 DEF Continuing
  <2>6. p \in 1..(i - 1) BY <1>4, <2>4
  <2>7. out[i].parent = p BY <1>1 DEF Outcome
  <2> HIDE DEF p
  <2>8. /\ out[p].role = IF p \in Strangers(sheets, file) THEN "utility" ELSE done[p].role
        /\ out[p].layout = done[p].layout /\ out[i].layout = done[i].layout
    BY <1>1, <2>4 DEF Outcome
  <2> QED BY <2>4, <2>5, <2>6, <2>7, <2>8
<1>7. Columnar(out) \cap Others(out) = {} BY DEF Columnar, Others
<1>8. ASSUME NEW i \in DOMAIN sheets, out[i].role = "data"
      PROVE  i \in Columnar(out) \/ Strategy(out[i]) # "none"
  <2>1. done[i].role = "data" BY <1>1, <1>8 DEF Outcome
  <2>2. done[i] = first[i] BY <1>3, <2>1 DEF Continuing
  <2>3. out[i].layout = first[i].layout /\ out[i].cols = first[i].cols BY <1>1, <2>2 DEF Outcome
  <2>4. /\ first[i].layout = sheets[i].layout
        /\ first[i].layout = "none" => first[i].cols # {}
    BY <1>2, <2>1, <2>2 DEF FirstLook
  <2>5. sheets[i].layout \in {"none", "column_headers", "row_headers", "tag_column", "global_tag"}
    BY DEF IsBook
  <2>6. Extractable(out[i]) BY <1>8 DEF Extractable
  <2>7. CASE out[i].layout = "column_headers" BY <1>5, <1>8, <2>6, <2>7 DEF Columnar
  <2>8. CASE out[i].layout # "column_headers" BY <2>3, <2>4, <2>5, <2>8 DEF Strategy
  <2> QED BY <2>7, <2>8
<1> QED BY <1>5, <1>6, <1>7, <1>8

-----------------------------------------------------------------------------
(* The header row *)

\* Of finitely many rows with a score there is a best one.
LEMMA TopScore ==
  ASSUME NEW S \in SUBSET Nat, S # {}, NEW b \in Nat, \A k \in S : k <= b, NEW f \in [S -> Nat]
  PROVE  \E n \in S : \A m \in S : f[m] <= f[n]
<1> DEFINE Upto(n) == {k \in S : k <= n}
           Topped(n) == \E k \in Upto(n) : \A m \in Upto(n) : f[m] <= f[k]
           bad == {n \in Nat : Upto(n) # {} /\ ~Topped(n)}
<1>1. bad = {}
  <2> SUFFICES ASSUME bad # {} PROVE FALSE OBVIOUS
  <2>1. PICK n \in bad : \A k \in bad : n <= k
    <3>1. bad \in SUBSET Nat OBVIOUS
    <3> HIDE DEF bad
    <3> QED BY <3>1, Least
  <2>2. n \in S
    <3> SUFFICES ASSUME n \notin S PROVE FALSE OBVIOUS
    <3>0. n \in Nat /\ \A k \in S : k \in Nat /\ k # n BY <2>1
    <3>1. PICK k \in S : k <= n BY <2>1
    <3>2. Upto(n) = Upto(n - 1) /\ n - 1 \in Nat
      <4>1. n - 1 \in Nat /\ \A l \in S : l <= n <=> l <= n - 1 BY <3>0, <3>1
      <4> QED BY <4>1
    <3>3. n - 1 \in bad BY <2>1, <3>2
    <3> QED BY <2>1, <3>2, <3>3
  <2>3. CASE \A k \in S : k >= n
    <3>1. Upto(n) = {n} BY <2>1, <2>2, <2>3
    <3> QED BY <2>1, <2>2, <3>1
  <2>4. CASE \E k \in S : k < n
    <3>1. n - 1 \in Nat /\ Upto(n - 1) # {} BY <2>1, <2>4
    <3>2. n - 1 \notin bad BY <2>1, <3>1
    <3>3. PICK k \in Upto(n - 1) : \A m \in Upto(n - 1) : f[m] <= f[k] BY <3>1, <3>2
    <3>4. Upto(n) = Upto(n - 1) \cup {n}
      <4>1. n \in Nat /\ \A l \in S : l <= n <=> l <= n - 1 \/ l = n BY <2>1
      <4> QED BY <2>2, <4>1
    <3>5. f[k] \in Nat /\ f[n] \in Nat /\ \A m \in Upto(n - 1) : f[m] \in Nat BY <2>2
    <3>6. Topped(n)
      <4> DEFINE top == IF f[k] >= f[n] THEN k ELSE n
      <4>1. top \in Upto(n) BY <3>3, <3>4
      <4>2. f[top] >= f[k] /\ f[top] >= f[n] /\ f[top] \in Nat BY <3>5
      <4> HIDE DEF top
      <4>3. ASSUME NEW m \in Upto(n) PROVE f[m] <= f[top]
        <5>1. m \in Upto(n - 1) \/ m = n BY <3>4
        <5> QED BY <3>3, <3>5, <4>2, <5>1
      <4> QED BY <4>1, <4>3
    <3> QED BY <2>1, <3>6
  <2> QED BY <2>2, <2>3, <2>4
<1>2. Upto(b) = S OBVIOUS
<1> QED BY <1>1, <1>2

\* What is counted in a row.
LEMMA Counted ==
  ASSUME NEW row, IsColumn(row), NEW kinds
  PROVE  /\ IsFiniteSet(Cells(row, kinds)) /\ Cardinality(Cells(row, kinds)) \in Nat
         /\ Cells(row, kinds) \in SUBSET Nat /\ \E b \in Nat : \A c \in Cells(row, kinds) : c <= b
<1>1. PICK n \in Nat : DOMAIN row = 1..n BY DEF IsColumn
<1>2. IsFiniteSet(1..n) BY FS_Interval
<1>3. Cells(row, kinds) \in SUBSET (1..n) BY <1>1 DEF Cells
<1>4. IsFiniteSet(Cells(row, kinds)) BY <1>2, <1>3, FS_Subset
<1>5. Cardinality(Cells(row, kinds)) \in Nat BY <1>4, FS_CardinalityType
<1>6. \A c \in Cells(row, kinds) : c <= n /\ c \in Nat BY <1>3
<1> QED BY <1>4, <1>5, <1>6

\* A wider set is at least as wide.
LEMMA Widths ==
  ASSUME NEW S \in SUBSET Nat, NEW T \in SUBSET S, NEW b \in Nat, \A k \in S : k <= b
  PROVE  Width(S) \in Nat /\ Width(T) \in Nat /\ Width(T) <= Width(S)
<1>1. ASSUME NEW U \in SUBSET S, U # {}
      PROVE  /\ Min(U) \in U /\ Max(U) \in U /\ Min(U) <= Max(U)
             /\ \A k \in U : Min(U) <= k /\ k <= Max(U)
  <2>1. U \in SUBSET Nat /\ \A k \in U : k <= b BY <1>1
  <2> QED BY <1>1, <2>1, Chosen
<1>2. ASSUME NEW U \in SUBSET S PROVE Width(U) \in Nat
  <2>1. CASE U = {} BY <2>1 DEF Width
  <2>2. CASE U # {}
    <3>1. Min(U) \in Nat /\ Max(U) \in Nat /\ Min(U) <= Max(U) BY <1>1, <2>2
    <3> QED BY <2>2, <3>1 DEF Width
  <2> QED BY <2>1, <2>2
<1>3. Width(T) <= Width(S)
  <2>1. CASE T = {}
    <3>1. Width(T) = 0 BY <2>1 DEF Width
    <3>2. Width(S) \in Nat BY <1>2
    <3> QED BY <3>1, <3>2
  <2>2. CASE T # {}
    <3>1. S # {} BY <2>2
    <3>2. /\ Min(T) \in T /\ Max(T) \in T /\ Min(S) \in S /\ Max(S) \in S
          /\ \A k \in S : Min(S) <= k /\ k <= Max(S)
      BY <1>1, <2>2, <3>1
    <3>3. Min(S) <= Min(T) /\ Max(T) <= Max(S) BY <3>2
    <3>4. Width(T) = Max(T) - Min(T) /\ Width(S) = Max(S) - Min(S) BY <2>2, <3>1 DEF Width
    <3>5. Min(T) \in Nat /\ Max(T) \in Nat /\ Min(S) \in Nat /\ Max(S) \in Nat BY <3>2
    <3> HIDE DEF Width
    <3> QED BY <3>3, <3>4, <3>5
  <2> QED BY <2>1, <2>2
<1> QED BY <1>2, <1>3

\* The part of the score that counts filled cells is small.
LEMMA Filling ==
  ASSUME NEW row, IsColumn(row)
  PROVE  LET fill == Min({Cardinality(DOMAIN row \ Cells(row, {"blank"})), 30})
         IN fill \in Nat /\ fill <= 30
<1> DEFINE full == DOMAIN row \ Cells(row, {"blank"})
           n == Cardinality(full)
<1>1. n \in Nat
  <2>1. PICK l \in Nat : DOMAIN row = 1..l BY DEF IsColumn
  <2>2. IsFiniteSet(1..l) BY FS_Interval
  <2>3. full \in SUBSET (1..l) BY <2>1
  <2> HIDE DEF full
  <2>4. IsFiniteSet(full) BY <2>2, <2>3, FS_Subset
  <2> QED BY <2>4, FS_CardinalityType
<1> HIDE DEF n
<1>2. {n, 30} \in SUBSET Nat /\ {n, 30} # {} /\ 30 \in {n, 30} BY <1>1
<1>3. Min({n, 30}) \in {n, 30} /\ Min({n, 30}) <= 30 BY <1>2, Chosen
<1>4. Min({n, 30}) \in Nat BY <1>2, <1>3
<1> QED BY <1>3, <1>4 DEF n

\* A row that has all another has, and more, scores higher.
LEMMA HigherScore ==
  ASSUME NEW a, IsColumn(a), NEW b, IsColumn(b),
         Keys(b) \subseteq Keys(a), Crits(b) \subseteq Crits(a), HasItem(b) => HasItem(a),
         Score(a) <= Score(b)
  PROVE  Keys(a) = Keys(b) /\ Crits(a) = Crits(b)
<1>1. /\ IsFiniteSet(Keys(a)) /\ Cardinality(Keys(a)) \in Nat
      /\ IsFiniteSet(Crits(a)) /\ Cardinality(Crits(a)) \in Nat
      /\ Cardinality(Keys(b)) \in Nat /\ Cardinality(Crits(b)) \in Nat
  BY Counted DEF Keys, Crits
<1>2. /\ Cardinality(Keys(b)) <= Cardinality(Keys(a))
      /\ Cardinality(Keys(b)) = Cardinality(Keys(a)) => Keys(b) = Keys(a)
  BY <1>1, FS_Subset
<1>3. /\ Cardinality(Crits(b)) <= Cardinality(Crits(a))
      /\ Cardinality(Crits(b)) = Cardinality(Crits(a)) => Crits(b) = Crits(a)
  BY <1>1, FS_Subset
<1>4. Width(Keys(a)) \in Nat /\ Width(Keys(b)) \in Nat /\ Width(Keys(b)) <= Width(Keys(a))
  <2>1. Keys(a) \in SUBSET Nat /\ \E c \in Nat : \A k \in Keys(a) : k <= c BY Counted DEF Keys
  <2> QED BY <2>1, Widths
<1> DEFINE Fill(row) == Min({Cardinality(DOMAIN row \ Cells(row, {"blank"})), 30})
           Item(row) == IF HasItem(row) THEN 1000 ELSE 0
<1>5. Fill(a) \in Nat /\ Fill(b) \in Nat /\ Fill(a) <= 30 /\ Fill(b) <= 30 BY Filling
<1>6. Item(a) \in Nat /\ Item(b) \in Nat /\ Item(b) <= Item(a) OBVIOUS
<1>7. /\ Score(a) = 200 * Cardinality(Keys(a)) + 100 * Cardinality(Crits(a)) + 20 * Width(Keys(a))
                     + 2 * Fill(a) + Item(a)
      /\ Score(b) = 200 * Cardinality(Keys(b)) + 100 * Cardinality(Crits(b)) + 20 * Width(Keys(b))
                     + 2 * Fill(b) + Item(b)
  BY DEF Score
<1> HIDE DEF Fill, Item
<1>8. Cardinality(Keys(b)) = Cardinality(Keys(a)) /\ Cardinality(Crits(b)) = Cardinality(Crits(a))
  <2>1. ASSUME NEW k \in Nat, NEW l \in Nat, l <= k, NEW c \in Nat, NEW d \in Nat, d <= c,
               NEW w \in Nat, NEW v \in Nat, v <= w, NEW i \in Nat, NEW j \in Nat, j <= i,
               NEW e \in Nat, NEW f \in Nat, f <= 30,
               200 * k + 100 * c + 20 * w + 2 * e + i <= 200 * l + 100 * d + 20 * v + 2 * f + j
        PROVE  l = k /\ d = c
    BY <2>1
  <2>2. Cardinality(Keys(b)) <= Cardinality(Keys(a)) /\ Cardinality(Crits(b)) <= Cardinality(Crits(a))
    BY <1>2, <1>3
  <2> QED BY <1>1, <1>4, <1>5, <1>6, <1>7, <2>1, <2>2
<1> QED BY <1>2, <1>3, <1>8

\* The rows of a sheet, each from its first cell on.
IsSheet(rows) == IsColumn(rows) /\ \A n \in DOMAIN rows : IsColumn(rows[n])

\* For any sheet: find_header_row passes no full header over that is better than the row it takes.
THEOREM HeaderIsBest ==
  ASSUME NEW rows, IsSheet(rows)
  PROVE  HeaderNotDominated(rows)
<1> DEFINE h == FindHeaderRow(rows)
           full   == {n \in Scanned(rows) : Accepted(rows[n])}
           best   == {n \in full : \A m \in full : Score(rows[m]) <= Score(rows[n])}
           sparse == {n \in Scanned(rows) : HasItem(rows[n]) /\ Cardinality(Keys(rows[n])) >= 2}
           most   == {n \in Scanned(rows) : /\ Cardinality(Words(rows[n])) >= 2
                        /\ \A m \in Scanned(rows) : Cardinality(Words(rows[m])) <= Cardinality(Words(rows[n]))}
           rest   == IF most # {} THEN Min(most) ELSE None
<1>1. PICK len \in Nat : Scanned(rows) \subseteq 1..len /\ Scanned(rows) \subseteq DOMAIN rows
  BY DEF IsSheet, IsColumn, Scanned
<1>2. h = IF best # {} THEN Min(best) ELSE IF sparse # {} THEN Min(sparse) ELSE rest
  BY DEF FindHeaderRow
<1>3. ASSUME NEW n \in Scanned(rows) PROVE Score(rows[n]) \in Nat
  <2> DEFINE row == rows[n]
  <2>0. IsColumn(row) BY <1>1 DEF IsSheet
  <2> HIDE DEF row
  <2>1. Cardinality(Keys(row)) \in Nat /\ Cardinality(Crits(row)) \in Nat
    BY <2>0, Counted DEF Keys, Crits
  <2>2. Width(Keys(row)) \in Nat
    <3>1. Keys(row) \in SUBSET Nat /\ \E c \in Nat : \A k \in Keys(row) : k <= c
      BY <2>0, Counted DEF Keys
    <3> QED BY <3>1, Widths
  <2> DEFINE fill == Min({Cardinality(DOMAIN row \ Cells(row, {"blank"})), 30})
             item == IF HasItem(row) THEN 1000 ELSE 0
  <2>3. fill \in Nat BY <2>0, Filling
  <2>4. item \in Nat OBVIOUS
  <2>5. Score(row) = 200 * Cardinality(Keys(row)) + 100 * Cardinality(Crits(row))
                     + 20 * Width(Keys(row)) + 2 * fill + item
    BY DEF Score
  <2> HIDE DEF fill, item
  <2> QED BY <2>1, <2>2, <2>3, <2>4, <2>5 DEF row
<1>4. full # {} => best # {}
  <2> SUFFICES ASSUME full # {} PROVE best # {} OBVIOUS
  <2> DEFINE f == [n \in full |-> Score(rows[n])]
  <2>1. full \in SUBSET Nat /\ (\A k \in full : k <= len) /\ f \in [full -> Nat] BY <1>1, <1>3
  <2>2. \E n \in full : \A m \in full : f[m] <= f[n]
    <3> HIDE DEF f, full
    <3> QED BY <2>1, TopScore
  <2> HIDE DEF full
  <2> QED BY <2>2
<1>5. best # {} => h \in best
  <2>1. best \in SUBSET Nat BY <1>1
  <2> HIDE DEF best, h
  <2> QED BY <1>2, <2>1, Chosen
<1>6. best = {} /\ sparse # {} => h \in sparse
  <2>1. sparse \in SUBSET Nat BY <1>1
  <2> HIDE DEF best, sparse, h, rest
  <2> QED BY <1>2, <2>1, Chosen
<1>7. ASSUME NEW n \in Scanned(rows), Accepted(rows[n])
      PROVE  Accepted(rows[h]) /\ h \in Scanned(rows) /\ Score(rows[n]) <= Score(rows[h])
  <2>1. n \in full BY <1>7
  <2>2. h \in best BY <1>4, <1>5, <2>1
  <2> QED BY <2>1, <2>2
<1>8. ASSUME NEW n \in Scanned(rows), HasItem(rows[n]) /\ Cardinality(Keys(rows[n])) >= 2
      PROVE  h # None
  <2>1. sparse # {} BY <1>8
  <2>2. h \in Scanned(rows) BY <1>5, <1>6, <2>1
  <2> QED BY <1>1, <2>2 DEF None
<1> HIDE DEF h
<1>9. ASSUME NEW n \in Scanned(rows), Accepted(rows[n]),
             Keys(rows[h]) \subseteq Keys(rows[n]), Crits(rows[h]) \subseteq Crits(rows[n]),
             HasItem(rows[h]) => HasItem(rows[n])
      PROVE  Keys(rows[n]) = Keys(rows[h]) /\ Crits(rows[n]) = Crits(rows[h])
  BY <1>1, <1>7, <1>9, HigherScore DEF IsSheet
<1> QED BY <1>7, <1>8, <1>9 DEF HeaderNotDominated, h

-----------------------------------------------------------------------------
(* The columns under the header *)

\* Claims of fields on columns, no two of which are equally good.
IsClaims(all, width, fields, top) ==
  /\ \A a \in all : /\ a.field \in 1..fields /\ a.col \in 1..width
                    /\ a.rank \in Nat /\ a.score \in 0..top
  /\ \A a, b \in all : a.col = b.col /\ a.rank = b.rank => a = b

\* Of claims there is one that is better than every other.
LEMMA OneBest ==
  ASSUME NEW width \in Nat, NEW fields \in Nat, NEW top \in Nat,
         NEW all, IsClaims(all, width, fields, top), all # {}
  PROVE  \E a \in all : BestOf(all) = {a}
<1> DEFINE scores == {a.score : a \in all}
<1>0. \A a \in all : a.score \in Nat /\ a.score <= top /\ a.col \in Nat /\ a.rank \in Nat
  BY DEF IsClaims
<1>1. scores \in SUBSET Nat /\ scores # {} /\ \A k \in scores : k <= top BY <1>0
<1>2. PICK s \in scores : \A k \in scores : k <= s
  <2> HIDE DEF scores
  <2> QED BY <1>1, Greatest
<1> DEFINE high == {a \in all : a.score = s}
           cols == {a.col : a \in high}
<1>3. cols \in SUBSET Nat /\ cols # {} BY <1>0, <1>2
<1>4. PICK c \in cols : \A k \in cols : c <= k
  <2> HIDE DEF cols
  <2> QED BY <1>3, Least
<1> DEFINE left == {a \in high : a.col = c}
           ranks == {a.rank : a \in left}
<1>5. ranks \in SUBSET Nat /\ ranks # {} BY <1>0, <1>4
<1>6. PICK r \in ranks : \A k \in ranks : r <= k
  <2> HIDE DEF ranks
  <2> QED BY <1>5, Least
<1>7. PICK a \in all : a.score = s /\ a.col = c /\ a.rank = r BY <1>6
<1>8. ASSUME NEW b \in all, b # a PROVE Better(a, b) /\ ~Better(b, a)
  <2>1. b.score \in Nat /\ b.col \in Nat /\ b.rank \in Nat /\ s \in Nat /\ c \in Nat /\ r \in Nat
    BY <1>0, <1>7
  <2>2. b.score <= s BY <1>2
  <2>3. b.score = s => c <= b.col BY <1>4
  <2>4. b.score = s /\ b.col = c => r <= b.rank BY <1>6
  <2>5. ~(b.col = c /\ b.rank = r) BY <1>7, <1>8 DEF IsClaims
  <2> QED BY <1>7, <2>1, <2>2, <2>3, <2>4, <2>5 DEF Better
<1>9. \A b \in BestOf(all) : b = a BY <1>8 DEF BestOf
<1>10. a \in BestOf(all) BY <1>8 DEF BestOf
<1> QED BY <1>9, <1>10

\* The rounds in which the claims are granted.
Rounds(all, n, t) ==
  t = [k \in 0..n |-> IF k = 0 THEN {} ELSE t[k - 1] \cup BestOf(Free(all, t[k - 1]))]

\* There are as many as asked for.
LEMMA RoundsExist ==
  ASSUME NEW all, NEW n \in Nat
  PROVE  \E t : Rounds(all, n, t)
<1> DEFINE bad == {k \in Nat : ~ \E t : Rounds(all, k, t)}
           Next(t, k) == IF k = 0 THEN {} ELSE t[k - 1] \cup BestOf(Free(all, t[k - 1]))
<1> SUFFICES ASSUME bad # {} PROVE FALSE OBVIOUS
<1>1. PICK m \in bad : \A k \in bad : m <= k
  <2>1. bad \in SUBSET Nat OBVIOUS
  <2> HIDE DEF bad
  <2> QED BY <2>1, Least
<1>2. m # 0
  <2> DEFINE t == [k \in 0..0 |-> {}]
  <2>1. t = [k \in 0..0 |-> Next(t, k)] OBVIOUS
  <2>2. Rounds(all, 0, t) BY <2>1 DEF Rounds
  <2> QED BY <2>2
<1>3. m \in Nat /\ m - 1 \in Nat /\ ~(m <= m - 1) BY <1>2
<1>4. PICK e : Rounds(all, m - 1, e)
  <2>1. m - 1 \notin bad
    <3> HIDE DEF bad
    <3> QED BY <1>1, <1>3
  <2> QED BY <1>3, <2>1
<1> HIDE DEF Next
<1>5. e = [k \in 0..(m - 1) |-> Next(e, k)] BY <1>4 DEF Rounds, Next
<1> DEFINE t == [k \in 0..m |-> Next(e, k)]
<1>6. \A k \in 0..(m - 1) : t[k] = e[k] BY <1>3, <1>5
<1>7. ASSUME NEW k \in 0..m PROVE Next(t, k) = Next(e, k)
  <2> HIDE DEF t
  <2>1. CASE k = 0 BY <2>1 DEF Next
  <2>2. CASE k # 0
    <3>1. k - 1 \in 0..(m - 1) BY <1>3, <2>2
    <3>2. t[k - 1] = e[k - 1] BY <1>6, <3>1
    <3> QED BY <2>2, <3>2 DEF Next
  <2> QED BY <2>1, <2>2
<1>8. t = [k \in 0..m |-> Next(t, k)] BY <1>7
<1>9. Rounds(all, m, t)
  <2> HIDE DEF t
  <2> QED BY <1>8 DEF Rounds, Next
<1> QED BY <1>9

\* What is granted after n rounds: no field and no column twice, and a claim that is not free
\* any more has lost to one that is at least as good.
Granted(all, n, taken) ==
  /\ taken \in SUBSET all
  /\ \A a, b \in taken : a # b => a.field # b.field /\ a.col # b.col
  /\ \A a \in all \ Free(all, taken) :
       \E b \in taken : (b.field = a.field \/ b.col = a.col) /\ b.score >= a.score
  /\ Free(all, taken) = {} \/ Cardinality({a.field : a \in taken}) >= n

\* A round keeps it so.
LEMMA NextRound ==
  ASSUME NEW width \in Nat, NEW fields \in Nat, NEW top \in Nat,
         NEW all, IsClaims(all, width, fields, top),
         NEW n \in Nat, NEW taken, Granted(all, n, taken)
  PROVE  Granted(all, n + 1, taken \cup BestOf(Free(all, taken)))
<1> DEFINE free == Free(all, taken)
           more == taken \cup BestOf(free)
<1>1. CASE free = {}
  <2>1. BestOf(free) = {} BY <1>1 DEF BestOf
  <2>2. more = taken BY <2>1
  <2> HIDE DEF more
  <2> QED BY <1>1, <2>2 DEF Granted, more
<1>2. CASE free # {}
  <2>1. free \in SUBSET all /\ IsClaims(free, width, fields, top) BY DEF Free, IsClaims
  <2>2. PICK x \in free : BestOf(free) = {x}
    <3> HIDE DEF free
    <3> QED BY <1>2, <2>1, OneBest
  <2>3. more = taken \cup {x} BY <2>2
  <2>4. \A a \in free : a.score <= x.score
    <3>1. x \in BestOf(free) BY <2>2
    <3>2. \A a \in free \ {x} : Better(x, a) BY <3>1 DEF BestOf
    <3>3. \A a \in free : a.score \in Nat BY <2>1 DEF IsClaims
    <3> HIDE DEF free
    <3> QED BY <3>2, <3>3 DEF Better
  <2>5. x \in all /\ \A a \in taken : a.field # x.field /\ a.col # x.col BY DEF Free
  <2>6. Free(all, more) = {a \in free : a.field # x.field /\ a.col # x.col}
    BY <2>3 DEF Free
  <2>7. {a.field : a \in more} = {a.field : a \in taken} \cup {x.field} BY <2>3
  <2> DEFINE used == {a.field : a \in taken}
  <2>8. IsFiniteSet(used)
    <3>1. used \in SUBSET (1..fields) BY DEF Granted, IsClaims
    <3>2. IsFiniteSet(1..fields) BY FS_Interval
    <3> HIDE DEF used
    <3> QED BY <3>1, <3>2, FS_Subset
  <2>9. x.field \notin used BY <2>5
  <2>10. Cardinality(used \cup {x.field}) = Cardinality(used) + 1 /\ Cardinality(used) \in Nat
    <3> HIDE DEF used
    <3> QED BY <2>8, <2>9, FS_AddElement, FS_CardinalityType
  <2>11. Cardinality(used) >= n BY <1>2 DEF Granted
  <2>12. Cardinality({a.field : a \in more}) >= n + 1
    <3> HIDE DEF used
    <3> QED BY <2>7, <2>10, <2>11 DEF used
  <2>13. more \in SUBSET all BY <2>3, <2>5 DEF Granted
  <2>14. ASSUME NEW a \in more, NEW b \in more, a # b PROVE a.field # b.field /\ a.col # b.col
    BY <2>3, <2>5, <2>14 DEF Granted
  <2>15. ASSUME NEW a \in all \ Free(all, more)
         PROVE  \E b \in more : (b.field = a.field \/ b.col = a.col) /\ b.score >= a.score
    <3>1. CASE a \in free
      <4>1. a.field = x.field \/ a.col = x.col BY <2>6, <2>15, <3>1
      <4>2. x.score >= a.score
        <5>1. x.score \in Nat /\ a.score \in Nat BY <2>5 DEF IsClaims
        <5> QED BY <2>4, <3>1, <5>1
      <4> QED BY <2>3, <4>1, <4>2
    <3>2. CASE a \notin free BY <2>3, <2>15, <3>2 DEF Granted
    <3> QED BY <3>1, <3>2
  <2> HIDE DEF more, free
  <2> QED BY <2>12, <2>13, <2>14, <2>15 DEF Granted, more, free
<1> QED BY <1>1, <1>2

\* After as many rounds as there are fields nothing is left to grant.
LEMMA AllGranted ==
  ASSUME NEW width \in Nat, NEW fields \in Nat, NEW top \in Nat,
         NEW all, IsClaims(all, width, fields, top), NEW t, Rounds(all, fields, t)
  PROVE  Granted(all, fields, t[fields]) /\ Free(all, t[fields]) = {}
<1> DEFINE bad == {n \in 0..fields : ~Granted(all, n, t[n])}
<1>0. \A n \in 0..fields : t[n] = IF n = 0 THEN {} ELSE t[n - 1] \cup BestOf(Free(all, t[n - 1]))
  BY DEF Rounds
<1>1. bad = {}
  <2> SUFFICES ASSUME bad # {} PROVE FALSE OBVIOUS
  <2>1. PICK m \in bad : \A k \in bad : m <= k
    <3>1. bad \in SUBSET Nat OBVIOUS
    <3> HIDE DEF bad
    <3> QED BY <3>1, Least
  <2>2. CASE m = 0
    <3>1. 0 \in 0..fields /\ t[0] = {}
      <4>1. 0 \in 0..fields OBVIOUS
      <4> QED BY <1>0, <4>1
    <3>2. Free(all, {}) = all BY DEF Free
    <3>3. Cardinality({a.field : a \in {}}) = 0
      <4>1. {a.field : a \in {}} = {} OBVIOUS
      <4> QED BY <4>1, FS_EmptySet
    <3>4. Granted(all, 0, {}) BY <3>2, <3>3 DEF Granted
    <3> QED BY <2>1, <2>2, <3>1, <3>4
  <2>3. CASE m # 0
    <3>1. m \in 0..fields /\ m - 1 \in 0..fields /\ m - 1 \in Nat /\ ~(m <= m - 1) /\ m - 1 + 1 = m
      BY <2>3
    <3>2. m - 1 \notin bad
      <4> HIDE DEF bad
      <4> QED BY <2>1, <3>1
    <3>3. Granted(all, m - 1, t[m - 1]) BY <3>1, <3>2
    <3>4. Granted(all, m - 1 + 1, t[m - 1] \cup BestOf(Free(all, t[m - 1]))) BY <3>1, <3>3, NextRound
    <3>5. t[m] = t[m - 1] \cup BestOf(Free(all, t[m - 1])) BY <1>0, <2>3, <3>1
    <3> QED BY <2>1, <3>1, <3>4, <3>5
  <2> QED BY <2>2, <2>3
<1>2. Granted(all, fields, t[fields]) BY <1>1
<1> DEFINE taken == t[fields]
           used == {a.field : a \in taken}
<1>3. used \in SUBSET (1..fields) BY <1>2 DEF Granted, IsClaims
<1>4. ASSUME Free(all, taken) # {} PROVE FALSE
  <2>1. Cardinality(used) >= fields BY <1>2, <1>4 DEF Granted
  <2>2. IsFiniteSet(1..fields) /\ Cardinality(1..fields) = fields
    <3>1. 1 \in Int /\ fields \in Int OBVIOUS
    <3>2. IsFiniteSet(1..fields) BY FS_Interval
    <3>3. Cardinality(1..fields) = IF 1 > fields THEN 0 ELSE fields - 1 + 1 BY <3>1, FS_Interval
    <3> QED BY <3>2, <3>3
  <2>3. used = 1..fields
    <3> HIDE DEF used
    <3>1. Cardinality(used) <= fields /\ Cardinality(used) \in Nat BY <1>3, <2>2, FS_Subset, FS_CardinalityType
    <3>2. Cardinality(used) = Cardinality(1..fields) BY <2>1, <2>2, <3>1
    <3> QED BY <1>3, <2>2, <3>2, FS_Subset
  <2>4. PICK a \in all : \A b \in taken : b.field # a.field BY <1>4 DEF Free
  <2>5. a.field \in used BY <2>3, <2>4 DEF IsClaims
  <2> QED BY <2>4, <2>5
<1> QED BY <1>2, <1>4

\* The head of a sheet as the columns are mapped from it: each text fits each field to 0..100.
IsMappable(rows, h, columns, fields) ==
  /\ IsColumn(rows) /\ h \in DOMAIN rows /\ IsColumn(columns)
  /\ \A n \in DOMAIN rows, c \in DOMAIN columns, f \in DOMAIN fields : rows[n].scores[c][f] \in 0..100

\* The best text is one of the header rows'.
LEMMA Texts ==
  ASSUME NEW rows, NEW h, NEW columns, NEW fields, IsMappable(rows, h, columns, fields),
         NEW c \in DOMAIN columns, NEW f \in DOMAIN fields
  PROVE  BestText(rows, h, c, f) \in 0..100
<1> DEFINE S == {rows[n].scores[c][f] : n \in HeaderRows(rows, h)}
<1>1. HeaderRows(rows, h) \subseteq DOMAIN rows /\ h \in HeaderRows(rows, h)
  BY DEF HeaderRows, IsMappable
<1>2. S \in SUBSET (0..100) /\ S # {}
  <2> HIDE DEF HeaderRows
  <2> QED BY <1>1 DEF IsMappable
<1>3. S \in SUBSET Nat /\ S # {} /\ \E b \in Nat : \A k \in S : k <= b
  <2> HIDE DEF S
  <2>1. 100 \in Nat /\ \A k \in S : k \in Nat /\ k <= 100 BY <1>2
  <2> QED BY <1>2, <2>1
<1>4. Max(S) \in S
  <2> HIDE DEF S
  <2> QED BY <1>3, Chosen
<1> QED BY <1>2, <1>4 DEF BestText

\* The fields a column fits better than field f.
Fitter(base, n, f) == {g \in 1..n : base[g] > base[f] \/ (base[g] = base[f] /\ g < f)}

\* No two fields are equally good for a column.
LEMMA Ranked ==
  ASSUME NEW n \in Nat, NEW base, \A f \in 1..n : base[f] \in Nat, NEW f \in 1..n, NEW g \in 1..n
  PROVE  /\ Cardinality(Fitter(base, n, f)) \in Nat
         /\ Cardinality(Fitter(base, n, f)) = Cardinality(Fitter(base, n, g)) => f = g
<1>1. ASSUME NEW k \in 1..n PROVE IsFiniteSet(Fitter(base, n, k)) /\ Cardinality(Fitter(base, n, k)) \in Nat
  <2>1. IsFiniteSet(1..n) BY FS_Interval
  <2>2. Fitter(base, n, k) \in SUBSET (1..n) BY DEF Fitter
  <2> QED BY <2>1, <2>2, FS_Subset, FS_CardinalityType
<1>2. ASSUME NEW k \in 1..n, NEW l \in 1..n, k \in Fitter(base, n, l)
      PROVE  Cardinality(Fitter(base, n, k)) # Cardinality(Fitter(base, n, l))
  <2>1. Fitter(base, n, k) \subseteq Fitter(base, n, l)
    <3> SUFFICES ASSUME NEW m \in Fitter(base, n, k) PROVE m \in Fitter(base, n, l) OBVIOUS
    <3>1. m \in 1..n /\ base[m] \in Nat /\ base[k] \in Nat /\ base[l] \in Nat BY DEF Fitter
    <3>2. base[m] > base[k] \/ (base[m] = base[k] /\ m < k) BY DEF Fitter
    <3>3. base[k] > base[l] \/ (base[k] = base[l] /\ k < l) BY <1>2 DEF Fitter
    <3>4. base[m] > base[l] \/ (base[m] = base[l] /\ m < l) BY <3>1, <3>2, <3>3
    <3> QED BY <3>1, <3>4 DEF Fitter
  <2>2. k \notin Fitter(base, n, k) BY DEF Fitter
  <2>3. Fitter(base, n, k) # Fitter(base, n, l) BY <1>2, <2>2
  <2> QED BY <1>1, <2>1, <2>3, FS_Subset
<1>3. f # g => f \in Fitter(base, n, g) \/ g \in Fitter(base, n, f)
  <2>1. base[f] \in Nat /\ base[g] \in Nat OBVIOUS
  <2> QED BY <2>1 DEF Fitter
<1> QED BY <1>1, <1>2, <1>3

\* The candidates for the mapping are claims, scored up to 150.
LEMMA CandidatesAreClaims ==
  ASSUME NEW S, NEW fields \in Seq(S), NEW rows, NEW h, NEW columns,
         IsMappable(rows, h, columns, fields), NEW least,
         NEW width \in Nat, DOMAIN columns = 1..width
  PROVE  IsClaims(Candidates(rows, h, columns, fields, least), width, Len(fields), 150)
<1> DEFINE base == [c \in DOMAIN columns |-> [f \in DOMAIN fields |-> BestText(rows, h, c, f)]]
           Before(c, f) == {g \in DOMAIN fields : \/ base[c][g] > base[c][f]
                                                  \/ base[c][g] = base[c][f] /\ g < f}
           Claim(f, c) == [field |-> f, col |-> c, rank |-> Cardinality(Before(c, f)),
                           score |-> base[c][f] + (IF columns[c].prefers = fields[f] THEN 50 ELSE 0)]
           all == Candidates(rows, h, columns, fields, least)
           n == Len(fields)
<1>1. n \in Nat /\ DOMAIN fields = 1..n OBVIOUS
<1>2. \A a \in all : \E f \in DOMAIN fields, c \in DOMAIN columns : a = Claim(f, c)
  <2> DEFINE claims == {Claim(f, c) : f \in DOMAIN fields, c \in DOMAIN columns}
  <2>1. all \subseteq claims
    <3>1. all = {a \in claims : /\ base[a.col][a.field] >= least
                                /\ a.rank < 3
                                /\ Fits(fields[a.field], columns[a.col])}
      BY DEF Candidates
    <3> HIDE DEF all, claims, base
    <3> QED BY <3>1
  <2> HIDE DEF all, Claim
  <2> QED BY <2>1
<1>3. \A c \in DOMAIN columns, f \in DOMAIN fields : base[c][f] \in 0..100 BY Texts
<1>4. \A c \in DOMAIN columns, f \in DOMAIN fields : Before(c, f) = Fitter(base[c], n, f)
  BY <1>1 DEF Fitter
<1> HIDE DEF base, Before, all, n
<1>5. ASSUME NEW c \in DOMAIN columns, NEW f \in DOMAIN fields, NEW g \in DOMAIN fields
      PROVE  /\ Cardinality(Before(c, f)) \in Nat
             /\ Cardinality(Before(c, f)) = Cardinality(Before(c, g)) => f = g
  <2>1. ASSUME NEW k \in 1..n PROVE base[c][k] \in Nat
    <3>1. base[c][k] \in 0..100 BY <1>1, <1>3
    <3>2. \A v \in 0..100 : v \in Nat OBVIOUS
    <3> QED BY <3>1, <3>2, Zenon
  <2>2. f \in 1..n /\ g \in 1..n BY <1>1
  <2>3. /\ Cardinality(Fitter(base[c], n, f)) \in Nat
        /\ Cardinality(Fitter(base[c], n, f)) = Cardinality(Fitter(base[c], n, g)) => f = g
    BY <1>1, <2>1, <2>2, Ranked
  <2>4. Before(c, f) = Fitter(base[c], n, f) /\ Before(c, g) = Fitter(base[c], n, g) BY <1>4
  <2> QED BY <2>3, <2>4
<1>6. ASSUME NEW a \in all
      PROVE  a.field \in 1..n /\ a.col \in 1..width /\ a.rank \in Nat /\ a.score \in 0..150
  <2>1. PICK f \in DOMAIN fields, c \in DOMAIN columns : a = Claim(f, c) BY <1>2
  <2>2. base[c][f] \in 0..100 BY <1>3
  <2>3. Cardinality(Before(c, f)) \in Nat BY <1>5
  <2> DEFINE bonus == IF columns[c].prefers = fields[f] THEN 50 ELSE 0
  <2>4. bonus \in {0, 50} OBVIOUS
  <2>5. /\ a.field = f /\ a.col = c /\ a.rank = Cardinality(Before(c, f))
        /\ a.score = base[c][f] + bonus
    BY <2>1
  <2> HIDE DEF bonus
  <2>6. a.score \in 0..150
    <3>1. PICK v \in 0..100 : base[c][f] = v BY <2>2, Zenon
    <3>2. a.score = v + bonus BY <2>5, <3>1
    <3> QED BY <2>4, <3>2
  <2> QED BY <1>1, <2>3, <2>5, <2>6
<1>7. ASSUME NEW a \in all, NEW b \in all, a.col = b.col, a.rank = b.rank PROVE a = b
  <2>1. PICK f \in DOMAIN fields, c \in DOMAIN columns : a = Claim(f, c) BY <1>2
  <2>2. PICK g \in DOMAIN fields, d \in DOMAIN columns : b = Claim(g, d) BY <1>2
  <2>3. c = d /\ Cardinality(Before(c, f)) = Cardinality(Before(d, g)) BY <1>7, <2>1, <2>2
  <2>4. f = g BY <1>5, <2>3
  <2> QED BY <2>1, <2>2, <2>3, <2>4
<1> QED BY <1>6, <1>7 DEF IsClaims, all, n

\* For any header: map_headers gives no field and no column twice, and leaves no claim unheard
\* that is better than those it grants.
THEOREM MappingIsStable ==
  ASSUME NEW S, NEW fields \in Seq(S), NEW rows, NEW h, NEW columns,
         IsMappable(rows, h, columns, fields), NEW least
  PROVE  MappingStable(rows, h, columns, fields, least)
<1> DEFINE all == Candidates(rows, h, columns, fields, least)
           n == Len(fields)
           map == MapHeaders(rows, h, columns, fields, least)
<1>1. PICK width \in Nat : DOMAIN columns = 1..width BY DEF IsMappable, IsColumn
<1>2. n \in Nat /\ IsClaims(all, width, n, 150) BY <1>1, CandidatesAreClaims
<1> HIDE DEF all
<1> DEFINE t == CHOOSE t : Rounds(all, n, t)
<1>3. Rounds(all, n, t) BY <1>2, RoundsExist
<1>4. map = t[n] BY DEF MapHeaders, Rounds, all
<1> HIDE DEF t, map, n
<1>5. Granted(all, n, map) /\ Free(all, map) = {}
  <2>1. 150 \in Nat OBVIOUS
  <2> QED BY <1>2, <1>3, <1>4, <2>1, AllGranted
<1>6. \A a, b \in map : a # b => a.field # b.field /\ a.col # b.col BY <1>5 DEF Granted
<1>7. \A a \in all : \E b \in map : (b.field = a.field \/ b.col = a.col) /\ b.score >= a.score
  BY <1>5 DEF Granted
<1> QED BY <1>6, <1>7 DEF MappingStable, map, all

-----------------------------------------------------------------------------
(* Labelled values *)

\* Where a field has a value that can be used, and where it has one at all.
UsableAt(labels, f) ==
  {i \in DOMAIN labels : labels[i].field = f
     /\ (labels[i].value # "" /\ ~(labels[i].field = "equipment" /\ labels[i].value = "ref"))}
ValuedAt(labels, f) == {i \in DOMAIN labels : labels[i].field = f /\ labels[i].value # ""}

FirstUsable(labels, f) == IF UsableAt(labels, f) = {} THEN "" ELSE labels[Min(UsableAt(labels, f))].value
FirstValued(labels, f) == IF ValuedAt(labels, f) = {} THEN "" ELSE labels[Min(ValuedAt(labels, f))].value
FirstFound(labels, below, f) ==
  IF FirstUsable(labels, f) # "" THEN FirstUsable(labels, f) ELSE FirstValued(below, f)

\* The value of a field, case by case.
ValueOf(found, title, number, f) ==
  IF f = "spir_no" /\ found = "" THEN number
  ELSE IF f = "equipment" /\ found \in {"", "ref"} THEN (IF title THEN "name" ELSE "")
  ELSE found

FieldsOf(labels, below) == {l.field : l \in Range(labels) \cup Range(below)} \cup {"equipment", "spir_no"}

\* find_metadata gives every field its first value.
LEMMA Found ==
  ASSUME NEW labels, NEW below, NEW title, NEW number
  PROVE  /\ DOMAIN FindMetadata(labels, below, title, number) = FieldsOf(labels, below)
         /\ \A f \in FieldsOf(labels, below) :
              FindMetadata(labels, below, title, number)[f]
                = ValueOf(FirstFound(labels, below, f), title, number, f)
<1>1. FindMetadata(labels, below, title, number)
        = [f \in FieldsOf(labels, below) |-> ValueOf(FirstFound(labels, below, f), title, number, f)]
  BY DEF FindMetadata, FieldsOf, ValueOf, FirstFound, FirstUsable, FirstValued, UsableAt, ValuedAt
<1> QED BY <1>1

\* part: the first n of the labels.
FirstOfAll(labels, n, part) ==
  /\ DOMAIN labels \subseteq Nat /\ n \in Nat
  /\ DOMAIN part = {i \in DOMAIN labels : i <= n}
  /\ \A i \in DOMAIN part : part[i] = labels[i]

\* SubSeq takes them.
LEMMA PartOf ==
  ASSUME NEW S, NEW labels \in Seq(S), NEW n \in 0..Len(labels)
  PROVE  FirstOfAll(labels, n, SubSeq(labels, 1, n))
<1> DEFINE part == SubSeq(labels, 1, n)
<1>1. Len(labels) \in Nat /\ n \in Nat /\ n <= Len(labels) OBVIOUS
<1>2. \A i \in 1..n : labels[i] \in S BY <1>1
<1>3. part \in Seq(S) /\ Len(part) = n /\ \A i \in 1..n : part[i] = labels[i]
  <2>1. 1 \in Int /\ n \in Int /\ n - 1 + 1 = n /\ \A i \in 1..n : 1 + i - 1 = i BY <1>1
  <2>2. /\ part \in Seq(S) /\ Len(part) = IF 1 <= n THEN n - 1 + 1 ELSE 0
        /\ \A i \in 1..(n - 1 + 1) : part[i] = labels[1 + i - 1]
    BY <1>2, <2>1, SubSeqProperties
  <2>3. Len(part) = n BY <1>1, <2>2
  <2> HIDE DEF part
  <2> QED BY <2>1, <2>2, <2>3
<1>4. DOMAIN labels = 1..Len(labels) /\ 1..n = {i \in 1..Len(labels) : i <= n} BY <1>1
<1> HIDE DEF part
<1>5. DOMAIN part = 1..n BY <1>3
<1> QED BY <1>1, <1>3, <1>4, <1>5 DEF part, FirstOfAll

\* The least number of a set is the least of those up to a bound.
LEMMA SameLeast ==
  ASSUME NEW n \in Nat, NEW S \in SUBSET Nat, NEW T, T = {i \in S : i <= n}, T # {}
  PROVE  Min(T) = Min(S) /\ Min(T) \in T /\ Min(S) \in S
<1>1. T \in SUBSET Nat /\ S # {} OBVIOUS
<1>2. /\ Min(T) \in T /\ \A k \in T : Min(T) <= k
      /\ Min(S) \in S /\ \A k \in S : Min(S) <= k
  BY <1>1, Chosen
<1>3. /\ Min(S) \in Nat /\ Min(T) \in Nat /\ Min(T) \in S /\ Min(T) <= n BY <1>2
<1>4. Min(S) <= Min(T) BY <1>2, <1>3
<1>5. Min(S) \in T BY <1>2, <1>3, <1>4
<1> QED BY <1>2, <1>3, <1>4, <1>5

\* A value that the first labels have is not changed by those after them.
LEMMA ValueKept ==
  ASSUME NEW S, NEW labels \in Seq(S), NEW n \in 0..Len(labels), NEW f,
         UsableAt(SubSeq(labels, 1, n), f) # {}
  PROVE  /\ FirstUsable(labels, f) = FirstUsable(SubSeq(labels, 1, n), f)
         /\ \E i \in UsableAt(labels, f) : FirstUsable(labels, f) = labels[i].value
<1> DEFINE part == SubSeq(labels, 1, n)
           some == UsableAt(part, f)
           all == UsableAt(labels, f)
<1>0. FirstOfAll(labels, n, part) BY PartOf
<1>2. some # {} OBVIOUS
<1> HIDE DEF part
<1>1. some = {i \in all : i <= n} /\ all \in SUBSET Nat /\ some \subseteq DOMAIN part
  BY <1>0 DEF UsableAt, FirstOfAll
<1> HIDE DEF some, all
<1>4. /\ Min(some) = Min(all) /\ Min(some) \in some /\ Min(all) \in all
  <2>1. n \in Nat OBVIOUS
  <2> QED BY <1>1, <1>2, <2>1, SameLeast
<1> DEFINE a == Min(all)
           b == Min(some)
<1> HIDE DEF a, b
<1>5. b \in some /\ a \in all /\ a = b BY <1>4 DEF a, b
<1>7. part[b] = labels[a] BY <1>0, <1>1, <1>5 DEF FirstOfAll
<1>8. FirstUsable(labels, f) = labels[a].value /\ FirstUsable(part, f) = part[b].value
  BY <1>2, <1>5 DEF FirstUsable, some, all, a, b
<1>10. FirstUsable(labels, f) = FirstUsable(part, f) BY <1>7, <1>8
<1>11. \E i \in all : FirstUsable(labels, f) = labels[i].value BY <1>5, <1>8
<1> QED BY <1>10, <1>11 DEF part, all

\* There is nothing in an empty sequence.
LEMMA Nothing == DOMAIN <<>> = {}
<1>1. <<>> \in Seq({}) /\ Len(<<>>) = 0 BY EmptySeq
<1>2. DOMAIN <<>> = 1..0 BY <1>1
<1> QED BY <1>2

\* For any labels: a value that the header area gives stays, whatever is found further on, and a
\* reference to an annexure never names the equipment.
THEOREM MetadataAreKept ==
  ASSUME NEW S, NEW labels \in Seq(S), NEW below, NEW title, NEW number
  PROVE  MetadataKept(labels, below, title, number)
<1> DEFINE all == FindMetadata(labels, below, title, number)
           Part(n) == SubSeq(labels, 1, n)
           Some(n) == FindMetadata(Part(n), <<>>, FALSE, "")
<1>1. all["equipment"] # "ref"
  <2>1. "equipment" \in FieldsOf(labels, below) BY DEF FieldsOf
  <2>2. all["equipment"] = ValueOf(FirstFound(labels, below, "equipment"), title, number, "equipment")
    BY <2>1, Found
  <2> HIDE DEF all
  <2> QED BY <2>2 DEF ValueOf
<1>2. ASSUME NEW n \in 0..Len(labels), NEW f \in DOMAIN Some(n), Some(n)[f] # ""
      PROVE  all[f] = Some(n)[f]
  <2> DEFINE part == Part(n)
             first == FirstUsable(part, f)
  <2>0. FirstOfAll(labels, n, part) BY PartOf
  <2>1. FirstFound(part, <<>>, f) = first
    <3>1. ValuedAt(<<>>, f) = {}
      <4>1. DOMAIN <<>> = {} BY Nothing
      <4> QED BY <4>1 DEF ValuedAt
    <3>2. FirstValued(<<>>, f) = "" BY <3>1 DEF FirstValued
    <3> HIDE DEF part
    <3> QED BY <3>2 DEF FirstFound
  <2>2. f \in FieldsOf(part, <<>>) /\ Some(n)[f] = ValueOf(FirstFound(part, <<>>, f), FALSE, "", f)
    BY Found
  <2> HIDE DEF Some
  <2>3. first # "" /\ Some(n)[f] = first
    <3>1. Some(n)[f] = ValueOf(first, FALSE, "", f) BY <2>1, <2>2
    <3> HIDE DEF first, part, all
    <3>2. ValueOf(first, FALSE, "", f) # "" BY <1>2, <3>1
    <3> QED BY <3>1, <3>2 DEF ValueOf
  <2>4. FirstUsable(labels, f) = first /\ ~(f = "equipment" /\ first = "ref")
    <3>1. FirstUsable(part, f) # "" BY <2>3
    <3>2. UsableAt(part, f) # {} BY <3>1 DEF FirstUsable
    <3>3. /\ FirstUsable(labels, f) = FirstUsable(part, f)
          /\ \E i \in UsableAt(labels, f) : FirstUsable(labels, f) = labels[i].value
      BY <3>2, ValueKept
    <3> HIDE DEF part
    <3> QED BY <3>3 DEF UsableAt
  <2> HIDE DEF first, part
  <2>5. FirstFound(labels, below, f) = first BY <2>3, <2>4 DEF FirstFound
  <2>6. f \in FieldsOf(labels, below)
    <3>1. Range(<<>>) = {}
      <4>1. DOMAIN <<>> = {} BY Nothing
      <4> QED BY <4>1 DEF Range
    <3>2. Range(part) \subseteq Range(labels)
      <4>1. DOMAIN part \subseteq DOMAIN labels /\ \A i \in DOMAIN part : part[i] = labels[i]
        BY <2>0 DEF FirstOfAll
      <4> QED BY <4>1 DEF Range
    <3> QED BY <2>2, <3>1, <3>2 DEF FieldsOf
  <2>7. all[f] = ValueOf(first, title, number, f) BY <2>5, <2>6, Found
  <2> HIDE DEF all
  <2> QED BY <2>3, <2>4, <2>7 DEF ValueOf
<1> QED BY <1>1, <1>2 DEF MetadataKept

-----------------------------------------------------------------------------
(* The type, the last row, the number and the revision *)

\* For any sheet: find_data_end ends the data before a footer or a gap, nowhere else; a gap is a
\* blank row and four more with nothing in the first 14 columns.
THEOREM DataAreReadWhole ==
  ASSUME NEW S, NEW rows \in Seq(S), NEW header \in Nat
  PROVE  DataReadWhole(rows, header)
<1> DEFINE Until(n) == Min({n + 4, Len(rows)})
           Bare(n) == rows[n] = "blank" /\ \A m \in (n + 1)..Until(n) : rows[m] \in {"blank", "right"}
           Ends(n) == rows[n] = "footer" \/ Bare(n)
           ends == {n \in (header + 1)..Len(rows) : Ends(n)}
           end == FindDataEnd(rows, header)
           Gap(m) == /\ m + 4 <= Len(rows) /\ rows[m] = "blank"
                     /\ \A k \in (m + 1)..(m + 4) : rows[k] \in {"blank", "right"}
<1>1. end = IF ends = {} THEN Len(rows) ELSE Min(ends) - 1 BY DEF FindDataEnd
<1>2. Len(rows) \in Nat /\ DOMAIN rows = 1..Len(rows) OBVIOUS
<1>3. \A n \in Nat : Until(n) = IF n + 4 <= Len(rows) THEN n + 4 ELSE Len(rows)
  <2> SUFFICES ASSUME NEW n \in Nat PROVE Until(n) = IF n + 4 <= Len(rows) THEN n + 4 ELSE Len(rows)
    OBVIOUS
  <2> HIDE DEF Ends, ends, end, Gap
  <2>1. n + 4 \in Nat /\ Len(rows) \in Nat BY <1>2
  <2> QED BY <2>1, LesserOfTwo
<1>4. ends # {} => Min(ends) \in ends /\ \A k \in ends : Min(ends) <= k
  <2>1. ends \in SUBSET Nat BY <1>2
  <2> HIDE DEF ends
  <2> QED BY <2>1, Chosen
<1> SUFFICES ASSUME NEW n \in (header + 1)..Len(rows), rows[n] = "data"
             PROVE  n <= end <=> ~ \E m \in (header + 1)..n : rows[m] = "footer" \/ (Gap(m) /\ m + 4 < n)
  BY DEF DataReadWhole
<1>5. ASSUME n <= end, NEW m \in (header + 1)..n, rows[m] = "footer" \/ (Gap(m) /\ m + 4 < n)
      PROVE  FALSE
  <2>1. m \in Nat /\ m \in (header + 1)..Len(rows) BY <1>2
  <2>2. Ends(m) BY <1>2, <1>3, <1>5, <2>1
  <2>3. m \in ends BY <2>1, <2>2
  <2>4. ends \subseteq Nat BY <1>2
  <2> HIDE DEF ends, end, Ends, Gap
  <2>5. ends # {} BY <2>3
  <2>6. Min(ends) \in ends /\ Min(ends) <= m BY <1>4, <2>3, <2>5
  <2>7. Min(ends) \in Nat BY <2>4, <2>6
  <2>8. end = Min(ends) - 1 BY <1>1, <2>5
  <2>9. n \in Nat /\ m <= n /\ m \in Nat BY <1>2, <2>1
  <2> QED BY <1>5, <2>6, <2>7, <2>8, <2>9
<1>6. ASSUME ~(n <= end)
      PROVE  \E m \in (header + 1)..n : rows[m] = "footer" \/ (Gap(m) /\ m + 4 < n)
  <2> DEFINE e == Min(ends)
  <2>1. ends # {} /\ e \in ends
    <3>1. ends # {}
      <4>1. n <= Len(rows) BY <1>2
      <4> HIDE DEF ends, end, Ends, Gap
      <4> QED BY <1>1, <1>6, <4>1
    <3> QED BY <1>4, <3>1
  <2>2. e \in (header + 1)..Len(rows) /\ Ends(e) BY <2>1
  <2>3. end = e - 1 BY <1>1, <2>1
  <2> HIDE DEF e, end
  <2>4. e \in (header + 1)..n BY <1>2, <1>6, <2>2, <2>3
  <2>5. ASSUME Bare(e) PROVE Gap(e) /\ e + 4 < n
    <3>1. n # e /\ n \notin (e + 1)..Until(e) BY <2>5
    <3>2. Until(e) = IF e + 4 <= Len(rows) THEN e + 4 ELSE Len(rows) BY <1>3, <2>2
    <3> HIDE DEF Until
    <3>3. e + 4 < n /\ e + 4 <= Len(rows) BY <1>2, <2>4, <3>1, <3>2
    <3> QED BY <2>5, <3>2, <3>3
  <2> QED BY <2>2, <2>4, <2>5
<1> QED BY <1>5, <1>6

\* The head of a sheet as far as it tells the type: boxes with what their captions name,
\* labels with the ticks below them, a column of logical values.
IsHead(head) ==
  /\ IsColumn(head.boxes) /\ \A i \in DOMAIN head.boxes : head.boxes[i].types \in SUBSET (0..4)
  /\ IsColumn(head.labels) /\ IsColumn(head.rows)
  /\ IsColumn(head.values)

\* An old workbook's check boxes name a type only if one alone is ticked.
LEMMA BoxesTicked ==
  ASSUME NEW boxes, \A i \in DOMAIN boxes : boxes[i].types \in SUBSET (0..4),
         NEW t, t = TypeFromBoxes(boxes), t # None
  PROVE  /\ \E b \in Range(boxes) : t \in b.types /\ b.state = 1
         /\ \A b \in Range(boxes) : b.state = 1 => b.types \in {{}, {t}}
<1> DEFINE typed  == {b \in Range(boxes) : b.types \notin {{}, {None}}}
           ticked == UNION {b.types : b \in {b \in typed : b.state = 1}}
           doubt  == \/ \E b \in typed : Cardinality(b.types) > 1 \/ b.state = 2
                     \/ \E b \in Range(boxes) : b.types = {None}
<1>1. t = IF ~doubt /\ Cardinality(ticked) = 1 THEN CHOOSE u \in ticked : TRUE ELSE None
  BY DEF TypeFromBoxes
<1>2. ~doubt /\ Cardinality(ticked) = 1 /\ t = CHOOSE u \in ticked : TRUE
  <2> HIDE DEF ticked, doubt
  <2> QED BY <1>1
<1>3. \A b \in Range(boxes) : b.types \in SUBSET (0..4) BY DEF Range
<1>4. IsFiniteSet(ticked)
  <2>1. ticked \in SUBSET (0..4) BY <1>3
  <2>2. IsFiniteSet(0..4)
    <3>1. \A a, b \in Int : IsFiniteSet(a..b) BY FS_Interval
    <3>2. PICK top \in Int : top = 4 OBVIOUS
    <3>3. IsFiniteSet(0..top) BY <3>1
    <3> QED BY <3>2, <3>3, Zenon
  <2> HIDE DEF ticked
  <2> QED BY <2>1, <2>2, FS_Subset
<1>5. ticked = {t}
  <2> HIDE DEF ticked
  <2>1. PICK u : ticked = {u} BY <1>2, <1>4, FS_Singleton
  <2> QED BY <1>2, <2>1
<1>6. \E b \in typed : b.state = 1 /\ t \in b.types
  <2>1. t \in ticked BY <1>5
  <2> QED BY <2>1
<1>7. ASSUME NEW b \in Range(boxes), b.state = 1 PROVE b.types \in {{}, {t}}
  <2>1. CASE b \in typed
    <3>1. b.types \subseteq ticked BY <1>7, <2>1
    <3> HIDE DEF ticked
    <3> QED BY <1>5, <3>1
  <2>2. CASE b \notin typed BY <1>2, <1>7, <2>2
  <2> QED BY <2>1, <2>2
<1> QED BY <1>6, <1>7

\* A drawing's check box names a type only if it is ticked.
LEMMA DrawingTicked ==
  ASSUME NEW boxes, IsColumn(boxes), \A i \in DOMAIN boxes : boxes[i].types \in SUBSET (0..4),
         NEW t, t = TypeFromDrawing(boxes), t # None
  PROVE  \E b \in Range(boxes) : t \in b.types /\ b.state = 1
<1> DEFINE at == {i \in DOMAIN boxes : boxes[i].state = 1 /\ boxes[i].types \ {None} # {}}
<1>1. at \in SUBSET Nat BY DEF IsColumn
<1>2. t = IF at = {} THEN None ELSE Min(boxes[Min(at)].types) BY DEF TypeFromDrawing
<1>3. at # {} /\ Min(at) \in at
  <2> HIDE DEF at
  <2> QED BY <1>1, <1>2, Chosen
<1>4. PICK i \in at : t = Min(boxes[i].types)
  <2> HIDE DEF at
  <2> QED BY <1>2, <1>3
<1>5. Min(boxes[i].types) \in boxes[i].types
  <2>1. boxes[i].types # {} /\ boxes[i].types \in SUBSET Nat BY <1>4
  <2> QED BY <2>1, Chosen
<1> QED BY <1>4, <1>5 DEF Range

\* A tick below the labels names the type of the label above it.
LEMMA BelowTicked ==
  ASSUME NEW labels, IsColumn(labels), NEW rows, IsColumn(rows),
         NEW t, t = TypeBelow(labels, rows), t # None
  PROVE  \E c \in TickColumns(labels), n \in DOMAIN rows :
           labels[c].type = t /\ rows[n][c] \in {1, 2}
<1> DEFINE cols == TickColumns(labels)
           Holding(n, v) == {c \in cols : rows[n][c] = v}
           True(n) == {c \in Holding(n, 2) : \A d \in cols : d < c => rows[n][d] # 9}
           One(n) == Holding(n, 9) = {} /\ Cardinality(Holding(n, 1)) = 1 /\ Holding(n, 0) # {}
           decides == {n \in DOMAIN rows : True(n) # {} \/ One(n)}
           n == Min(decides)
           chosen == IF True(n) # {} THEN True(n) ELSE Holding(n, 1)
<1>1. t = IF decides = {} THEN None ELSE labels[Min(chosen)].type BY DEF TypeBelow
<1>2. decides \in SUBSET Nat /\ cols \in SUBSET Nat BY DEF IsColumn, TickColumns
<1>3. n \in decides /\ t = labels[Min(chosen)].type
  <2> HIDE DEF decides, chosen
  <2> QED BY <1>1, <1>2, Chosen
<1> HIDE DEF n, cols
<1>4. True(n) # {} \/ Holding(n, 1) # {}
  <2>1. Holding(n, 1) = {} => Cardinality(Holding(n, 1)) = 0 BY FS_EmptySet
  <2> QED BY <1>3, <2>1
<1>5. chosen \in SUBSET cols /\ chosen # {} /\ \A c \in chosen : rows[n][c] \in {1, 2} BY <1>4
<1>6. Min(chosen) \in chosen
  <2> HIDE DEF chosen
  <2> QED BY <1>2, <1>5, Chosen
<1> DEFINE c == Min(chosen)
<1> HIDE DEF chosen
<1>7. c \in cols /\ labels[c].type = t /\ rows[n][c] \in {1, 2} BY <1>3, <1>5, <1>6
<1>8. n \in DOMAIN rows BY <1>3
<1>9. \E k \in cols : \E m \in DOMAIN rows : labels[k].type = t /\ rows[m][k] \in {1, 2}
  <2> HIDE DEF c
  <2> QED BY <1>7, <1>8, Zenon
<1> QED BY <1>9, Zenon DEF cols

\* A label with a tick beside it.
LEMMA BesideTicked ==
  ASSUME NEW labels, NEW t, t = TypeBeside(labels), t # None,
         IsColumn(labels)
  PROVE  \E c, d \in DOMAIN labels : /\ labels[c].type = t /\ d >= c
                                     /\ labels[d].line = labels[c].line /\ labels[d].beside # 0
<1> DEFINE sees == {c \in DOMAIN labels : ~labels[c].header /\ Sees(labels, c)}
           first == Min(sees)
<1>1. t = IF sees = {} THEN None ELSE labels[first].type BY DEF TypeBeside
<1>2. sees \in SUBSET Nat BY DEF IsColumn
<1>3. first \in sees /\ t = labels[first].type
  <2> HIDE DEF sees
  <2> QED BY <1>1, <1>2, Chosen
<1>4. first \in DOMAIN labels /\ Sees(labels, first) BY <1>3
<1> HIDE DEF first
<1>5. PICK d \in DOMAIN labels : /\ d >= first /\ labels[d].line = labels[first].line
                                 /\ labels[d].beside = 2 \/ labels[d].beside = 1
  BY <1>4 DEF Sees
<1>6. labels[d].beside # 0 BY <1>5
<1> QED BY <1>3, <1>4, <1>5, <1>6

\* The one true value of a column names the type.
LEMMA ColumnTicked ==
  ASSUME NEW values, IsColumn(values), NEW t, t = TypeFromColumn(values), t # None
  PROVE  t \in DOMAIN values /\ values[t]
<1> DEFINE true == {i \in DOMAIN values : values[i]}
<1>1. true \in SUBSET Nat BY DEF IsColumn
<1>2. t = Min(true) /\ Cardinality(true) = 1 BY DEF TypeFromColumn
<1>3. true # {}
  <2> HIDE DEF true
  <2> QED BY <1>2, FS_EmptySet
<1>4. t \in true
  <2> HIDE DEF true
  <2> QED BY <1>1, <1>2, <1>3, Chosen
<1> QED BY <1>4

\* For any head of a sheet: the type detect_spir_type reports is one that is ticked there.
THEOREM TypeIsTicked ==
  ASSUME NEW head, IsHead(head)
  PROVE  TypeNotGuessed(head)
<1> DEFINE t == DetectSpirType(head)
           boxed == head.legacy /\ ~NoBoxes(head.boxes)
           drawn == IF head.legacy THEN None ELSE TypeFromDrawing(head.boxes)
           below == TypeBelow(head.labels, head.rows)
           beside == TypeBeside(head.labels)
           column == TypeFromColumn(head.values)
           Beside == \E c, d \in DOMAIN head.labels :
                       /\ head.labels[c].type = t /\ d >= c
                       /\ head.labels[d].line = head.labels[c].line /\ head.labels[d].beside # 0
<1>1. CASE boxed
  <2>1. t = TypeFromBoxes(head.boxes) BY <1>1 DEF DetectSpirType
  <2>2. t # None => /\ \E b \in Range(head.boxes) : t \in b.types /\ b.state = 1
                    /\ \A b \in Range(head.boxes) : b.state = 1 => b.types \in {{}, {t}}
    BY <2>1, BoxesTicked DEF IsHead
  <2> HIDE DEF t
  <2> QED BY <1>1, <2>2 DEF TypeNotGuessed, t
<1>2. CASE ~boxed
  <2>1. t \in {drawn, below, beside, column, None}
    BY <1>2 DEF DetectSpirType
  <2>2. t # None => \/ ~head.legacy /\ \E b \in Range(head.boxes) : t \in b.types /\ b.state = 1
                    \/ \E c \in TickColumns(head.labels), n \in DOMAIN head.rows :
                         head.labels[c].type = t /\ head.rows[n][c] \in {1, 2}
                    \/ Beside
                    \/ t \in DOMAIN head.values /\ head.values[t]
    <3>1. ASSUME t # None, t = drawn
          PROVE  ~head.legacy /\ \E b \in Range(head.boxes) : t \in b.types /\ b.state = 1
      BY <3>1, DrawingTicked DEF IsHead
    <3>2. ASSUME t # None, t = below
          PROVE  \E c \in TickColumns(head.labels), n \in DOMAIN head.rows :
                   head.labels[c].type = t /\ head.rows[n][c] \in {1, 2}
      BY <3>2, BelowTicked DEF IsHead
    <3>3. ASSUME t # None, t = beside PROVE Beside
      BY <3>3, BesideTicked DEF IsHead
    <3>4. ASSUME t # None, t = column PROVE t \in DOMAIN head.values /\ head.values[t]
      BY <3>4, ColumnTicked DEF IsHead
    <3> HIDE DEF t, drawn, below, beside, column
    <3> QED BY <2>1, <3>1, <3>2, <3>3, <3>4
  <2> HIDE DEF t
  <2> QED BY <1>2, <2>2 DEF TypeNotGuessed, t
<1> QED BY <1>1, <1>2

\* Of a set of places there is a first row by row.
LEMMA FirstPlace ==
  ASSUME NEW S \in SUBSET (Nat \X Nat), S # {}
  PROVE  \E p \in S : \A q \in S \ {p} : p[1] < q[1] \/ (p[1] = q[1] /\ p[2] < q[2])
<1> DEFINE R == {p[1] : p \in S}
<1>1. R \in SUBSET Nat /\ R # {} OBVIOUS
<1>2. PICK r \in R : \A k \in R : r <= k
  <2> HIDE DEF R
  <2> QED BY <1>1, Least
<1> DEFINE C == {p[2] : p \in {p \in S : p[1] = r}}
<1>3. C \in SUBSET Nat /\ C # {} OBVIOUS
<1>4. PICK c \in C : \A k \in C : c <= k
  <2> HIDE DEF C
  <2> QED BY <1>3, Least
<1>5. PICK p \in S : p[1] = r /\ p[2] = c BY <1>4
<1>6. ASSUME NEW q \in S \ {p} PROVE p[1] < q[1] \/ (p[1] = q[1] /\ p[2] < q[2])
  <2>1. r <= q[1] /\ r \in Nat /\ q[1] \in Nat BY <1>1, <1>2
  <2>2. q[1] = r => c <= q[2] /\ q[2] \in Nat /\ c \in Nat BY <1>3, <1>4
  <2>3. q[1] # p[1] \/ q[2] # p[2] BY <1>6
  <2> QED BY <1>5, <2>1, <2>2, <2>3
<1> QED BY <1>5, <1>6

\* And one in the first row furthest to the right.
LEMMA CornerPlace ==
  ASSUME NEW b \in Nat, NEW S \in SUBSET (Nat \X (1..b)), S # {}
  PROVE  \E p \in S : \A q \in S : p[1] < q[1] \/ (p[1] = q[1] /\ p[2] >= q[2])
<1> DEFINE R == {p[1] : p \in S}
<1>1. R \in SUBSET Nat /\ R # {} OBVIOUS
<1>2. PICK r \in R : \A k \in R : r <= k
  <2> HIDE DEF R
  <2> QED BY <1>1, Least
<1> DEFINE C == {p[2] : p \in {p \in S : p[1] = r}}
<1>3. C \in SUBSET Nat /\ C # {} /\ \A k \in C : k <= b OBVIOUS
<1>4. PICK c \in C : \A k \in C : k <= c
  <2> HIDE DEF C
  <2> QED BY <1>3, Greatest
<1>5. PICK p \in S : p[1] = r /\ p[2] = c BY <1>4
<1>6. ASSUME NEW q \in S PROVE p[1] < q[1] \/ (p[1] = q[1] /\ p[2] >= q[2])
  <2>1. r <= q[1] /\ r \in Nat /\ q[1] \in Nat BY <1>1, <1>2
  <2>2. q[1] = r => q[2] <= c /\ q[2] \in Nat /\ c \in Nat BY <1>3, <1>4
  <2> QED BY <1>5, <2>1, <2>2
<1> QED BY <1>5, <1>6

\* For any sheet: the SPIR number is read from a cell that holds one, and is not missed where a
\* label stands right before it.
THEOREM NumberIsFound ==
  ASSUME NEW cells, IsColumn(cells), NEW width \in Nat
  PROVE  NumberFound(cells, width)
<1> DEFINE p == DetectSpirNumber(cells, width)
           places == {q \in (DOMAIN cells) \X (1..width) : cells[q[1]][q[2]] # ""}
           corner == {q \in places : /\ q[1] <= 6 /\ q[2] >= Max({1, (6 * width) \div 10})
                                     /\ cells[q[1]][q[2]] = "number"}
           labelled == {q \in places :
                          \/ cells[q[1]][q[2]] = "own"
                          \/ /\ cells[q[1]][q[2]] \in {"number", "inside"} /\ q[2] > 1
                             /\ cells[q[1]][q[2] - 1] \in {"label", "own"}}
           topright == CHOOSE q \in corner :
                         \A s \in corner : q[1] < s[1] \/ (q[1] = s[1] /\ q[2] >= s[2])
           first == CHOOSE q \in labelled : \A s \in labelled \ {q} :
                      q[1] < s[1] \/ (q[1] = s[1] /\ q[2] < s[2])
<1>1. p = IF corner # {} THEN topright ELSE IF labelled # {} THEN first ELSE <<>>
  BY DEF DetectSpirNumber
<1>2. DOMAIN cells \subseteq Nat BY DEF IsColumn
<1>3. /\ corner \in SUBSET (Nat \X (1..width)) /\ labelled \in SUBSET (Nat \X Nat)
      /\ \A q \in corner \cup labelled : q # <<>>
  <2>1. places \subseteq (DOMAIN cells) \X (1..width) OBVIOUS
  <2>2. (DOMAIN cells) \X (1..width) \subseteq Nat \X (1..width) BY <1>2
  <2>3. Nat \X (1..width) \subseteq Nat \X Nat OBVIOUS
  <2>4. corner \subseteq places /\ labelled \subseteq places
    <3> HIDE DEF places
    <3> QED OBVIOUS
  <2>5. <<>> \notin Nat \X Nat OBVIOUS
  <2> HIDE DEF places, corner, labelled
  <2> QED BY <2>1, <2>2, <2>3, <2>4, <2>5
<1>4. corner # {} => topright \in corner
  <2> HIDE DEF corner
  <2>1. corner # {} => \E q \in corner : \A s \in corner : q[1] < s[1] \/ (q[1] = s[1] /\ q[2] >= s[2])
    BY <1>3, CornerPlace
  <2> QED BY <2>1
<1>5. labelled # {} => first \in labelled
  <2> HIDE DEF labelled
  <2>1. labelled # {} => \E q \in labelled : \A s \in labelled \ {q} :
                           q[1] < s[1] \/ (q[1] = s[1] /\ q[2] < s[2])
    BY <1>3, FirstPlace
  <2> QED BY <2>1
<1>6. \A q \in corner : q # <<>> /\ cells[q[1]][q[2]] = "number"
  <2>1. \A q \in corner : cells[q[1]][q[2]] = "number"
    <3> HIDE DEF places
    <3> QED OBVIOUS
  <2> QED BY <1>3, <2>1
<1>7. \A q \in labelled : q # <<>> /\ cells[q[1]][q[2]] \in {"number", "inside", "own"}
  <2>1. \A q \in labelled : cells[q[1]][q[2]] \in {"number", "inside", "own"}
    <3> HIDE DEF places
    <3> QED OBVIOUS
  <2> QED BY <1>3, <2>1
<1>8. ASSUME labelled = {}, NEW r \in DOMAIN cells, NEW c \in 2..width,
             cells[r][c] \in {"number", "inside"}, cells[r][c - 1] = "label"
      PROVE  FALSE
  <2>1. c \in 1..width /\ c > 1 OBVIOUS
  <2>2. <<r, c>> \in labelled BY <1>8, <2>1
  <2> QED BY <1>8, <2>2
<1> HIDE DEF p, corner, labelled, topright, first
<1>9. p = <<>> => corner = {} /\ labelled = {} BY <1>1, <1>4, <1>5, <1>6, <1>7
<1>10. p # <<>> => cells[p[1]][p[2]] \in {"number", "inside", "own"} BY <1>1, <1>4, <1>5, <1>6, <1>7
<1> QED BY <1>8, <1>9, <1>10 DEF NumberFound, p

\* For any sheet: the revision is read from a cell that holds one, and of the rows searched none
\* below the one it is read from has a label with a revision right after it.
THEOREM RevisionIsFound ==
  ASSUME NEW S, NEW cells \in Seq(Seq(S))
  PROVE  RevisionFound(cells)
<1> DEFINE p == FindRevision(cells)
           Beside(r, c) == {d \in (c + 1)..(c + 5) \cap DOMAIN cells[r] : cells[r][d] # ""}
           Value(r, c) == IF cells[r][c] = "own" THEN c
                          ELSE IF Beside(r, c) # {} /\ cells[r][Min(Beside(r, c))] = "token"
                          THEN Min(Beside(r, c)) ELSE None
           Tagged(r) == {c \in DOMAIN cells[r] : cells[r][c] \in {"label", "own"} /\ Value(r, c) # None}
           rows == {r \in DOMAIN cells : r >= Len(cells) - 20 /\ Tagged(r) # {}}
           last == Max(rows)
           at == Min(Tagged(last))
<1>1. p = IF rows = {} THEN <<>> ELSE <<last, Value(last, at)>> BY DEF FindRevision
<1>2. /\ Len(cells) \in Nat /\ DOMAIN cells = 1..Len(cells)
      /\ \A r \in DOMAIN cells : Len(cells[r]) \in Nat /\ DOMAIN cells[r] = 1..Len(cells[r])
  OBVIOUS
<1>3. rows # {} => last \in rows /\ \A r \in rows : r <= last
  <2>1. rows \in SUBSET Nat /\ \A r \in rows : r <= Len(cells)
    <3> HIDE DEF Tagged
    <3>1. rows \subseteq 1..Len(cells) BY <1>2
    <3> HIDE DEF rows
    <3> QED BY <1>2, <3>1
  <2> HIDE DEF rows
  <2> QED BY <1>2, <2>1, Chosen
<1>4. ASSUME NEW r \in DOMAIN cells, NEW c \in DOMAIN cells[r], Value(r, c) # None
      PROVE  cells[r][Value(r, c)] \in {"token", "own"}
  BY <1>4
<1>5. ASSUME rows # {} PROVE cells[last][Value(last, at)] \in {"token", "own"}
  <2>1. last \in DOMAIN cells /\ Tagged(last) # {} BY <1>3, <1>5
  <2> HIDE DEF last
  <2>2. Tagged(last) \in SUBSET Nat
    <3>1. Tagged(last) \subseteq DOMAIN cells[last]
      <4> HIDE DEF Value
      <4> QED OBVIOUS
    <3> HIDE DEF Tagged
    <3> QED BY <1>2, <2>1, <3>1
  <2>3. at \in Tagged(last)
    <3> HIDE DEF Tagged
    <3> QED BY <2>1, <2>2, Chosen
  <2>4. at \in DOMAIN cells[last] /\ Value(last, at) # None BY <2>3
  <2> HIDE DEF at, Value
  <2> QED BY <1>4, <2>1, <2>4, Zenon
<1>6. ASSUME NEW r \in DOMAIN cells, r >= Len(cells) - 20, NEW c \in 2..Len(cells[r]),
             cells[r][c] = "token", cells[r][c - 1] = "label"
      PROVE  r \in rows
  <2>1. c - 1 \in DOMAIN cells[r] /\ c \in DOMAIN cells[r] /\ c \in (c - 1 + 1)..(c - 1 + 5) BY <1>2
  <2>2. Beside(r, c - 1) \in SUBSET Nat /\ c \in Beside(r, c - 1) /\ \A d \in Beside(r, c - 1) : c <= d
    <3>1. Beside(r, c - 1) = {d \in c..(c + 4) \cap DOMAIN cells[r] : cells[r][d] # ""}
      <4>1. c - 1 + 1 = c /\ c - 1 + 5 = c + 4 OBVIOUS
      <4> QED BY <4>1
    <3>2. c \in Nat /\ c \in c..(c + 4) /\ \A d \in c..(c + 4) : d \in Nat /\ c <= d OBVIOUS
    <3>3. cells[r][c] # "" BY <1>6
    <3> HIDE DEF Beside
    <3>4. c \in Beside(r, c - 1) BY <2>1, <3>1, <3>2, <3>3
    <3>5. \A d \in Beside(r, c - 1) : d \in c..(c + 4) BY <3>1
    <3> QED BY <3>2, <3>4, <3>5
  <2>3. Min(Beside(r, c - 1)) = c
    <3> HIDE DEF Beside
    <3>1. Min(Beside(r, c - 1)) \in Beside(r, c - 1) /\ Min(Beside(r, c - 1)) <= c BY <2>2, Chosen
    <3> QED BY <2>2, <3>1
  <2>4. Value(r, c - 1) = c
    <3> HIDE DEF Beside
    <3> QED BY <1>6, <2>2, <2>3
  <2>5. c # None BY DEF None
  <2> HIDE DEF Value
  <2>6. c - 1 \in Tagged(r) BY <1>6, <2>1, <2>4, <2>5
  <2> QED BY <1>6, <2>6
<1> HIDE DEF p, Value
<1>7. p # <<>> => cells[p[1]][p[2]] \in {"token", "own"} BY <1>1, <1>5
<1>8. ASSUME NEW r \in rows PROVE p # <<>> /\ p[1] >= r
  <2>1. rows \subseteq Int
    <3> HIDE DEF Tagged
    <3> QED BY <1>2
  <2> HIDE DEF rows, last, at
  <2>2. rows # {} /\ r <= last /\ r \in Int /\ last \in Int BY <1>3, <1>8, <2>1
  <2> QED BY <1>1, <2>2
<1> HIDE DEF rows
<1>9. ASSUME NEW r \in DOMAIN cells, r >= Len(cells) - 20, NEW c \in 2..Len(cells[r]),
             cells[r][c] = "token", cells[r][c - 1] = "label"
      PROVE  p # <<>> /\ p[1] >= r
  <2>1. r \in rows BY <1>6, <1>9
  <2> QED BY <1>8, <2>1
<1>10. \A r \in DOMAIN cells :
         r >= Len(cells) - 20
         /\ (\E c \in 2..Len(cells[r]) : cells[r][c] = "token" /\ cells[r][c - 1] = "label")
         => p # <<>> /\ p[1] >= r
  BY <1>9
<1> QED BY <1>7, <1>10, Zenon DEF RevisionFound, p

-----------------------------------------------------------------------------
(* Conflicts between SAP and part numbers *)

\* Rows as the checker gets them: a part number is told by its text.
Comparable(rows) ==
  /\ IsFiniteSet(DOMAIN rows)
  /\ \A i \in DOMAIN rows : rows[i].part.text \in Nat
  /\ \A i, j \in DOMAIN rows : rows[i].part.text = rows[j].part.text => rows[i].part = rows[j].part

Ahead(keys, k) == {o \in keys : o.text < k.text}

\* Part numbers with the same number in the order of their texts are the same.
LEMMA NumberedApart ==
  ASSUME NEW keys, IsFiniteSet(keys), \A k \in keys : k.text \in Nat,
         \A k, l \in keys : k.text = l.text => k = l,
         NEW a \in keys, NEW b \in keys,
         Cardinality(Ahead(keys, a)) = Cardinality(Ahead(keys, b))
  PROVE  a = b
<1>1. ASSUME NEW k \in keys, NEW l \in keys, k.text < l.text
      PROVE  Cardinality(Ahead(keys, k)) # Cardinality(Ahead(keys, l))
  <2>1. IsFiniteSet(Ahead(keys, l)) BY FS_Subset DEF Ahead
  <2>2. Ahead(keys, k) \in SUBSET Ahead(keys, l) BY <1>1 DEF Ahead
  <2>3. k \in Ahead(keys, l) /\ k \notin Ahead(keys, k) BY <1>1 DEF Ahead
  <2> QED BY <2>1, <2>2, <2>3, FS_Subset
<1>2. ~(a.text < b.text) /\ ~(b.text < a.text) BY <1>1
<1> QED BY <1>2

\* The image of a finite set is finite.
LEMMA ImageFinite ==
  ASSUME NEW D, IsFiniteSet(D), NEW f, DOMAIN f = D
  PROVE  IsFiniteSet({f[i] : i \in D})
<1> DEFINE T == {f[i] : i \in D}
           g == [i \in D |-> f[i]]
<1>1. g \in [D -> T] /\ \A t \in T : \E i \in D : g[i] = t OBVIOUS
<1>2. g \in Surjection(D, T) BY <1>1 DEF Surjection
<1> HIDE DEF g, T
<1>3. IsFiniteSet(T) BY <1>2, FS_Surjection
<1> QED BY <1>3 DEF T

\* The part numbers of the rows are finitely many.
LEMMA RowsFinite ==
  ASSUME NEW rows, IsFiniteSet(DOMAIN rows)
  PROVE  /\ IsFiniteSet({rows[i].part : i \in DOMAIN rows})
         /\ IsFiniteSet({rows[i].part.num : i \in DOMAIN rows})
<1>1. IsFiniteSet({rows[i].part : i \in DOMAIN rows})
  <2> DEFINE f == [i \in DOMAIN rows |-> rows[i].part]
  <2>1. DOMAIN f = DOMAIN rows /\ {f[i] : i \in DOMAIN rows} = {rows[i].part : i \in DOMAIN rows}
    OBVIOUS
  <2> HIDE DEF f
  <2>2. IsFiniteSet({f[i] : i \in DOMAIN rows}) BY <2>1, ImageFinite
  <2> QED BY <2>1, <2>2
<1>2. IsFiniteSet({rows[i].part.num : i \in DOMAIN rows})
  <2> DEFINE f == [i \in DOMAIN rows |-> rows[i].part.num]
  <2>1. DOMAIN f = DOMAIN rows /\ {f[i] : i \in DOMAIN rows} = {rows[i].part.num : i \in DOMAIN rows}
    OBVIOUS
  <2> HIDE DEF f
  <2>2. IsFiniteSet({f[i] : i \in DOMAIN rows}) BY <2>1, ImageFinite
  <2> QED BY <2>1, <2>2
<1> QED BY <1>1, <1>2

\* For any list of rows: the duplicate checker names every conflict between SAP and part numbers.
THEOREM SapConflictsFound ==
  ASSUME NEW rows, Comparable(rows)
  PROVE  SapConflictsNamed(rows)
<1> DEFINE bad == Mismatched(rows)
           N(k) == 1 + Cardinality(Ahead(bad, k))
<1>0. SapRows(rows) \subseteq DOMAIN rows BY DEF SapRows, RowsOf
<1>1. /\ IsFiniteSet(bad) /\ \A k \in bad : k.text \in Nat
      /\ \A k, l \in bad : k.text = l.text => k = l
  <2> DEFINE all == {rows[i].part : i \in DOMAIN rows}
  <2>1. bad \in SUBSET all BY <1>0 DEF Mismatched
  <2>2. \A k \in all : k.text \in Nat /\ \A l \in all : k.text = l.text => k = l
    BY DEF Comparable
  <2>3. IsFiniteSet(all) BY RowsFinite DEF Comparable
  <2> HIDE DEF all, bad
  <2> QED BY <2>1, <2>2, <2>3, FS_Subset
<1>2. ASSUME NEW i \in DOMAIN rows
      PROVE  Labels(rows, i, "mismatch") =
               IF i \in SapRows(rows) /\ rows[i].part \in bad
               THEN {<<"mismatch", N(rows[i].part)>>} ELSE {}
  <2>1. DeduplicateRows(rows)[i] = SpareDuplicate(rows, i) \cup SapDuplicate(rows, i) \cup Mismatch(rows, i)
    BY DEF DeduplicateRows
  <2>2. \A l \in SpareDuplicate(rows, i) : l[1] = "spare" BY DEF SpareDuplicate
  <2>3. \A l \in SapDuplicate(rows, i) : l[1] = "duplicate" BY DEF SapDuplicate, Number
  <2>4. Mismatch(rows, i) = IF i \in SapRows(rows) /\ rows[i].part \in bad
                            THEN {<<"mismatch", N(rows[i].part)>>} ELSE {}
    BY DEF Mismatch, Number, Ahead
  <2> QED BY <2>1, <2>2, <2>3, <2>4 DEF Labels
<1> DEFINE Conflict(i, j) == rows[i].part = rows[j].part /\ rows[i].sap # rows[j].sap
           Shares(i, j)   == rows[i].sap = rows[j].sap /\ rows[i].part.num # rows[j].part.num
           Alike(i) == {k \in SapRows(rows) : rows[k].sap = rows[i].sap /\ rows[k].part = rows[i].part}
<1>3. ASSUME NEW i \in SapRows(rows)
      PROVE  rows[i].part \in bad <=> \E j \in SapRows(rows) : Conflict(i, j)
  BY DEF Mismatched
<1>4. ASSUME NEW i \in SapRows(rows)
      PROVE  Labels(rows, i, "mismatch") # {} <=> rows[i].part \in bad
  BY <1>0, <1>2
<1>5. ASSUME NEW i \in SapRows(rows), NEW j \in SapRows(rows), Conflict(i, j)
      PROVE  Labels(rows, i, "mismatch") = Labels(rows, j, "mismatch")
  BY <1>0, <1>2, <1>5
<1>6. ASSUME NEW i \in SapRows(rows), NEW j \in SapRows(rows), Labels(rows, i, "mismatch") # {},
             Labels(rows, i, "mismatch") = Labels(rows, j, "mismatch")
      PROVE  rows[i].part = rows[j].part
  <2>1. /\ rows[i].part \in bad /\ rows[j].part \in bad
        /\ N(rows[i].part) = N(rows[j].part)
    BY <1>0, <1>2, <1>6
  <2>2. \A k \in bad : Cardinality(Ahead(bad, k)) \in Nat
    BY <1>1, FS_Subset, FS_CardinalityType DEF Ahead
  <2>3. Cardinality(Ahead(bad, rows[i].part)) = Cardinality(Ahead(bad, rows[j].part))
    BY <2>1, <2>2
  <2> HIDE DEF bad
  <2> QED BY <1>1, <2>1, <2>3, NumberedApart
<1>7. ASSUME NEW i \in SapRows(rows)
      PROVE  Labels(rows, i, "duplicate") # {}
               <=> rows[i].sap \in Shared(rows) /\ rows[i].part \notin Dominant(rows, rows[i].sap)
  <2>1. DeduplicateRows(rows)[i] = SpareDuplicate(rows, i) \cup SapDuplicate(rows, i) \cup Mismatch(rows, i)
    BY <1>0 DEF DeduplicateRows
  <2>2. \A l \in SpareDuplicate(rows, i) : l[1] = "spare" BY DEF SpareDuplicate
  <2>3. \A l \in Mismatch(rows, i) : l[1] = "mismatch" BY DEF Mismatch, Number
  <2> DEFINE marked == rows[i].sap \in Shared(rows) /\ rows[i].part \notin Dominant(rows, rows[i].sap)
  <2>4. /\ marked => \E n : SapDuplicate(rows, i) = {<<"duplicate", n>>}
        /\ ~marked => SapDuplicate(rows, i) = {}
    BY DEF SapDuplicate, Number
  <2> HIDE DEF marked
  <2>5. Labels(rows, i, "duplicate") = {l \in SapDuplicate(rows, i) : l[1] = "duplicate"}
    BY <2>1, <2>2, <2>3 DEF Labels
  <2>6. CASE marked
    <3>1. PICK n : SapDuplicate(rows, i) = {<<"duplicate", n>>} BY <2>4, <2>6
    <3>2. <<"duplicate", n>> \in Labels(rows, i, "duplicate") BY <2>5, <3>1
    <3> QED BY <2>6, <3>2 DEF marked
  <2>7. CASE ~marked
    <3>1. Labels(rows, i, "duplicate") = {} BY <2>4, <2>5, <2>7
    <3> QED BY <2>7, <3>1 DEF marked
  <2> QED BY <2>6, <2>7
<1>8. ASSUME NEW i \in SapRows(rows), Labels(rows, i, "duplicate") # {}
      PROVE  \E j \in SapRows(rows) : Shares(i, j)
  <2> DEFINE Nums == {p.num : p \in PartsOf(rows, rows[i].sap)}
  <2>1. Cardinality(Nums) > 1 BY <1>7, <1>8 DEF Shared
  <2>2. rows[i].part.num \in Nums BY DEF PartsOf
  <2>3. Nums # {rows[i].part.num}
    <3>1. Cardinality({rows[i].part.num}) = 1 BY FS_Singleton
    <3>2. Cardinality(Nums) # 1 BY <2>1
    <3> HIDE DEF Nums
    <3> QED BY <3>1, <3>2
  <2>4. PICK p \in PartsOf(rows, rows[i].sap) : p.num # rows[i].part.num BY <2>2, <2>3
  <2> QED BY <2>4 DEF PartsOf
<1>9. ASSUME NEW i \in SapRows(rows), NEW j \in SapRows(rows), Shares(i, j),
             Labels(rows, i, "duplicate") = {}
      PROVE  Labels(rows, j, "duplicate") # {} /\ Cardinality(Alike(i)) > Cardinality(Alike(j))
  <2> DEFINE s == rows[i].sap
             Nums == {p.num : p \in PartsOf(rows, s)}
             Of(p) == {k \in SapRows(rows) : rows[k].sap = s /\ rows[k].part = p}
             top == {p \in PartsOf(rows, s) : \A q \in PartsOf(rows, s) : Cardinality(Of(q)) <= Cardinality(Of(p))}
  <2>1. rows[i].part \in PartsOf(rows, s) /\ rows[j].part \in PartsOf(rows, s)
    BY <1>9 DEF PartsOf
  <2>2. s \in Shared(rows)
    <3>1. IsFiniteSet(Nums)
      <4>1. Nums \in SUBSET {rows[k].part.num : k \in DOMAIN rows} BY <1>0 DEF PartsOf
      <4> QED BY <4>1, RowsFinite, FS_Subset DEF Comparable
    <3>2. rows[i].part.num \in Nums /\ rows[j].part.num \in Nums BY <2>1
    <3>3. Cardinality(Nums) \in Nat /\ Cardinality(Nums) # 0 /\ Cardinality(Nums) # 1
      <4> HIDE DEF Nums
      <4>1. Nums # {} /\ ~ \E n : Nums = {n} BY <1>9, <3>2
      <4> QED BY <3>1, <4>1, FS_CardinalityType, FS_EmptySet, FS_Singleton
    <3>4. s \in {rows[k].sap : k \in SapRows(rows)} /\ Cardinality(Nums) > 1 BY <3>3
    <3> QED BY <3>4 DEF Shared
  <2>3. Dominant(rows, s) = IF Cardinality(top) = 1 THEN top ELSE {} BY DEF Dominant
  <2>4. IsFiniteSet(top)
    <3> DEFINE all == {rows[k].part : k \in DOMAIN rows}
    <3>1. top \in SUBSET all BY <1>0 DEF PartsOf
    <3>2. IsFiniteSet(all) BY RowsFinite DEF Comparable
    <3> HIDE DEF all, top
    <3> QED BY <3>1, <3>2, FS_Subset
  <2>5. rows[i].part \in Dominant(rows, s) BY <1>7, <1>9, <2>2
  <2>6. top = {rows[i].part}
    <3> HIDE DEF top
    <3> QED BY <2>3, <2>4, <2>5, FS_Singleton
  <2>7. rows[j].part # rows[i].part /\ rows[j].sap = s BY <1>9
  <2>8. Labels(rows, j, "duplicate") # {}
    <3> HIDE DEF top
    <3> QED BY <1>7, <2>2, <2>3, <2>6, <2>7
  <2>9. \A p : Cardinality(Of(p)) \in Nat
    <3>1. \A p : Of(p) \in SUBSET DOMAIN rows BY <1>0
    <3> HIDE DEF Of
    <3> QED BY <3>1, FS_Subset, FS_CardinalityType DEF Comparable
  <2>10. Alike(i) = Of(rows[i].part) /\ Alike(j) = Of(rows[j].part) BY <2>7
  <2>11. /\ \A q \in PartsOf(rows, s) : Cardinality(Of(q)) <= Cardinality(Of(rows[i].part))
         /\ \E q \in PartsOf(rows, s) : ~(Cardinality(Of(q)) <= Cardinality(Of(rows[j].part)))
    <3>1. rows[i].part \in top /\ rows[j].part \notin top
      <4> HIDE DEF top
      <4> QED BY <2>6, <2>7
    <3> HIDE DEF Of
    <3> QED BY <2>1, <3>1
  <2> HIDE DEF Of, top, Alike
  <2>12. Cardinality(Of(rows[i].part)) > Cardinality(Of(rows[j].part)) BY <2>9, <2>11
  <2> QED BY <2>8, <2>10, <2>12
<1> HIDE DEF bad, N
<1>10. ASSUME NEW i \in SapRows(rows)
       PROVE  Labels(rows, i, "mismatch") # {} <=> \E j \in SapRows(rows) : Conflict(i, j)
  BY <1>3, <1>4, Zenon
<1>11. ASSUME NEW i \in SapRows(rows), NEW j \in SapRows(rows)
       PROVE  /\ Conflict(i, j) => Labels(rows, i, "mismatch") = Labels(rows, j, "mismatch")
              /\ Labels(rows, i, "mismatch") # {} /\ Labels(rows, i, "mismatch") = Labels(rows, j, "mismatch")
                 => rows[i].part = rows[j].part
              /\ Shares(i, j) /\ Labels(rows, i, "duplicate") = {}
                 => Labels(rows, j, "duplicate") # {} /\ Cardinality(Alike(i)) > Cardinality(Alike(j))
  <2> HIDE DEF Conflict, Shares, Alike
  <2> QED BY <1>5, <1>6, <1>9, Zenon
<1>12. \A i \in SapRows(rows) :
         /\ Labels(rows, i, "mismatch") # {} <=> \E j \in SapRows(rows) : Conflict(i, j)
         /\ Labels(rows, i, "duplicate") # {} => \E j \in SapRows(rows) : Shares(i, j)
         /\ \A j \in SapRows(rows) :
              /\ Conflict(i, j) => Labels(rows, i, "mismatch") = Labels(rows, j, "mismatch")
              /\ Labels(rows, i, "mismatch") # {} /\ Labels(rows, i, "mismatch") = Labels(rows, j, "mismatch")
                 => rows[i].part = rows[j].part
              /\ Shares(i, j) /\ Labels(rows, i, "duplicate") = {}
                 => Labels(rows, j, "duplicate") # {} /\ Cardinality(Alike(i)) > Cardinality(Alike(j))
  <2> HIDE DEF Conflict, Shares, Alike
  <2> QED BY <1>8, <1>10, <1>11, Zenon
<1> QED BY <1>12, Zenon DEF SapConflictsNamed

-----------------------------------------------------------------------------
(* Spares that repeat *)

\* The rows that are spares, and the parts that repeat under several identities.
Spares(rows) == RowsOf(rows, HasIdentity)
Repeated(rows) == {k \in {Key(rows[i]) : i \in Spares(rows)} : Cardinality(IdentitiesOf(rows, k)) > 1}

\* One label for one group: groups with a reference in common would be one.
LEMMA LabelsTellApart ==
  ASSUME NEW rows,
         \A i, j \in Spares(rows) : Ref(rows, Identity(rows[i])) = Ref(rows, Identity(rows[j]))
                                    => Key(rows[i]) = Key(rows[j]),
         NEW k \in Repeated(rows), NEW l \in Repeated(rows),
         RefList(rows, IdentitiesOf(rows, k)) = RefList(rows, IdentitiesOf(rows, l))
  PROVE  k = l
<1> DEFINE Refs(ids) == {Ref(rows, id) : id \in ids}
<1>1. Refs(IdentitiesOf(rows, k)) = Refs(IdentitiesOf(rows, l))
  <2>1. \A ids : DOMAIN RefList(rows, ids) = Refs(ids) BY DEF RefList
  <2> HIDE DEF Refs
  <2> QED BY <2>1
<1>2. \A x : IdentitiesOf(rows, x) = {Identity(rows[i]) : i \in {i \in Spares(rows) : Key(rows[i]) = x}}
  BY DEF IdentitiesOf, Spares, RowsOf
<1>3. PICK i \in Spares(rows) : Key(rows[i]) = k BY DEF Repeated
<1>4. Identity(rows[i]) \in IdentitiesOf(rows, k) BY <1>2, <1>3
<1>5. Ref(rows, Identity(rows[i])) \in Refs(IdentitiesOf(rows, l)) BY <1>1, <1>4
<1>6. PICK id \in IdentitiesOf(rows, l) : Ref(rows, id) = Ref(rows, Identity(rows[i])) BY <1>5
<1>7. PICK j \in Spares(rows) : Key(rows[j]) = l /\ id = Identity(rows[j]) BY <1>2
<1> QED BY <1>3, <1>6, <1>7

\* The identities of a spare are finitely many, and several when it comes again as another.
LEMMA ComesAgain ==
  ASSUME NEW rows, IsFiniteSet(DOMAIN rows), NEW i \in Spares(rows)
  PROVE  Cardinality(IdentitiesOf(rows, Key(rows[i]))) > 1
           <=> \E j \in Spares(rows) : Key(rows[j]) = Key(rows[i]) /\ Identity(rows[j]) # Identity(rows[i])
<1> DEFINE ids == IdentitiesOf(rows, Key(rows[i]))
<1>1. ids = {Identity(rows[j]) : j \in {j \in Spares(rows) : Key(rows[j]) = Key(rows[i])}}
  BY DEF IdentitiesOf, Spares, RowsOf
<1>2. IsFiniteSet(ids)
  <2> DEFINE f == [j \in DOMAIN rows |-> Identity(rows[j])]
             all == {f[j] : j \in DOMAIN rows}
  <2>1. DOMAIN f = DOMAIN rows OBVIOUS
  <2>2. IsFiniteSet(all)
    <3> HIDE DEF f
    <3> QED BY <2>1, ImageFinite
  <2>3. ids \in SUBSET all BY <1>1 DEF Spares, RowsOf
  <2> HIDE DEF all, ids
  <2> QED BY <2>2, <2>3, FS_Subset
<1>3. Identity(rows[i]) \in ids BY <1>1
<1>4. Cardinality(ids) > 1 <=> ids # {Identity(rows[i])}
  <2> HIDE DEF ids
  <2>1. Cardinality(ids) \in Nat /\ Cardinality(ids) # 0 BY <1>2, <1>3, FS_CardinalityType, FS_EmptySet
  <2>2. Cardinality(ids) = 1 <=> ids = {Identity(rows[i])} BY <1>2, <1>3, FS_Singleton
  <2> QED BY <2>1, <2>2
<1>5. ids # {Identity(rows[i])} <=> \E id \in ids : id # Identity(rows[i])
  <2> HIDE DEF ids
  <2> QED BY <1>3
<1> HIDE DEF ids
<1> QED BY <1>1, <1>4, <1>5 DEF ids

\* For any list of rows: spares that repeat are marked alike, and name each other.
THEOREM SpareGroupsAreNamed ==
  ASSUME NEW rows, IsFiniteSet(DOMAIN rows)
  PROVE  SpareGroupsNamed(rows)
<1> DEFINE Ids(i) == IdentitiesOf(rows, Key(rows[i]))
           Again(i) == {j \in RowsOf(rows, HasIdentity) :
                          HasIdentity(rows[i]) /\ Key(rows[j]) = Key(rows[i]) /\ Identity(rows[j]) # Identity(rows[i])}
<1>1. ASSUME NEW i \in DOMAIN rows
      PROVE  Labels(rows, i, "spare") = IF HasIdentity(rows[i]) /\ Cardinality(Ids(i)) > 1
                                        THEN {<<"spare", RefList(rows, Ids(i))>>} ELSE {}
  <2>1. DeduplicateRows(rows)[i] = SpareDuplicate(rows, i) \cup SapDuplicate(rows, i) \cup Mismatch(rows, i)
    BY DEF DeduplicateRows
  <2>2. \A l \in SapDuplicate(rows, i) : l[1] = "duplicate" BY DEF SapDuplicate, Number
  <2>3. \A l \in Mismatch(rows, i) : l[1] = "mismatch" BY DEF Mismatch, Number
  <2>4. SpareDuplicate(rows, i) = IF HasIdentity(rows[i]) /\ Cardinality(Ids(i)) > 1
                                  THEN {<<"spare", RefList(rows, Ids(i))>>} ELSE {}
    BY DEF SpareDuplicate
  <2> HIDE DEF Ids
  <2> QED BY <2>1, <2>2, <2>3, <2>4 DEF Labels
<1>2. \A i : i \in Spares(rows) <=> i \in DOMAIN rows /\ HasIdentity(rows[i]) BY DEF Spares, RowsOf
<1>3. ASSUME NEW i \in DOMAIN rows, Again(i) = {} PROVE Labels(rows, i, "spare") = {}
  <2>1. CASE i \in Spares(rows)
    <3>1. ~ \E j \in Spares(rows) : Key(rows[j]) = Key(rows[i]) /\ Identity(rows[j]) # Identity(rows[i])
      BY <1>2, <1>3, <2>1 DEF Spares
    <3>2. ~(Cardinality(Ids(i)) > 1) BY <2>1, <3>1, ComesAgain
    <3> HIDE DEF Ids
    <3> QED BY <1>1, <3>2
  <2>2. CASE i \notin Spares(rows) BY <1>1, <1>2, <2>2
  <2> QED BY <2>1, <2>2
<1>4. ASSUME NEW i \in DOMAIN rows, NEW j \in Again(i)
      PROVE  /\ Labels(rows, i, "spare") = Labels(rows, j, "spare")
             /\ \E l \in Labels(rows, i, "spare") : Ref(rows, Identity(rows[j])) \in DOMAIN l[2]
  <2>1. i \in Spares(rows) /\ j \in Spares(rows) /\ Key(rows[j]) = Key(rows[i]) /\ Identity(rows[j]) # Identity(rows[i])
    BY <1>2, <1>4 DEF Spares
  <2>2. Ids(j) = Ids(i) BY <2>1
  <2>3. Cardinality(Ids(i)) > 1 BY <2>1, ComesAgain
  <2>4. j \in DOMAIN rows /\ HasIdentity(rows[i]) /\ HasIdentity(rows[j]) BY <1>2, <2>1
  <2>5. Identity(rows[j]) \in Ids(i) BY <2>1 DEF IdentitiesOf, Spares, RowsOf
  <2>6. Ref(rows, Identity(rows[j])) \in DOMAIN RefList(rows, Ids(i)) BY <2>5 DEF RefList
  <2> HIDE DEF Ids
  <2>7. Labels(rows, i, "spare") = {<<"spare", RefList(rows, Ids(i))>>} BY <1>1, <2>3, <2>4
  <2>8. Labels(rows, j, "spare") = {<<"spare", RefList(rows, Ids(i))>>} BY <1>1, <2>2, <2>3, <2>4
  <2> DEFINE list == RefList(rows, Ids(i))
             l == <<"spare", list>>
  <2>9. l[2] = list OBVIOUS
  <2>10. Ref(rows, Identity(rows[j])) \in DOMAIN l[2]
    <3> HIDE DEF l
    <3> QED BY <2>6, <2>9
  <2>11. l \in Labels(rows, i, "spare") BY <2>7
  <2> HIDE DEF l
  <2> QED BY <2>7, <2>8, <2>10, <2>11
<1> QED BY <1>3, <1>4 DEF SpareGroupsNamed

\* The labels of spares that repeat are those of the groups.
LEMMA SpareLabels ==
  ASSUME NEW rows
  PROVE  {l \in UNION {DeduplicateRows(rows)[i] : i \in DOMAIN rows} : l[1] = "spare"}
           = {<<"spare", RefList(rows, IdentitiesOf(rows, k))>> : k \in Repeated(rows)}
<1> DEFINE Label(k) == <<"spare", RefList(rows, IdentitiesOf(rows, k))>>
           shown == {l \in UNION {DeduplicateRows(rows)[i] : i \in DOMAIN rows} : l[1] = "spare"}
           labels == {Label(k) : k \in Repeated(rows)}
<1>1. ASSUME NEW i \in DOMAIN rows
      PROVE  /\ DeduplicateRows(rows)[i] = SpareDuplicate(rows, i) \cup SapDuplicate(rows, i) \cup Mismatch(rows, i)
             /\ \A l \in SapDuplicate(rows, i) : l[1] = "duplicate"
             /\ \A l \in Mismatch(rows, i) : l[1] = "mismatch"
             /\ SpareDuplicate(rows, i) = IF HasIdentity(rows[i]) /\ Cardinality(IdentitiesOf(rows, Key(rows[i]))) > 1
                                          THEN {Label(Key(rows[i]))} ELSE {}
             /\ \A l \in SpareDuplicate(rows, i) : l[1] = "spare"
  <2>1. DeduplicateRows(rows)[i] = SpareDuplicate(rows, i) \cup SapDuplicate(rows, i) \cup Mismatch(rows, i)
    BY DEF DeduplicateRows
  <2>2. \A l \in SapDuplicate(rows, i) : l[1] = "duplicate" BY DEF SapDuplicate, Number
  <2>3. \A l \in Mismatch(rows, i) : l[1] = "mismatch" BY DEF Mismatch, Number
  <2>4. SpareDuplicate(rows, i) = IF HasIdentity(rows[i]) /\ Cardinality(IdentitiesOf(rows, Key(rows[i]))) > 1
                                  THEN {Label(Key(rows[i]))} ELSE {}
    BY DEF SpareDuplicate
  <2>5. \A k : Label(k)[1] = "spare" OBVIOUS
  <2> HIDE DEF Label
  <2>6. \A l \in SpareDuplicate(rows, i) : l[1] = "spare" BY <2>4, <2>5
  <2> QED BY <2>1, <2>2, <2>3, <2>4, <2>6
<1> HIDE DEF Label
<1>2. ASSUME NEW l \in shown PROVE l \in labels
  <2>1. PICK i \in DOMAIN rows : l \in DeduplicateRows(rows)[i] OBVIOUS
  <2>2. l \in SpareDuplicate(rows, i) BY <1>1, <2>1
  <2>3. HasIdentity(rows[i]) /\ Cardinality(IdentitiesOf(rows, Key(rows[i]))) > 1 /\ l = Label(Key(rows[i]))
    BY <1>1, <2>2
  <2>4. Key(rows[i]) \in Repeated(rows) BY <2>3 DEF Repeated, Spares, RowsOf
  <2> QED BY <2>3, <2>4
<1>3. ASSUME NEW k \in Repeated(rows) PROVE Label(k) \in shown
  <2>1. PICK i \in DOMAIN rows : HasIdentity(rows[i]) /\ Key(rows[i]) = k /\ Cardinality(IdentitiesOf(rows, k)) > 1
    BY DEF Repeated, Spares, RowsOf
  <2>2. SpareDuplicate(rows, i) = {Label(k)} BY <1>1, <2>1
  <2> QED BY <1>1, <2>1, <2>2
<1>4. shown = labels BY <1>2, <1>3
<1> QED BY <1>4 DEF Label

\* For any list of rows: the number of repeated spares that the user is shown is theirs.
THEOREM SpareGroupsAreCounted ==
  ASSUME NEW rows, IsFiniteSet(DOMAIN rows)
  PROVE  SpareGroupsCounted(rows)
<1> DEFINE Label(k) == <<"spare", RefList(rows, IdentitiesOf(rows, k))>>
           groups == Repeated(rows)
           labels == {Label(k) : k \in groups}
<1> SUFFICES ASSUME \A i, j \in Spares(rows) : Ref(rows, Identity(rows[i])) = Ref(rows, Identity(rows[j]))
                                               => Key(rows[i]) = Key(rows[j])
             PROVE  Cardinality(labels) = Cardinality(groups)
  <2>1. Dup1Count(rows) = Cardinality(labels) BY SpareLabels DEF Dup1Count
  <2> QED BY <2>1 DEF SpareGroupsCounted, Repeated, Spares
<1>1. IsFiniteSet(groups)
  <2> DEFINE f == [i \in DOMAIN rows |-> Key(rows[i])]
             all == {f[i] : i \in DOMAIN rows}
  <2>1. DOMAIN f = DOMAIN rows OBVIOUS
  <2>2. IsFiniteSet(all)
    <3> HIDE DEF f
    <3> QED BY <2>1, ImageFinite
  <2>3. groups \in SUBSET all BY DEF Repeated, Spares, RowsOf
  <2> HIDE DEF all, groups
  <2> QED BY <2>2, <2>3, FS_Subset
<1> DEFINE g == [k \in groups |-> Label(k)]
<1>2. \A k, l \in groups : Label(k) = Label(l) => k = l
  <2>1. \A k, l : Label(k) = Label(l)
                  => RefList(rows, IdentitiesOf(rows, k)) = RefList(rows, IdentitiesOf(rows, l))
    OBVIOUS
  <2> HIDE DEF Label
  <2> QED BY <2>1, LabelsTellApart
<1> HIDE DEF Label, groups
<1>3. g \in Bijection(groups, labels) BY <1>2 DEF Bijection, Injection, Surjection, IsInjective
<1>4. ExistsBijection(groups, labels) BY <1>3 DEF ExistsBijection
<1> QED BY <1>1, <1>4, FS_Bijection

=============================================================================
