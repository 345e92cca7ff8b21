--------------------------- MODULE MCEngineProofs ---------------------------
(***************************************************************************)
(* What the runs of MCEngine check of the analysis of a workbook, of the   *)
(* head of a sheet, of rows read one by one, of duplicates and of the      *)
(* parts of an upload is proved here of their specification. The lemmas it *)
(* rests on, here and in EngineProofs, hold for inputs of any size.        *)
(***************************************************************************)
EXTENDS MCEngine, EngineProofs

-----------------------------------------------------------------------------
(* Loops that build a result from the inputs before *)

\* The results of a loop of N rounds.
Iterates(g, S, base, N, step) ==
  g \in [0..N -> S] /\ g[0] = base /\ \A n \in 1..N : g[n] = step[<<n, g[n - 1]>>]

\* A loop has a result after each of its rounds.
LEMMA Iterated ==
  ASSUME NEW S, NEW base \in S, NEW N \in Nat, NEW step \in [(1..N) \X S -> S]
  PROVE  \E g : Iterates(g, S, base, N, step)
<1> DEFINE Good(k, g) == g \in [0..k -> S] /\ g[0] = base /\ \A n \in 1..k : g[n] = step[<<n, g[n - 1]>>]
           bad == {k \in 0..N : ~ \E g : Good(k, g)}
<1> SUFFICES ASSUME bad # {} PROVE FALSE BY DEF Iterates
<1>1. PICK m \in bad : \A k \in bad : m <= k
  <2>1. bad \in SUBSET Nat OBVIOUS
  <2> HIDE DEF bad
  <2> QED BY <2>1, Least
<1>2. m # 0
  <2> DEFINE g == [k \in 0..0 |-> base]
  <2>1. Good(0, g) OBVIOUS
  <2> QED BY <2>1
<1>3. m \in 1..N /\ m - 1 \in 0..N /\ ~(m <= m - 1) BY <1>2
<1>4. PICK e : Good(m - 1, e)
  <2>1. m - 1 \notin bad
    <3> HIDE DEF bad
    <3> QED BY <1>1, <1>3
  <2> QED BY <1>3, <2>1
<1> DEFINE g == [k \in 0..m |-> IF k = m THEN step[<<m, e[m - 1]>>] ELSE e[k]]
<1>5. e[m - 1] \in S /\ step[<<m, e[m - 1]>>] \in S
  <2>1. e[m - 1] \in S BY <1>3, <1>4
  <2>2. <<m, e[m - 1]>> \in (1..N) \X S BY <1>3, <2>1
  <2> QED BY <2>1, <2>2
<1>6. g \in [0..m -> S] /\ g[0] = base
  <2>1. \A k \in 0..m : k # m => k \in 0..(m - 1) BY <1>3
  <2>2. \A k \in 0..(m - 1) : e[k] \in S BY <1>4
  <2>3. g \in [0..m -> S] BY <2>1, <2>2, <1>5
  <2>4. 0 \in 0..m /\ 0 # m BY <1>3
  <2> QED BY <2>3, <2>4, <1>4
<1>7. ASSUME NEW n \in 1..m PROVE g[n] = step[<<n, g[n - 1]>>]
  <2>1. n \in 0..m /\ n - 1 \in 0..m /\ n - 1 # m BY <1>3
  <2>2. g[n - 1] = e[n - 1] BY <2>1
  <2>3. CASE n = m BY <2>1, <2>2, <2>3
  <2>4. CASE n # m
    <3>1. n \in 1..(m - 1) BY <1>3, <2>4
    <3>2. e[n] = step[<<n, e[n - 1]>>] BY <1>4, <3>1
    <3>3. g[n] = e[n] BY <2>1, <2>4
    <3> HIDE DEF g
    <3> QED BY <2>2, <3>2, <3>3
  <2> QED BY <2>3, <2>4
<1>8. Good(m, g)
  <2> HIDE DEF g
  <2> QED BY <1>6, <1>7
<1> QED BY <1>8

-----------------------------------------------------------------------------
(* Sequences of sequences, put together *)

\* The results of the loop that puts them together.
Joins(f, ss, S) ==
  /\ f \in [0..Len(ss) -> Seq(S)] /\ f[0] = <<>>
  /\ \A n \in 1..Len(ss) : f[n] = f[n - 1] \o ss[n]

LEMMA JoinsExist ==
  ASSUME NEW S, NEW ss \in Seq(Seq(S))
  PROVE  \E f : Joins(f, ss, S)
<1> DEFINE N == Len(ss)
           T == Seq(S)
           step == [p \in (1..N) \X T |-> p[2] \o ss[p[1]]]
<1>1. N \in Nat /\ <<>> \in T /\ \A n \in 1..N : ss[n] \in T OBVIOUS
<1>2. \A s, t \in T : s \o t \in T OBVIOUS
<1> HIDE DEF T, N
<1>3. ASSUME NEW p \in (1..N) \X T PROVE p[2] \o ss[p[1]] \in T
  <2>1. p[1] \in 1..N /\ p[2] \in T OBVIOUS
  <2> QED BY <2>1, <1>1, <1>2
<1>4. step \in [(1..N) \X T -> T] BY <1>3
<1>5. \A n \in 1..N, s \in T : step[<<n, s>>] = s \o ss[n] OBVIOUS
<1> HIDE DEF step
<1>6. PICK f : Iterates(f, T, <<>>, N, step) BY <1>1, <1>4, Iterated
<1>7. f \in [0..N -> T] /\ f[0] = <<>> BY <1>6 DEF Iterates
<1>8. ASSUME NEW n \in 1..N PROVE f[n] = f[n - 1] \o ss[n]
  <2>1. n - 1 \in 0..N BY <1>1
  <2>2. f[n - 1] \in T BY <1>7, <2>1
  <2>3. f[n] = step[<<n, f[n - 1]>>] BY <1>6 DEF Iterates
  <2> QED BY <2>2, <2>3, <1>5
<1> QED BY <1>7, <1>8, Zenon DEF Joins, T, N

\* Sequences that begin alike.
Alike(a, b, n) == \A m \in 1..n : a[m] = b[m]

\* Loops over them go alike.
MeetAt(f, g, n) == f[n] = g[n]

LEMMA JoinsAgree ==
  ASSUME NEW S, NEW a \in Seq(Seq(S)), NEW b \in Seq(Seq(S)), NEW f, NEW g, Joins(f, a, S), Joins(g, b, S),
         NEW m \in Nat, m <= Len(a), m <= Len(b), Alike(a, b, m)
  PROVE  MeetAt(f, g, m)
<1> DEFINE bad == {n \in 0..m : f[n] # g[n]}
<1> SUFFICES ASSUME bad # {} PROVE FALSE BY DEF MeetAt
<1>1. bad \in SUBSET Nat OBVIOUS
<1>2. PICK n \in bad : \A k \in bad : n <= k
  <2> HIDE DEF bad
  <2> QED BY <1>1, Least
<1>3. n # 0 BY DEF Joins
<1>4. n \in 1..m /\ n - 1 \in 0..m /\ ~(n <= n - 1) BY <1>3
<1>5. n - 1 \notin bad
  <2> HIDE DEF bad
  <2> QED BY <1>2, <1>4
<1>6. f[n - 1] = g[n - 1] BY <1>4, <1>5
<1>7. Len(a) \in Nat /\ Len(b) \in Nat /\ n \in 1..Len(a) /\ n \in 1..Len(b) BY <1>4
<1>8. f[n] = f[n - 1] \o a[n] /\ g[n] = g[n - 1] \o b[n] BY <1>7 DEF Joins
<1>9. a[n] = b[n] BY <1>4, Zenon DEF Alike
<1> QED BY <1>4, <1>6, <1>8, <1>9

\* FlattenSeq is the last result of the loop.
LEMMA Flattened ==
  ASSUME NEW S, NEW ss \in Seq(Seq(S)), NEW f, Joins(f, ss, S)
  PROVE  FlattenSeq(ss) = f[Len(ss)] /\ FlattenSeq(ss) \in Seq(S)
<1> DEFINE N == Len(ss)
           Loop(h) == h = [i \in 1..N |-> IF i = 1 THEN ss[i] ELSE h[i - 1] \o ss[i]]
           h == CHOOSE h : Loop(h)
<1>1. N \in Nat /\ f[N] \in Seq(S) BY DEF Joins
<1>2. CASE N = 0
  <2>1. ss = <<>> BY <1>2
  <2>2. FlattenSeq(ss) = ss BY <1>2 DEF FlattenSeq
  <2>3. f[N] = <<>> BY <1>2 DEF Joins
  <2> QED BY <1>1, <2>1, <2>2, <2>3
<1>3. CASE N # 0
  <2>1. FlattenSeq(ss) = h[N] BY <1>3, Zenon DEF FlattenSeq
  <2>2. \E e : Loop(e)
    <3> DEFINE e == [i \in 1..N |-> f[i]]
    <3>1. ASSUME NEW i \in 1..N PROVE e[i] = IF i = 1 THEN ss[i] ELSE e[i - 1] \o ss[i]
      <4>1. f[i] = f[i - 1] \o ss[i] BY DEF Joins
      <4>2. CASE i = 1
        <5>1. f[0] = <<>> /\ ss[1] \in Seq(S) BY <4>2 DEF Joins
        <5>2. <<>> \o ss[1] = ss[1] BY <5>1
        <5>5. 1 - 1 = 0 OBVIOUS
        <5>3. f[1] = f[0] \o ss[1] BY <4>1, <4>2, <5>5, Zenon
        <5>4. e[1] = f[1] BY <4>2
        <5> QED BY <4>2, <5>1, <5>2, <5>3, <5>4
      <4>3. CASE i # 1
        <5>1. i - 1 \in 1..N BY <4>3
        <5> QED BY <4>1, <4>3, <5>1
      <4> QED BY <4>2, <4>3
    <3>2. e = [i \in 1..N |-> IF i = 1 THEN ss[i] ELSE e[i - 1] \o ss[i]] BY <3>1
    <3> HIDE DEF e
    <3> QED BY <3>2, Zenon
  <2>3. Loop(h) BY <2>2, Zenon
  <2> HIDE DEF h
  <2> DEFINE bad == {n \in 1..N : h[n] # f[n]}
  <2>4. bad = {}
    <3> SUFFICES ASSUME bad # {} PROVE FALSE OBVIOUS
    <3>1. bad \in SUBSET Nat OBVIOUS
    <3>2. PICK n \in bad : \A k \in bad : n <= k
      <4> HIDE DEF bad
      <4> QED BY <3>1, Least
    <3>3. n \in 1..N /\ h[n] # f[n] OBVIOUS
    <3>4. h[n] = IF n = 1 THEN ss[n] ELSE h[n - 1] \o ss[n] BY <2>3, <3>3
    <3>5. f[n] = f[n - 1] \o ss[n] BY <3>3 DEF Joins
    <3>6. CASE n = 1
      <4>1. f[0] = <<>> /\ ss[1] \in Seq(S) BY <3>3, <3>6 DEF Joins
      <4>2. <<>> \o ss[1] = ss[1] BY <4>1
      <4>4. 1 - 1 = 0 OBVIOUS
      <4>3. f[1] = f[0] \o ss[1] BY <3>5, <3>6, <4>4, Zenon
      <4> QED BY <3>3, <3>4, <3>6, <4>1, <4>2, <4>3
    <3>7. CASE n # 1
      <4>1. n - 1 \in 1..N /\ ~(n <= n - 1) BY <3>3, <3>7
      <4>2. n - 1 \notin bad
        <5> HIDE DEF bad
        <5> QED BY <3>2, <4>1
      <4>3. h[n - 1] = f[n - 1] BY <4>1, <4>2
      <4> QED BY <3>3, <3>4, <3>5, <3>7, <4>3
    <3> QED BY <3>6, <3>7
  <2>5. N \in 1..N BY <1>1, <1>3
  <2>6. h[N] = f[N] BY <2>4, <2>5
  <2> QED BY <1>1, <2>1, <2>6
<1> QED BY <1>2, <1>3

\* What is put together in two halves is put together as one.
LEMMA FlattenHalves ==
  ASSUME NEW S, NEW a \in Seq(Seq(S)), NEW b \in Seq(Seq(S))
  PROVE  /\ FlattenSeq(a) \in Seq(S) /\ FlattenSeq(b) \in Seq(S)
         /\ FlattenSeq(a \o b) = FlattenSeq(a) \o FlattenSeq(b)
<1> DEFINE c == a \o b
           m == Len(a)
           k == Len(b)
<1>1. /\ c \in Seq(Seq(S)) /\ Len(c) = m + k /\ m \in Nat /\ k \in Nat
      /\ \A n \in 1..m : c[n] = a[n]
      /\ \A n \in 1..k : c[m + n] = b[n] /\ b[n] \in Seq(S)
  OBVIOUS
<1> HIDE DEF c, m, k
<1>2. PICK f : Joins(f, a, S) BY JoinsExist
<1>3. PICK g : Joins(g, b, S) BY JoinsExist
<1>4. PICK h : Joins(h, c, S) BY <1>1, JoinsExist
<1>5. /\ FlattenSeq(a) = f[m] /\ FlattenSeq(a) \in Seq(S)
      /\ FlattenSeq(b) = g[k] /\ FlattenSeq(b) \in Seq(S)
      /\ FlattenSeq(c) = h[m + k]
  BY <1>1, <1>2, <1>3, <1>4, Flattened DEF m, k
<1>6. h[m] = f[m]
  <2>1. m <= Len(a) /\ m <= Len(c) /\ m \in Nat BY <1>1 DEF m
  <2>2. c \in Seq(Seq(S)) /\ Alike(c, a, m) BY <1>1, Zenon DEF Alike
  <2>3. a \in Seq(Seq(S)) /\ Joins(f, a, S) /\ Joins(h, c, S) BY <1>2, <1>4
  <2> HIDE DEF c, m
  <2>4. MeetAt(h, f, m) BY <2>1, <2>2, <2>3, JoinsAgree, Zenon
  <2> QED BY <2>4, Zenon DEF MeetAt
<1>7. g \in [0..k -> Seq(S)] /\ g[0] = <<>> /\ \A n \in 1..k : g[n] = g[n - 1] \o b[n] BY <1>3 DEF Joins, k
<1>8. \A n \in 1..k : h[m + n] = h[m + n - 1] \o b[n]
  <2> SUFFICES ASSUME NEW n \in 1..k PROVE h[m + n] = h[m + n - 1] \o b[n] OBVIOUS
  <2> DEFINE l == m + n
  <2>1. l \in 1..Len(c) BY <1>1
  <2>2. \A j \in 1..Len(c) : h[j] = h[j - 1] \o c[j] BY <1>4 DEF Joins
  <2> HIDE DEF l
  <2>3. h[l] = h[l - 1] \o c[l] BY <2>1, <2>2, Zenon
  <2>4. c[l] = b[n] /\ l - 1 = m + n - 1 BY <1>1 DEF l
  <2> QED BY <2>3, <2>4, Zenon DEF l
<1> DEFINE bad == {n \in 0..k : h[m + n] # f[m] \o g[n]}
<1>9. bad = {}
  <2> SUFFICES ASSUME bad # {} PROVE FALSE OBVIOUS
  <2>1. bad \in SUBSET Nat
    <3>1. \A n \in 0..k : n \in Nat BY <1>1
    <3> QED BY <3>1, Zenon
  <2>2. PICK n \in bad : \A j \in bad : n <= j
    <3> HIDE DEF bad
    <3> QED BY <2>1, Least
  <2>3. n \in 0..k /\ h[m + n] # f[m] \o g[n] OBVIOUS
  <2>4. n # 0
    <3> SUFFICES ASSUME n = 0 PROVE FALSE OBVIOUS
    <3>1. m + n = m BY <1>1
    <3>2. f[m] \o <<>> = f[m] BY <1>5
    <3> QED BY <1>6, <1>7, <2>3, <3>1, <3>2
  <2>5. n \in 1..k /\ n - 1 \in 0..k /\ ~(n <= n - 1) /\ m + (n - 1) = m + n - 1 BY <1>1, <2>3, <2>4
  <2>6. n - 1 \notin bad
    <3> HIDE DEF bad
    <3> QED BY <2>2, <2>5
  <2>7. h[m + n - 1] = f[m] \o g[n - 1] BY <2>5, <2>6
  <2>8. f[m] \in Seq(S) /\ g[n - 1] \in Seq(S) /\ b[n] \in Seq(S) BY <1>1, <1>5, <1>7, <2>5
  <2>9. (f[m] \o g[n - 1]) \o b[n] = f[m] \o (g[n - 1] \o b[n])
    <3>1. \A s, t, u \in Seq(S) : (s \o t) \o u = s \o (t \o u) BY ConcatAssociative
    <3> QED BY <2>8, <3>1, Zenon
  <2>10. h[m + n] = h[m + n - 1] \o b[n] /\ g[n] = g[n - 1] \o b[n] BY <1>7, <1>8, <2>5
  <2> QED BY <2>3, <2>7, <2>9, <2>10
<1>10. k \in 0..k BY <1>1
<1>11. h[m + k] = f[m] \o g[k] BY <1>9, <1>10
<1> QED BY <1>5, <1>11 DEF c

\* What is put together comes from the sequences.
LEMMA FlattenFrom ==
  ASSUME NEW S, NEW ss \in Seq(Seq(S)), NEW j \in DOMAIN FlattenSeq(ss)
  PROVE  \E n \in DOMAIN ss : \E i \in DOMAIN ss[n] : FlattenSeq(ss)[j] = ss[n][i]
<1> DEFINE N == Len(ss)
           From(s) == \A i \in DOMAIN s : \E n \in DOMAIN ss : \E l \in DOMAIN ss[n] : s[i] = ss[n][l]
<1>1. PICK f : Joins(f, ss, S) BY JoinsExist
<1>2. FlattenSeq(ss) = f[N] BY <1>1, Flattened
<1>3. N \in Nat /\ DOMAIN ss = 1..N /\ \A n \in 1..N : ss[n] \in Seq(S) OBVIOUS
<1>4. f \in [0..N -> Seq(S)] /\ f[0] = <<>> /\ \A n \in 1..N : f[n] = f[n - 1] \o ss[n] BY <1>1 DEF Joins
<1> HIDE DEF N
<1> DEFINE bad == {n \in 0..N : ~From(f[n])}
<1>5. bad = {}
  <2> SUFFICES ASSUME bad # {} PROVE FALSE OBVIOUS
  <2>1. bad \in SUBSET Nat BY <1>3
  <2>2. PICK n \in bad : \A k \in bad : n <= k
    <3> HIDE DEF bad
    <3> QED BY <2>1, Least
  <2>3. n \in 0..N /\ ~From(f[n]) OBVIOUS
  <2>4. n # 0
    <3>1. DOMAIN <<>> = {} OBVIOUS
    <3>2. From(<<>>) BY <3>1
    <3> QED BY <1>4, <2>3, <3>2
  <2>5. n \in 1..N /\ n - 1 \in 0..N /\ ~(n <= n - 1) BY <1>3, <2>3, <2>4
  <2>6. n - 1 \notin bad
    <3> HIDE DEF bad
    <3> QED BY <2>2, <2>5
  <2>7. From(f[n - 1]) BY <2>5, <2>6
  <2>8. f[n] = f[n - 1] \o ss[n] /\ f[n - 1] \in Seq(S) /\ ss[n] \in Seq(S) BY <1>3, <1>4, <2>5
  <2>9. ASSUME NEW i \in DOMAIN f[n] PROVE \E k \in DOMAIN ss : \E l \in DOMAIN ss[k] : f[n][i] = ss[k][l]
    <3> DEFINE p == f[n - 1]
               q == ss[n]
    <3>1. p \in Seq(S) /\ q \in Seq(S) /\ f[n] = p \o q BY <2>8
    <3> HIDE DEF p, q
    <3>2. /\ i \in 1..(Len(p) + Len(q)) /\ Len(p) \in Nat /\ Len(q) \in Nat
          /\ DOMAIN p = 1..Len(p) /\ DOMAIN q = 1..Len(q)
          /\ i <= Len(p) => f[n][i] = p[i]
          /\ i > Len(p) => f[n][i] = q[i - Len(p)]
      BY <3>1
    <3>3. CASE i <= Len(p)
      <4>1. i \in DOMAIN p /\ f[n][i] = p[i] BY <3>2, <3>3
      <4> QED BY <2>7, <4>1 DEF p
    <3>4. CASE i > Len(p)
      <4>1. i - Len(p) \in DOMAIN q /\ f[n][i] = q[i - Len(p)] BY <3>2, <3>4
      <4> QED BY <1>3, <2>5, <4>1 DEF q
    <3> QED BY <3>2, <3>3, <3>4
  <2> QED BY <2>3, <2>9
<1>6. N \in 0..N BY <1>3
<1>7. From(f[N]) BY <1>5, <1>6
<1> QED BY <1>2, <1>7

-----------------------------------------------------------------------------
(* Sheets read row by row *)

\* The greater of two numbers.
LEMMA GreaterOfTwo ==
  ASSUME NEW a \in Nat, NEW b \in Nat
  PROVE  Max({a, b}) = IF a <= b THEN b ELSE a
<1> DEFINE S == {a, b}
<1>1. S \in SUBSET Nat /\ S # {} /\ a \in S /\ b \in S OBVIOUS
<1>2. \A k \in S : k = a \/ k = b OBVIOUS
<1>3. \E m \in Nat : \A k \in S : k <= m
  <2>1. a + b \in Nat /\ \A k \in S : k <= a + b OBVIOUS
  <2> QED BY <2>1
<1> HIDE DEF S
<1>4. Max(S) \in S /\ a <= Max(S) /\ b <= Max(S) BY <1>1, <1>3, Chosen
<1>5. Max(S) = a \/ Max(S) = b BY <1>2, <1>4
<1>6. Max(S) = IF a <= b THEN b ELSE a BY <1>4, <1>5
<1> QED BY <1>6 DEF S

\* A sequence of sequences has its elements in some set.
LEMMA NestedSeq ==
  ASSUME NEW N \in Nat, NEW ss, ss = [n \in 1..N |-> ss[n]],
         \A n \in 1..N : \E m \in Nat : ss[n] = [i \in 1..m |-> ss[n][i]]
  PROVE  \E S : ss \in Seq(Seq(S))
<1> DEFINE S == UNION {{ss[n][i] : i \in DOMAIN ss[n]} : n \in 1..N}
<1>1. ASSUME NEW n \in 1..N PROVE ss[n] \in Seq(S)
  <2>1. PICK m \in Nat : ss[n] = [i \in 1..m |-> ss[n][i]] OBVIOUS
  <2>2. DOMAIN ss[n] = 1..m BY <2>1
  <2>3. \A i \in 1..m : ss[n][i] \in S BY <2>2
  <2> HIDE DEF S
  <2>4. ss[n] \in [1..m -> S] BY <2>1, <2>3
  <2> QED BY <2>4
<1> HIDE DEF S
<1>2. ss \in [1..N -> Seq(S)] BY <1>1
<1>3. ss \in Seq(Seq(S)) BY <1>2
<1> QED BY <1>3

\* What stands where when two sequences are joined.
JoinOf(out, p, q) ==
  /\ Len(out) = Len(p) + Len(q)
  /\ \A j \in 1..Len(p) : out[j] = p[j]
  /\ \A j \in 1..Len(q) : out[Len(p) + j] = q[j]

LEMMA JoinAt ==
  ASSUME NEW R, NEW p \in Seq(R), NEW q \in Seq(R)
  PROVE  p \o q \in Seq(R) /\ JoinOf(p \o q, p, q)
<1>1. p \o q \in Seq(R) OBVIOUS
<1>2. Len(p \o q) = Len(p) + Len(q) OBVIOUS
<1>3. \A j \in 1..Len(p) : (p \o q)[j] = p[j] OBVIOUS
<1>4. \A j \in 1..Len(q) : (p \o q)[Len(p) + j] = q[j] OBVIOUS
<1> QED BY <1>1, <1>2, <1>3, <1>4, Zenon DEF JoinOf

\* Where the middle one of three stands in the whole.
ThreeParts(out, p, c, q) ==
  /\ Len(out) = Len(p) + Len(c) + Len(q)
  /\ \A j \in 1..Len(p) : out[j] = p[j]
  /\ \A j \in 1..Len(c) : out[Len(p) + j] = c[j]
  /\ \A j \in 1..Len(q) : out[Len(p) + Len(c) + j] = q[j]

LEMMA MiddlePart ==
  ASSUME NEW R, NEW p \in Seq(R), NEW c \in Seq(R), NEW q \in Seq(R)
  PROVE  p \o (c \o q) \in Seq(R) /\ ThreeParts(p \o (c \o q), p, c, q)
<1> DEFINE t == c \o q
<1>1. /\ t \in Seq(R) /\ Len(t) = Len(c) + Len(q) /\ Len(c) \in Nat /\ Len(q) \in Nat /\ Len(p) \in Nat
      /\ \A j \in 1..Len(c) : t[j] = c[j]
      /\ \A j \in 1..Len(q) : t[Len(c) + j] = q[j]
  OBVIOUS
<1> HIDE DEF t
<1> DEFINE out == p \o t
<1>2. /\ out \in Seq(R) /\ Len(out) = Len(p) + Len(t)
      /\ \A j \in 1..Len(p) : out[j] = p[j]
      /\ \A j \in 1..Len(t) : out[Len(p) + j] = t[j]
  <2>1. out \in Seq(R) /\ JoinOf(out, p, t) BY <1>1, JoinAt, Zenon
  <2> HIDE DEF out
  <2> QED BY <2>1, Zenon DEF JoinOf
<1> HIDE DEF out
<1>3. \A j \in 1..Len(c) : j \in 1..Len(t) BY <1>1
<1>4. \A j \in 1..Len(q) : Len(c) + j \in 1..Len(t) /\ Len(p) + (Len(c) + j) = Len(p) + Len(c) + j BY <1>1
<1>5. \A j \in 1..Len(q) : out[Len(p) + Len(c) + j] = q[j] BY <1>1, <1>2, <1>4
<1>6. Len(out) = Len(p) + Len(c) + Len(q) BY <1>1, <1>2
<1>7. \A j \in 1..Len(c) : out[Len(p) + j] = c[j] BY <1>1, <1>2, <1>3
<1>8. out \in Seq(R) /\ ThreeParts(out, p, c, q) BY <1>2, <1>5, <1>6, <1>7, Zenon DEF ThreeParts
<1> QED BY <1>8, Zenon DEF out, t

\* One of the sequences that are put together, and what stands before and after it.
Around(out, ss, n, S) ==
  \E a \in Seq(S), b \in Seq(S) :
    /\ out = a \o (ss[n] \o b)
    /\ \A j \in DOMAIN a : \E m \in 1..(n - 1) : \E i \in DOMAIN ss[m] : a[j] = ss[m][i]
    /\ \A j \in DOMAIN b : \E m \in (n + 1)..Len(ss) : \E i \in DOMAIN ss[m] : b[j] = ss[m][i]

\* The places of a sequence behind one of them.
Behind(n, m, N) ==
  m - n \in 1..(N - n) /\ m - n + 1 \in 1..(N - n + 1) /\ n - 1 + (m - n + 1) = m /\ n + (m - n) = m

LEMMA Shifted ==
  ASSUME NEW N \in Nat, NEW n \in 1..N, NEW m \in 1..N, m > n
  PROVE  Behind(n, m, N)
BY DEF Behind

LEMMA FlattenMiddle ==
  ASSUME NEW S, NEW ss \in Seq(Seq(S)), NEW n \in DOMAIN ss
  PROVE  Around(FlattenSeq(ss), ss, n, S)
<1> DEFINE T == Seq(S)
           N == Len(ss)
           a == SubSeq(ss, 1, n - 1)
           c == <<ss[n]>>
           b == SubSeq(ss, n + 1, N)
<1>0. N \in Nat /\ n \in 1..N OBVIOUS
<1>1. ss[n] \in T OBVIOUS
<1>2. /\ a \in Seq(T) /\ Len(a) = n - 1 /\ \A m \in 1..(n - 1) : a[m] = ss[m]
  BY SubSeqProperties
<1>3. /\ b \in Seq(T) /\ Len(b) = N - n /\ \A m \in 1..(N - n) : b[m] = ss[n + m]
  BY SubSeqProperties
<1>4. c \in Seq(T) /\ Len(c) = 1 /\ c[1] = ss[n] BY <1>1
<1>5. ss = a \o (c \o b)
  <2>1. c \o b \in Seq(T) /\ Len(c \o b) = 1 + (N - n) /\ (c \o b)[1] = ss[n]
        /\ \A m \in 1..(N - n) : (c \o b)[m + 1] = b[m]
    <3>1. c \o b \in Seq(T) /\ JoinOf(c \o b, c, b) BY <1>3, <1>4, JoinAt, Zenon
    <3> HIDE DEF a, b, c, T, N
    <3>2. Len(c \o b) = Len(c) + Len(b) BY <3>1, Zenon DEF JoinOf
    <3>3. 1 \in 1..Len(c) BY <1>4
    <3>4. (c \o b)[1] = c[1] BY <3>1, <3>3, Zenon DEF JoinOf
    <3>5. ASSUME NEW m \in 1..(N - n) PROVE (c \o b)[m + 1] = b[m]
      <4>1. m \in 1..Len(b) BY <1>3, Zenon
      <4>2. (c \o b)[Len(c) + m] = b[m] BY <3>1, <4>1, Zenon DEF JoinOf
      <4>3. Len(c) + m = m + 1 BY <1>0, <1>4
      <4> QED BY <4>2, <4>3, Zenon
    <3> QED BY <1>3, <1>4, <3>1, <3>2, <3>4, <3>5, Zenon
  <2> DEFINE d == c \o b
             e == a \o d
  <2> HIDE DEF a, b, c, d
  <2>2. /\ e \in Seq(T) /\ Len(e) = N
        /\ \A m \in 1..(n - 1) : e[m] = a[m]
        /\ \A m \in 1..(N - n + 1) : e[n - 1 + m] = d[m]
    <3>1. d \in Seq(T) /\ Len(d) = N - n + 1 BY <1>0, <2>1 DEF d
    <3>2. e \in Seq(T) /\ JoinOf(e, a, d) BY <1>2, <3>1, JoinAt, Zenon
    <3>3. Len(a) = n - 1 /\ Len(d) = N - n + 1 BY <1>2, <3>1
    <3> HIDE DEF e, N, T
    <3>4. n - 1 + (N - n + 1) = N BY <1>0
    <3>5. Len(e) = N BY <3>2, <3>3, <3>4, Zenon DEF JoinOf
    <3>6. /\ \A m \in 1..(n - 1) : e[m] = a[m]
          /\ \A m \in 1..(N - n + 1) : e[n - 1 + m] = d[m]
      BY <3>2, <3>3, Zenon DEF JoinOf
    <3> QED BY <3>2, <3>5, <3>6, Zenon
  <2> HIDE DEF e
  <2>3. ASSUME NEW m \in 1..N PROVE e[m] = ss[m]
    <3>1. CASE m < n
      <4>1. m \in 1..(n - 1) BY <1>0, <3>1
      <4> QED BY <1>2, <2>2, <4>1
    <3>2. CASE m = n
      <4>1. 1 \in 1..(N - n + 1) /\ n - 1 + 1 = n BY <1>0
      <4> QED BY <2>1, <2>2, <3>2, <4>1 DEF d
    <3>3. CASE m > n
      <4> HIDE DEF N, T
      <4>1. Behind(n, m, N) BY <1>0, <3>3, Shifted, Zenon
      <4>2. e[m] = d[m - n + 1] BY <2>2, <4>1, Zenon DEF Behind
      <4>3. d[m - n + 1] = b[m - n] BY <2>1, <4>1, Zenon DEF d, Behind
      <4> QED BY <1>3, <4>1, <4>2, <4>3, Zenon DEF Behind
    <3> QED BY <1>0, <3>1, <3>2, <3>3
  <2>4. ss \in Seq(T) /\ Len(ss) = N BY DEF N
  <2>5. e = ss BY <2>2, <2>3, <2>4, SeqEqual
  <2> QED BY <2>5 DEF e, d
<1>6. FlattenSeq(c) = ss[n]
  <2>1. PICK f : Joins(f, c, S) BY <1>4, JoinsExist
  <2>2. FlattenSeq(c) = f[1] BY <1>4, <2>1, Flattened
  <2>3. f[1] = f[1 - 1] \o c[1] /\ f[0] = <<>>
    <3>1. f[0] = <<>> /\ \A m \in 1..Len(c) : f[m] = f[m - 1] \o c[m] BY <2>1, Zenon DEF Joins
    <3>2. 1 \in 1..Len(c) BY <1>4
    <3> QED BY <3>1, <3>2, Zenon
  <2>4. f[1] = <<>> \o ss[n]
    <3>1. 1 - 1 = 0 OBVIOUS
    <3> QED BY <1>4, <2>3, <3>1, Zenon
  <2> QED BY <1>1, <2>2, <2>4
<1> HIDE DEF a, b, c, N
<1>7. c \o b \in Seq(T) BY <1>3, <1>4
<1>8. /\ FlattenSeq(ss) = FlattenSeq(a) \o FlattenSeq(c \o b)
      /\ FlattenSeq(a) \in Seq(S) /\ FlattenSeq(c \o b) \in Seq(S)
  BY <1>2, <1>5, <1>7, FlattenHalves, Zenon
<1>9. FlattenSeq(c \o b) = ss[n] \o FlattenSeq(b) /\ FlattenSeq(b) \in Seq(S)
  BY <1>3, <1>4, <1>6, FlattenHalves, Zenon
<1>10. FlattenSeq(ss) \in Seq(S) BY <1>8
<1>11. ASSUME NEW j \in DOMAIN FlattenSeq(a)
       PROVE  \E m \in 1..(n - 1) : \E i \in DOMAIN ss[m] : FlattenSeq(a)[j] = ss[m][i]
  <2>1. PICK m \in DOMAIN a : \E i \in DOMAIN a[m] : FlattenSeq(a)[j] = a[m][i] BY <1>2, FlattenFrom, Zenon
  <2>2. m \in 1..(n - 1) /\ a[m] = ss[m] BY <1>2, <2>1
  <2> QED BY <2>1, <2>2, Zenon
<1>12. ASSUME NEW j \in DOMAIN FlattenSeq(b)
       PROVE  \E m \in (n + 1)..N : \E i \in DOMAIN ss[m] : FlattenSeq(b)[j] = ss[m][i]
  <2>1. PICK m \in DOMAIN b : \E i \in DOMAIN b[m] : FlattenSeq(b)[j] = b[m][i] BY <1>3, FlattenFrom, Zenon
  <2>2. m \in 1..(N - n) /\ b[m] = ss[n + m] BY <1>3, <2>1
  <2>3. n + m \in (n + 1)..N BY <1>0, <2>2
  <2> QED BY <2>1, <2>2, <2>3, Zenon
<1>13. FlattenSeq(ss) = FlattenSeq(a) \o (ss[n] \o FlattenSeq(b)) BY <1>8, <1>9, Zenon
<1> QED BY <1>8, <1>9, <1>11, <1>12, <1>13, Zenon DEF Around, N

\* Rows with the tags and serials of their cells, and the sheet they are from.
IsList(rows, profile) ==
  /\ \A n \in DOMAIN rows : rows[n].tags \in Seq(Nat) /\ rows[n].serial.parts \in Seq(Nat)
  /\ profile.global \in Seq(Nat)

TagsOf(row, profile) == IF profile.layout = "global_tag" /\ row.tags = <<>> THEN profile.global ELSE row.tags
Count(row, profile) == IF TagsOf(row, profile) = <<>> THEN 1 ELSE Len(TagsOf(row, profile))

\* Serials whose pieces are listed with commas.
InList(serial) == serial.sep = ","

LEMMA OneOrMore == \A n \in Nat : n > 0 => n = 1 \/ n > 1
OBVIOUS

\* Pieces of a serial that are as many as the tags go to them in order.
LEMMA SerialsDealt ==
  ASSUME NEW serial, serial.parts \in Seq(Nat), InList(serial),
         NEW count \in Nat, count > 0, count = Len(serial.parts),
         \A j \in 1..count : serial.parts[j] < 100, NEW i \in 1..count
  PROVE  /\ SplitSerialForTags(RealSerial(serial), count)[i] # Whole(NoSerial)
         /\ SplitSerialForTags(RealSerial(serial), count)[i].whole.parts = <<serial.parts[i]>>
<1> DEFINE parts == serial.parts
<1>0. parts \in Seq(Nat) /\ serial.parts = parts /\ count = Len(parts) /\ \A j \in 1..count : parts[j] < 100
  OBVIOUS
<1> HIDE DEF parts
<1>1. DOMAIN parts = 1..count /\ i \in DOMAIN serial.parts /\ serial.parts[i] < 100 BY <1>0
<1>2. RealSerial(serial) = serial BY <1>1, Zenon DEF RealSerial
<1>3. NoSerial.parts = <<>> /\ \A s : Whole(s).whole = s
  <2>1. \A s : Whole(s).whole = s BY DEF Whole
  <2>2. NoSerial.parts = <<>> BY DEF NoSerial
  <2> QED BY <2>1, <2>2
<1>4. CASE count = 1
  <2>1. ~(count > 1) /\ i = 1 BY <1>4
  <2>2. SplitSerialForTags(serial, count)[i] = Whole(serial) BY <2>1, Zenon DEF SplitSerialForTags
  <2>3. parts = <<parts[i]>>
    <3>1. \A s \in Seq(Nat) : Len(s) = 1 => s = <<s[1]>> OBVIOUS
    <3> QED BY <1>0, <1>4, <2>1, <3>1, Zenon
  <2>4. <<parts[i]>> # <<>> OBVIOUS
  <2>5. Whole(serial).whole.parts = parts BY <1>0, <1>3, Zenon
  <2>6. Whole(serial) # Whole(NoSerial) BY <1>3, <2>3, <2>4, <2>5, Zenon
  <2> QED BY <1>0, <1>2, <2>2, <2>3, <2>5, <2>6, Zenon
<1>5. CASE count > 1
  <2> DEFINE piece == [sep |-> "none", parts |-> <<parts[i]>>]
  <2>1. /\ serial.sep \in {"to", "/", ",", "-"}
        /\ serial.sep = "-" => \A j \in DOMAIN serial.parts : serial.parts[j] < 100
    <3>1. "," # "-" OBVIOUS
    <3> QED BY <1>0, <3>1, Zenon DEF InList
  <2>2. SplitSerialForTags(serial, count)[i] = Whole(piece) BY <1>0, <1>5, <2>1, Zenon DEF SplitSerialForTags
  <2>3. piece.parts = <<parts[i]>> /\ <<parts[i]>> # <<>> OBVIOUS
  <2> HIDE DEF piece
  <2>4. Whole(piece).whole.parts = <<parts[i]>> BY <1>3, <2>3, Zenon
  <2>5. Whole(piece) # Whole(NoSerial) BY <1>3, <2>3, <2>4, Zenon
  <2> QED BY <1>0, <1>2, <2>2, <2>4, <2>5, Zenon
<1>6. count = 1 \/ count > 1 BY OneOrMore, Zenon
<1> QED BY <1>4, <1>5, <1>6, Zenon DEF parts

\* One output row for each tag, with its piece of the serial.
OneForEach(out, row, profile, n) ==
  LET tags == TagsOf(row, profile)
      count == Count(row, profile) IN
  /\ count \in Nat \ {0} /\ count = Max({Len(tags), 1})
  /\ out = [i \in 1..count |-> out[i]]
  /\ \A i \in 1..count : /\ out[i].row = n
                         /\ out[i].tag = IF tags = <<>> THEN 0 ELSE tags[i]
                         /\ profile.layout = "global_tag" => out[i].qty = 0
  /\ /\ tags # <<>> /\ Len(tags) = Len(row.serial.parts) /\ InList(row.serial)
     /\ \A i \in DOMAIN tags : row.serial.parts[i] < 100
     => \A i \in DOMAIN tags : out[i].serial.whole.parts = <<row.serial.parts[i]>>

LEMMA RowsOfOne ==
  ASSUME NEW row, NEW profile, NEW n, row.tags \in Seq(Nat), row.serial.parts \in Seq(Nat),
         profile.global \in Seq(Nat)
  PROVE  OneForEach(ExpandRow(row, profile, n), row, profile, n)
<1> DEFINE tags == TagsOf(row, profile)
           count == Count(row, profile)
           out == ExpandRow(row, profile, n)
           parts == row.serial.parts
           serials == SplitSerialForTags(RealSerial(row.serial), count)
           serial(i) == IF serials[i] = Whole(NoSerial) THEN profile.metaSerial ELSE serials[i]
<1>1. tags \in Seq(Nat) /\ Len(tags) \in Nat /\ (tags = <<>> <=> Len(tags) = 0) BY DEF TagsOf
<1>2. count \in Nat \ {0} /\ count = IF tags = <<>> THEN 1 ELSE Len(tags) BY <1>1 DEF Count
<1>3. count = Max({Len(tags), 1})
  <2>1. Max({Len(tags), 1}) = IF Len(tags) <= 1 THEN 1 ELSE Len(tags) BY <1>1, GreaterOfTwo
  <2> QED BY <1>1, <1>2, <2>1
<1>4. out = [i \in 1..count |->
               [row |-> n, tag |-> IF tags = <<>> THEN 0 ELSE tags[i], item |-> row.item,
                serial |-> serial(i),
                qty |-> IF ~row.units /\ profile.layout # "global_tag" THEN profile.metaQty ELSE 0,
                currency |-> IF ~profile.own THEN profile.metaCurrency ELSE 0]]
  BY <1>3, Zenon DEF ExpandRow, TagsOf
<1> HIDE DEF tags, count, serials
<1>5. /\ out = [i \in 1..count |-> out[i]]
      /\ \A i \in 1..count : /\ out[i].row = n
                             /\ out[i].tag = IF tags = <<>> THEN 0 ELSE tags[i]
                             /\ profile.layout = "global_tag" => out[i].qty = 0
                             /\ out[i].serial = serial(i)
  <2> HIDE DEF serial
  <2> QED BY <1>4
<1>6. ASSUME tags # <<>>, Len(tags) = Len(parts), InList(row.serial),
             \A i \in DOMAIN tags : parts[i] < 100, NEW i \in DOMAIN tags
      PROVE  out[i].serial.whole.parts = <<parts[i]>>
  <2> HIDE DEF out, serial
  <2>1. DOMAIN tags = 1..Len(tags) BY <1>1
  <2>2. count = Len(tags) BY <1>2, <1>6, Zenon
  <2>3. count = Len(parts) /\ i \in 1..count /\ \A j \in 1..count : parts[j] < 100
    BY <1>6, <2>1, <2>2, Zenon
  <2>4. count \in Nat /\ count > 0
    <3>1. \A c \in Nat \ {0} : c > 0 OBVIOUS
    <3> QED BY <1>2, <3>1, Zenon
  <2>5. parts \in Seq(Nat) /\ row.serial.parts = parts BY DEF parts
  <2>6. serials[i] # Whole(NoSerial) /\ serials[i].whole.parts = <<parts[i]>>
    <3>1. InList(row.serial) BY <1>6, Zenon
    <3> QED BY <2>3, <2>4, <2>5, <3>1, SerialsDealt, Zenon DEF serials
  <2>7. serial(i) = serials[i] BY <2>6, Zenon DEF serial
  <2> QED BY <1>5, <2>3, <2>6, <2>7, Zenon
<1> HIDE DEF out
<1>7. OneForEach(out, row, profile, n) BY <1>2, <1>3, <1>5, <1>6, Zenon DEF OneForEach, tags, count
<1> QED BY <1>7 DEF out

\* What stands where when sequences are put together behind another one.
PlacedBehind(out, head, ss, S) ==
  /\ out \in Seq(S)
  /\ \A j \in 1..Len(head) : j \in DOMAIN out /\ out[j] = head[j]
  /\ \A j \in DOMAIN out : j > Len(head) => \E m \in DOMAIN ss : \E i \in DOMAIN ss[m] : out[j] = ss[m][i]

LEMMA BehindHead ==
  ASSUME NEW S, NEW head \in Seq(S), NEW ss \in Seq(Seq(S))
  PROVE  PlacedBehind(head \o FlattenSeq(ss), head, ss, S)
<1> DEFINE flat == FlattenSeq(ss)
           out == head \o flat
           From(e) == \E m \in DOMAIN ss : \E i \in DOMAIN ss[m] : e = ss[m][i]
<1>1. flat \in Seq(S)
  <2>1. PICK f : Joins(f, ss, S) BY JoinsExist
  <2> QED BY <2>1, Flattened, Zenon
<1>2. \A j \in DOMAIN flat : From(flat[j]) BY FlattenFrom, Zenon
<1> HIDE DEF flat, From
<1>3. out \in Seq(S) /\ Len(out) = Len(head) + Len(flat) BY <1>1
<1>4. \A j \in 1..Len(head) : j \in DOMAIN out /\ out[j] = head[j] BY <1>1
<1>5. ASSUME NEW j \in DOMAIN out, j > Len(head) PROVE From(out[j])
  <2>1. j - Len(head) \in DOMAIN flat /\ out[j] = flat[j - Len(head)] BY <1>1, <1>5
  <2> QED BY <1>2, <2>1, Zenon
<1>6. PlacedBehind(out, head, ss, S)
  <2>1. \A j \in DOMAIN out : j > Len(head) => From(out[j]) BY <1>5, Zenon
  <2> HIDE DEF out
  <2> QED BY <1>3, <1>4, <2>1, Zenon DEF From, PlacedBehind
<1> QED BY <1>6, Zenon DEF flat

Associates(q, r, t) == (q \o r) \o t = q \o (r \o t)

LEMMA JoinedLater ==
  ASSUME NEW S, NEW q \in Seq(S), NEW r \in Seq(S), NEW t \in Seq(S)
  PROVE  Associates(q, r, t)
BY ConcatAssociative DEF Associates

\* What stands in one place: all that is numbered n, and nothing else.
InOnePlace(out, n, c) ==
  \E k \in 0..Len(out) : /\ {j \in DOMAIN out : out[j].row = n} = (k + 1)..(k + Len(c))
                         /\ \A i \in DOMAIN c : out[k + i] = c[i]

LEMMA PlaceOf ==
  ASSUME NEW S, NEW p \in Seq(S), NEW c \in Seq(S), NEW b \in Seq(S), NEW n,
         \A j \in DOMAIN p : p[j].row # n, \A j \in DOMAIN c : c[j].row = n, \A j \in DOMAIN b : b[j].row # n
  PROVE  InOnePlace(p \o (c \o b), n, c)
<1> DEFINE out == p \o (c \o b)
           k == Len(p)
           lc == Len(c)
           lb == Len(b)
<1>1. /\ out \in Seq(S) /\ Len(out) = k + lc + lb
      /\ \A j \in 1..k : out[j] = p[j]
      /\ \A j \in 1..lc : out[k + j] = c[j]
      /\ \A j \in 1..lb : out[k + lc + j] = b[j]
  <2>1. out \in Seq(S) /\ ThreeParts(out, p, c, b) BY MiddlePart, Zenon
  <2> HIDE DEF out
  <2> QED BY <2>1, Zenon DEF ThreeParts
<1> HIDE DEF out
<1>2. k \in Nat /\ lc \in Nat /\ lb \in Nat /\ DOMAIN p = 1..k /\ DOMAIN c = 1..lc /\ DOMAIN b = 1..lb
      /\ DOMAIN out = 1..(k + lc + lb)
  BY <1>1
<1> HIDE DEF k, lc, lb
<1>3. ASSUME NEW j \in DOMAIN out PROVE out[j].row = n <=> j \in (k + 1)..(k + lc)
  <2>1. CASE j <= k
    <3>1. j \in 1..k /\ j \notin (k + 1)..(k + lc) BY <1>2, <2>1
    <3> QED BY <1>1, <1>2, <3>1, Zenon
  <2>2. CASE j > k /\ j <= k + lc
    <3>1. j - k \in 1..lc /\ k + (j - k) = j /\ j \in (k + 1)..(k + lc) BY <1>2, <2>2
    <3>2. out[j] = c[j - k] BY <1>1, <3>1, Zenon
    <3> QED BY <1>2, <3>1, <3>2, Zenon
  <2>3. CASE j > k + lc
    <3>1. j - (k + lc) \in 1..lb /\ k + lc + (j - (k + lc)) = j /\ j \notin (k + 1)..(k + lc) BY <1>2, <2>3
    <3>2. out[j] = b[j - (k + lc)] BY <1>1, <3>1, Zenon
    <3> QED BY <1>2, <3>1, <3>2, Zenon
  <2>4. j <= k \/ (j > k /\ j <= k + lc) \/ j > k + lc BY <1>2
  <2> QED BY <2>1, <2>2, <2>3, <2>4, Zenon
<1>4. {j \in DOMAIN out : out[j].row = n} = (k + 1)..(k + lc)
  <2>1. \A j \in (k + 1)..(k + lc) : j \in DOMAIN out BY <1>2
  <2> QED BY <1>3, <2>1, Zenon
<1>5. k \in 0..Len(out) BY <1>1, <1>2
<1>6. \A i \in DOMAIN c : out[k + i] = c[i] BY <1>1, <1>2, Zenon
<1> QED BY <1>4, <1>5, <1>6, Zenon DEF InOnePlace, out, lc

\* Elements that are numbered by the sequence they are from; 0 is for those before.
Numbered(head, ss) ==
  /\ \A j \in DOMAIN head : head[j].row = 0
  /\ \A m \in DOMAIN ss : \A i \in DOMAIN ss[m] : ss[m][i].row = m

LEMMA OnePlace ==
  ASSUME NEW S, NEW head \in Seq(S), NEW ss \in Seq(Seq(S)), Numbered(head, ss), NEW n \in DOMAIN ss
  PROVE  InOnePlace(head \o FlattenSeq(ss), n, ss[n])
<1>1. PICK a \in Seq(S), b \in Seq(S) :
        /\ FlattenSeq(ss) = a \o (ss[n] \o b)
        /\ \A j \in DOMAIN a : \E m \in 1..(n - 1) : \E i \in DOMAIN ss[m] : a[j] = ss[m][i]
        /\ \A j \in DOMAIN b : \E m \in (n + 1)..Len(ss) : \E i \in DOMAIN ss[m] : b[j] = ss[m][i]
  <2>1. Around(FlattenSeq(ss), ss, n, S) BY FlattenMiddle, Zenon
  <2> QED BY <2>1, Zenon DEF Around
<1>2. PICK c \in Seq(S) : c = ss[n]
  <2>1. ss[n] \in Seq(S) OBVIOUS
  <2> QED BY <2>1, Zenon
<1>3. Len(ss) \in Nat /\ n \in 1..Len(ss) /\ DOMAIN ss = 1..Len(ss) OBVIOUS
<1>4. /\ \A m \in 1..(n - 1) : m \in DOMAIN ss /\ m # n
      /\ \A m \in (n + 1)..Len(ss) : m \in DOMAIN ss /\ m # n
      /\ 0 # n
  BY <1>3
<1>5. ASSUME NEW j \in DOMAIN a PROVE a[j].row # n
  <2>1. PICK m \in 1..(n - 1) : \E i \in DOMAIN ss[m] : a[j] = ss[m][i] BY <1>1, Zenon
  <2>2. m \in DOMAIN ss /\ m # n BY <1>4, <2>1, Zenon
  <2>3. PICK i \in DOMAIN ss[m] : a[j] = ss[m][i] BY <2>1, Zenon
  <2>4. ss[m][i].row = m BY <2>2, <2>3, Zenon DEF Numbered
  <2> QED BY <2>2, <2>3, <2>4, Zenon
<1>6. ASSUME NEW j \in DOMAIN b PROVE b[j].row # n
  <2>1. PICK m \in (n + 1)..Len(ss) : \E i \in DOMAIN ss[m] : b[j] = ss[m][i] BY <1>1, Zenon
  <2>2. m \in DOMAIN ss /\ m # n BY <1>4, <2>1, Zenon
  <2>3. PICK i \in DOMAIN ss[m] : b[j] = ss[m][i] BY <2>1, Zenon
  <2>4. ss[m][i].row = m BY <2>2, <2>3, Zenon DEF Numbered
  <2> QED BY <2>2, <2>3, <2>4, Zenon
<1>7. \A j \in DOMAIN c : c[j].row = n BY <1>2, Zenon DEF Numbered
<1>8. PICK p \in Seq(S) : p = head \o a
  <2>1. head \o a \in Seq(S) OBVIOUS
  <2> QED BY <2>1, Zenon
<1>9. \A j \in DOMAIN p : p[j].row # n
  <2>1. Len(p) = Len(head) + Len(a) BY <1>8
  <2> SUFFICES ASSUME NEW j \in DOMAIN p PROVE p[j].row # n OBVIOUS
  <2>2. j \in 1..Len(p) OBVIOUS
  <2>3. CASE j <= Len(head)
    <3>1. j \in DOMAIN head /\ p[j] = head[j] BY <1>8, <2>1, <2>2, <2>3
    <3> QED BY <1>4, <3>1, Zenon DEF Numbered
  <2>4. CASE j > Len(head)
    <3>1. j - Len(head) \in DOMAIN a /\ p[j] = a[j - Len(head)] BY <1>8, <2>1, <2>2, <2>4
    <3> QED BY <1>5, <3>1, Zenon
  <2>5. j <= Len(head) \/ j > Len(head) BY <2>2
  <2> QED BY <2>3, <2>4, <2>5
<1>10. InOnePlace(p \o (c \o b), n, c) BY <1>5, <1>6, <1>7, <1>9, PlaceOf, Zenon
<1>11. head \o (a \o (c \o b)) = p \o (c \o b)
  <2>1. c \o b \in Seq(S) BY <1>1, <1>2
  <2>2. Associates(head, a, c \o b) BY <2>1, JoinedLater, Zenon
  <2> QED BY <1>8, <2>2, Zenon DEF Associates
<1> QED BY <1>1, <1>2, <1>10, <1>11, Zenon

\* The rows above the footer are the first ones.
EndsBody(rows, B) ==
  /\ BeforeFooter(rows) = SubSeq(rows, 1, B)
  /\ \A m \in 1..B : rows[m].kind # "footer"
  /\ B = Len(rows) \/ rows[B + 1].kind = "footer"

LEMMA BodyOf ==
  ASSUME NEW R, NEW rows \in Seq(R)
  PROVE  \E B \in 0..Len(rows) : EndsBody(rows, B)
<1> DEFINE feet == {i \in DOMAIN rows : rows[i].kind = "footer"}
           N == Len(rows)
<1>1. N \in Nat /\ DOMAIN rows = 1..N OBVIOUS
<1>2. feet \in SUBSET Nat BY <1>1
<1>3. CASE feet = {}
  <2>1. BeforeFooter(rows) = rows BY <1>3, Zenon DEF BeforeFooter
  <2>2. SubSeq(rows, 1, N) = rows
    <3>1. SubSeq(rows, 1, N) \in Seq(R) /\ Len(SubSeq(rows, 1, N)) = N /\ \A m \in 1..N : SubSeq(rows, 1, N)[m] = rows[m]
      BY SubSeqProperties
    <3> QED BY <3>1, SeqEqual
  <2>3. \A m \in 1..N : rows[m].kind # "footer" BY <1>1, <1>3
  <2>4. N \in 0..N BY <1>1
  <2> QED BY <2>1, <2>2, <2>3, <2>4, Zenon DEF EndsBody
<1>4. CASE feet # {}
  <2> DEFINE f == Min(feet)
  <2>1. f \in feet /\ \A i \in feet : f <= i
    <3> HIDE DEF feet
    <3> QED BY <1>2, <1>4, Chosen
  <2>2. BeforeFooter(rows) = SubSeq(rows, 1, f - 1) BY <1>4, Zenon DEF BeforeFooter
  <2> HIDE DEF f
  <2>3. f \in 1..N /\ f - 1 \in 0..N /\ f - 1 + 1 = f BY <1>1, <2>1
  <2>4. \A m \in 1..(f - 1) : m \in 1..N /\ ~(f <= m) BY <1>1, <2>3
  <2>5. \A m \in 1..(f - 1) : rows[m].kind # "footer"
    <3>1. \A m \in 1..N : rows[m].kind = "footer" => m \in feet BY <1>1
    <3> HIDE DEF feet
    <3> QED BY <2>1, <2>4, <3>1, Zenon
  <2>6. rows[f - 1 + 1].kind = "footer" BY <2>1, <2>3
  <2> QED BY <2>2, <2>3, <2>5, <2>6, Zenon DEF EndsBody
<1> QED BY <1>3, <1>4

LEMMA BodyRows ==
  ASSUME NEW R, NEW rows \in Seq(R), NEW B \in 0..Len(rows), EndsBody(rows, B)
  PROVE  /\ BeforeFooter(rows) \in Seq(R) /\ Len(BeforeFooter(rows)) = B
         /\ DOMAIN BeforeFooter(rows) = 1..B /\ \A m \in 1..B : BeforeFooter(rows)[m] = rows[m]
<1> DEFINE body == SubSeq(rows, 1, B)
<1>1. body \in Seq(R) /\ Len(body) = B /\ DOMAIN body = 1..B /\ \A m \in 1..B : body[m] = rows[m]
  BY SubSeqProperties
<1>2. BeforeFooter(rows) = body BY Zenon DEF EndsBody
<1> QED BY <1>1, <1>2, Zenon

\* The output rows of each row.
Chunks(body, profile) ==
  [n \in DOMAIN body |-> IF Kept(body[n], profile.layout) THEN ExpandRow(body[n], profile, n) ELSE <<>>]

LEMMA TabularOf ==
  ASSUME NEW rows, NEW profile
  PROVE  Tabular(rows, profile) = EquipmentRows(profile) \o FlattenSeq(Chunks(BeforeFooter(rows), profile))
BY Zenon DEF Tabular, Chunks

\* The output rows of a list, row by row.
Layout(head, ss, S) ==
  head \in Seq(S) /\ ss \in Seq(Seq(S)) /\ Numbered(head, ss)

LEMMA EquipmentFirst ==
  ASSUME NEW profile, profile.global \in Seq(Nat)
  PROVE  \E m \in Nat : /\ EquipmentRows(profile) = [i \in 1..m |-> EquipmentRows(profile)[i]]
                        /\ \A i \in 1..m : EquipmentRows(profile)[i].row = 0
                        /\ profile.layout = "global_tag" =>
                             m = Len(profile.global) /\ \A i \in 1..m : EquipmentRows(profile)[i].tag = profile.global[i]
<1>1. CASE profile.layout # "global_tag"
  <2>1. EquipmentRows(profile) = <<>> BY <1>1, Zenon DEF EquipmentRows
  <2>2. <<>> = [i \in 1..0 |-> <<>>[i]] /\ 1..0 = {} OBVIOUS
  <2>3. 0 \in Nat OBVIOUS
  <2> QED BY <1>1, <2>1, <2>2, <2>3, Zenon
<1>2. CASE profile.layout = "global_tag"
  <2> DEFINE m == Len(profile.global)
             out == EquipmentRows(profile)
  <2>1. m \in Nat /\ DOMAIN profile.global = 1..m OBVIOUS
  <2>2. out = [i \in 1..m |-> [row |-> 0, tag |-> profile.global[i], item |-> 0, serial |-> profile.metaSerial,
                               qty |-> profile.metaQty, currency |-> 0]]
    BY <1>2, <2>1, Zenon DEF EquipmentRows
  <2> HIDE DEF out, m
  <2>3. out = [i \in 1..m |-> out[i]] /\ \A i \in 1..m : out[i].row = 0 /\ out[i].tag = profile.global[i] BY <2>2
  <2> QED BY <2>1, <2>3, Zenon DEF out, m
<1> QED BY <1>1, <1>2

LEMMA LayoutOf ==
  ASSUME NEW R, NEW body \in Seq(R), NEW profile, IsList(body, profile)
  PROVE  \E S : Layout(EquipmentRows(profile), Chunks(body, profile), S)
<1> DEFINE N == Len(body)
           head == EquipmentRows(profile)
           ss == Chunks(body, profile)
           all == [n \in 1..(N + 1) |-> IF n = N + 1 THEN head ELSE ss[n]]
<1>1. N \in Nat /\ DOMAIN body = 1..N /\ N + 1 \in Nat OBVIOUS
<1>2. ss = [n \in 1..N |-> ss[n]] /\ DOMAIN ss = 1..N BY <1>1, Zenon DEF Chunks
<1>3. PICK h \in Nat : head = [i \in 1..h |-> head[i]] /\ \A i \in 1..h : head[i].row = 0
  BY EquipmentFirst, Zenon DEF IsList
<1>4. ASSUME NEW n \in 1..N
      PROVE  \E m \in Nat : ss[n] = [i \in 1..m |-> ss[n][i]] /\ \A i \in 1..m : ss[n][i].row = n
  <2>1. ss[n] = IF Kept(body[n], profile.layout) THEN ExpandRow(body[n], profile, n) ELSE <<>>
    BY <1>1, Zenon DEF Chunks
  <2>2. CASE Kept(body[n], profile.layout)
    <3> DEFINE row == body[n]
    <3>1. row.tags \in Seq(Nat) /\ row.serial.parts \in Seq(Nat) /\ profile.global \in Seq(Nat)
      BY <1>1, Zenon DEF IsList
    <3>2. ss[n] = ExpandRow(row, profile, n) BY <2>1, <2>2, Zenon
    <3> HIDE DEF row, ss
    <3>3. /\ Count(row, profile) \in Nat \ {0}
          /\ ExpandRow(row, profile, n) = [i \in 1..Count(row, profile) |-> ExpandRow(row, profile, n)[i]]
          /\ \A i \in 1..Count(row, profile) : ExpandRow(row, profile, n)[i].row = n
      <4>1. OneForEach(ExpandRow(row, profile, n), row, profile, n) BY <3>1, RowsOfOne, Zenon
      <4> QED BY <4>1, Zenon DEF OneForEach
    <3>4. Count(row, profile) \in Nat BY <3>3, Zenon
    <3> QED BY <3>2, <3>3, <3>4, Zenon
  <2>3. CASE ~Kept(body[n], profile.layout)
    <3>1. ss[n] = <<>> BY <2>1, <2>3, Zenon
    <3>2. <<>> = [i \in 1..0 |-> <<>>[i]] /\ 1..0 = {} OBVIOUS
    <3>3. 0 \in Nat OBVIOUS
    <3> QED BY <3>1, <3>2, <3>3, Zenon
  <2> QED BY <2>2, <2>3
<1> HIDE DEF ss, head, N
<1>5. \A n \in 1..N : n \in 1..(N + 1) /\ n # N + 1 BY <1>1
<1>6. N + 1 \in 1..(N + 1) BY <1>1
<1>7. all[N + 1] = head /\ \A n \in 1..N : all[n] = ss[n] BY <1>5, <1>6
<1>8. \A n \in 1..(N + 1) : n = N + 1 \/ n \in 1..N BY <1>1
<1>9. all = [n \in 1..(N + 1) |-> all[n]] OBVIOUS
<1> HIDE DEF all
<1>10. \A n \in 1..(N + 1) : \E m \in Nat : all[n] = [i \in 1..m |-> all[n][i]]
  <2>1. \E m \in Nat : head = [i \in 1..m |-> head[i]] BY <1>3, Zenon
  <2>2. \A n \in 1..N : \E m \in Nat : ss[n] = [i \in 1..m |-> ss[n][i]] BY <1>4, Zenon
  <2> SUFFICES ASSUME NEW n \in 1..(N + 1) PROVE \E m \in Nat : all[n] = [i \in 1..m |-> all[n][i]] OBVIOUS
  <2>3. CASE n = N + 1
    <3>1. all[n] = head BY <1>7, <2>3, Zenon
    <3> QED BY <2>1, <3>1, Zenon
  <2>4. CASE n \in 1..N
    <3>1. all[n] = ss[n] BY <1>7, <2>4, Zenon
    <3>2. PICK m \in Nat : ss[n] = [i \in 1..m |-> ss[n][i]] BY <2>2, <2>4, Zenon
    <3> QED BY <3>1, <3>2, Zenon
  <2> QED BY <1>8, <2>3, <2>4, Zenon
<1>11. PICK S : all \in Seq(Seq(S)) BY <1>1, <1>9, <1>10, NestedSeq, Zenon
<1>12. \A n \in 1..(N + 1) : all[n] \in Seq(S)
  <2>1. DOMAIN all = 1..(N + 1) BY <1>9, Zenon
  <2>2. \A n \in DOMAIN all : all[n] \in Seq(S) BY <1>11
  <2> QED BY <2>1, <2>2, Zenon
<1>13. head \in Seq(S) /\ \A n \in 1..N : ss[n] \in Seq(S) BY <1>5, <1>6, <1>7, <1>12, Zenon
<1>14. ss \in Seq(Seq(S)) BY <1>1, <1>2, <1>13
<1>15. \A j \in DOMAIN head : head[j].row = 0
  <2>1. DOMAIN head = 1..h BY <1>3, Zenon
  <2> QED BY <1>3, <2>1, Zenon
<1>16. ASSUME NEW n \in 1..N, NEW i \in DOMAIN ss[n] PROVE ss[n][i].row = n
  <2>1. PICK m \in Nat : ss[n] = [j \in 1..m |-> ss[n][j]] /\ \A j \in 1..m : ss[n][j].row = n BY <1>4, Zenon
  <2>2. DOMAIN ss[n] = 1..m BY <2>1, Zenon
  <2> QED BY <2>1, <2>2, Zenon
<1>17. Numbered(head, ss) BY <1>2, <1>15, <1>16, Zenon DEF Numbered
<1> QED BY <1>13, <1>14, <1>17, Zenon DEF Layout, head, ss

\* Every spare of a list reaches its tags: SparesReachTags, for rows and profiles of any kind.
THEOREM SparesAreTagged ==
  ASSUME NEW R, NEW rows \in Seq(R), NEW profile, IsList(rows, profile)
  PROVE  SparesReachTags(rows, profile)
<1> DEFINE body == BeforeFooter(rows)
           out == Tabular(rows, profile)
           head == EquipmentRows(profile)
           ss == Chunks(body, profile)
           At(n) == {j \in DOMAIN out : out[j].row = n}
           Of(n) == IF body[n].tags # <<>> THEN body[n].tags
                      ELSE IF profile.layout = "global_tag" THEN profile.global ELSE <<>>
<1>1. PICK B \in 0..Len(rows) : EndsBody(rows, B) BY BodyOf
<1>2. body \in Seq(R) /\ DOMAIN body = 1..B /\ \A m \in 1..B : body[m] = rows[m] BY <1>1, BodyRows, Zenon
<1>3. Len(rows) \in Nat /\ B \in Nat /\ DOMAIN rows = 1..Len(rows) /\ \A m \in 1..B : m \in 1..Len(rows) OBVIOUS
<1>4. IsList(body, profile) BY <1>2, <1>3, Zenon DEF IsList
<1>5. PICK S : Layout(head, ss, S) BY <1>2, <1>4, LayoutOf, Zenon
<1>6. out = head \o FlattenSeq(ss) BY TabularOf, Zenon
<1>7. DOMAIN ss = 1..B BY <1>2, Zenon DEF Chunks
<1>8. ASSUME NEW n \in 1..B, body[n].desc \/ body[n].part, body[n].kind = "data"
      PROVE  \E k \in 0..Len(out) :
               /\ At(n) = (k + 1)..(k + Max({Len(Of(n)), 1}))
               /\ \A i \in DOMAIN Of(n) : out[k + i].tag = Of(n)[i]
               /\ Of(n) # <<>> /\ Len(Of(n)) = Len(body[n].serial.parts) /\ body[n].serial.sep = ","
                  /\ (\A i \in DOMAIN Of(n) : body[n].serial.parts[i] < 100)
                  => \A i \in DOMAIN Of(n) : out[k + i].serial.whole.parts = <<body[n].serial.parts[i]>>
  <2> DEFINE row == body[n]
             c == ss[n]
             tags == TagsOf(row, profile)
             count == Count(row, profile)
  <2>1. Kept(row, profile.layout)
    <3>1. row.kind # "blank" /\ row.kind # "stub"
      <4>1. "data" # "blank" /\ "data" # "stub" OBVIOUS
      <4> QED BY <1>8, <4>1, Zenon
    <3> QED BY <1>8, <3>1, Zenon DEF Kept
  <2>2. c = ExpandRow(row, profile, n) BY <1>2, <2>1, Zenon DEF Chunks
  <2>3. row.tags \in Seq(Nat) /\ row.serial.parts \in Seq(Nat) /\ profile.global \in Seq(Nat)
    BY <1>2, <1>4, Zenon DEF IsList
  <2> HIDE DEF row, c, ss, head, out, body
  <2>4. OneForEach(c, row, profile, n) BY <2>2, <2>3, RowsOfOne, Zenon
  <2>5. /\ count \in Nat \ {0} /\ count = Max({Len(tags), 1})
        /\ c = [i \in 1..count |-> c[i]]
        /\ \A i \in 1..count : c[i].tag = IF tags = <<>> THEN 0 ELSE tags[i]
        /\ /\ tags # <<>> /\ Len(tags) = Len(row.serial.parts) /\ InList(row.serial)
           /\ \A i \in DOMAIN tags : row.serial.parts[i] < 100
           => \A i \in DOMAIN tags : c[i].serial.whole.parts = <<row.serial.parts[i]>>
    BY <2>4, Zenon DEF OneForEach
  <2>6. Of(n) = tags BY Zenon DEF TagsOf, row
  <2>7. tags \in Seq(Nat) BY <2>3, Zenon DEF TagsOf
  <2>8. DOMAIN c = 1..count /\ Len(c) = count
    <3>1. DOMAIN c = 1..count BY <2>5, Zenon
    <3>2. \A q : \A k \in Nat : q = [i \in 1..k |-> q[i]] => Len(q) = k OBVIOUS
    <3>3. count \in Nat BY <2>5, Zenon
    <3> QED BY <2>5, <3>1, <3>2, <3>3, Zenon
  <2>9. \A i \in DOMAIN tags : i \in 1..count /\ tags # <<>>
    <3>1. CASE tags = <<>>
      <4>1. DOMAIN <<>> = {} OBVIOUS
      <4> QED BY <3>1, <4>1, Zenon
    <3>2. CASE tags # <<>>
      <4>1. count = Len(tags) BY <3>2, Zenon DEF Count
      <4>2. DOMAIN tags = 1..Len(tags)
        <5> HIDE DEF tags
        <5> QED BY <2>7
      <4> QED BY <3>2, <4>1, <4>2, Zenon
    <3> QED BY <3>1, <3>2
  <2>10. InOnePlace(out, n, c)
    <3>1. head \in Seq(S) /\ ss \in Seq(Seq(S)) /\ Numbered(head, ss) BY <1>5, Zenon DEF Layout
    <3>2. n \in DOMAIN ss BY <1>7, Zenon
    <3> QED BY <1>6, <3>1, <3>2, OnePlace, Zenon DEF c
  <2>11. PICK k \in 0..Len(out) : /\ At(n) = (k + 1)..(k + Len(c))
                                  /\ \A i \in DOMAIN c : out[k + i] = c[i]
    BY <2>10, Zenon DEF InOnePlace
  <2> HIDE DEF tags, count
  <2>12. At(n) = (k + 1)..(k + Max({Len(Of(n)), 1})) BY <2>5, <2>6, <2>8, <2>11, Zenon
  <2>13. \A i \in DOMAIN Of(n) : out[k + i] = c[i] /\ c[i].tag = Of(n)[i]
    <3> SUFFICES ASSUME NEW i \in DOMAIN tags PROVE out[k + i] = c[i] /\ c[i].tag = tags[i] BY <2>6, Zenon
    <3>1. i \in 1..count /\ tags # <<>> BY <2>9, Zenon
    <3>2. c[i].tag = tags[i] BY <2>5, <3>1, Zenon
    <3> QED BY <2>8, <2>11, <3>1, <3>2, Zenon
  <2>14. Of(n) # <<>> /\ Len(Of(n)) = Len(body[n].serial.parts) /\ body[n].serial.sep = ","
         /\ (\A i \in DOMAIN Of(n) : body[n].serial.parts[i] < 100)
         => \A i \in DOMAIN Of(n) : c[i].serial.whole.parts = <<body[n].serial.parts[i]>>
    BY <2>5, <2>6, Zenon DEF InList, row
  <2> HIDE DEF Of, At
  <2>15. \A i \in DOMAIN Of(n) : out[k + i].tag = Of(n)[i] BY <2>13, Zenon
  <2>16. Of(n) # <<>> /\ Len(Of(n)) = Len(body[n].serial.parts) /\ body[n].serial.sep = ","
         /\ (\A i \in DOMAIN Of(n) : body[n].serial.parts[i] < 100)
         => \A i \in DOMAIN Of(n) : out[k + i].serial.whole.parts = <<body[n].serial.parts[i]>>
    BY <2>13, <2>14, Zenon
  <2> QED BY <2>12, <2>15, <2>16, Zenon
<1>9. ASSUME NEW n \in DOMAIN rows, n \notin DOMAIN body PROVE At(n) = {}
  <2>1. head \in Seq(S) /\ ss \in Seq(Seq(S)) /\ Numbered(head, ss) BY <1>5, Zenon DEF Layout
  <2>2. n # 0 /\ n \notin 1..B BY <1>2, <1>3, <1>9
  <2> HIDE DEF body, head, ss
  <2> SUFFICES ASSUME NEW j \in DOMAIN out PROVE out[j].row # n OBVIOUS
  <2>3. PlacedBehind(out, head, ss, S) BY <1>6, <2>1, BehindHead, Zenon
  <2> HIDE DEF out
  <2>4. CASE j \in 1..Len(head)
    <3>1. out[j] = head[j] /\ j \in DOMAIN head
      <4>1. DOMAIN head = 1..Len(head) BY <2>1
      <4> QED BY <2>3, <2>4, <4>1, Zenon DEF PlacedBehind
    <3> QED BY <2>1, <2>2, <3>1, Zenon DEF Numbered
  <2>5. CASE j > Len(head)
    <3>1. PICK m \in DOMAIN ss : \E i \in DOMAIN ss[m] : out[j] = ss[m][i] BY <2>3, <2>5, Zenon DEF PlacedBehind
    <3>2. PICK i \in DOMAIN ss[m] : out[j] = ss[m][i] BY <3>1, Zenon
    <3>3. ss[m][i].row = m BY <2>1, <3>2, Zenon DEF Numbered
    <3> QED BY <1>7, <2>2, <3>2, <3>3, Zenon DEF ss, head, body
  <2>6. j \in 1..Len(head) \/ j > Len(head)
    <3>1. out \in Seq(S) BY <2>3, Zenon DEF PlacedBehind
    <3>2. j \in Nat \ {0} BY <3>1
    <3>3. Len(head) \in Nat BY <2>1
    <3> QED BY <3>2, <3>3
  <2> QED BY <2>4, <2>5, <2>6
<1> HIDE DEF At, Of, out, body, head, ss
<1>10. ASSUME NEW n \in DOMAIN rows
       PROVE  IF n \in DOMAIN body /\ (body[n].desc \/ body[n].part) /\ body[n].kind = "data"
              THEN \E k \in 0..Len(out) :
                     /\ At(n) = (k + 1)..(k + Max({Len(Of(n)), 1}))
                     /\ \A i \in DOMAIN Of(n) : out[k + i].tag = Of(n)[i]
                     /\ Of(n) # <<>> /\ Len(Of(n)) = Len(body[n].serial.parts) /\ body[n].serial.sep = ","
                        /\ (\A i \in DOMAIN Of(n) : body[n].serial.parts[i] < 100)
                        => \A i \in DOMAIN Of(n) : out[k + i].serial.whole.parts = <<body[n].serial.parts[i]>>
              ELSE n \in DOMAIN body \/ At(n) = {}
  BY <1>2, <1>8, <1>9, Zenon
<1> QED BY <1>10, Zenon DEF SparesReachTags, At, Of, out, body

\* The tag of a whole sheet appears once: GlobalTagOnce, for sheets that name each of their tags once.
THEOREM GlobalTagsAreOnce ==
  ASSUME NEW R, NEW rows \in Seq(R), NEW profile, IsList(rows, profile),
         \A i, j \in DOMAIN profile.global : profile.global[i] = profile.global[j] => i = j
  PROVE  GlobalTagOnce(rows, profile)
<1> DEFINE body == BeforeFooter(rows)
           out == Tabular(rows, profile)
           head == EquipmentRows(profile)
           ss == Chunks(body, profile)
           heads == {i \in DOMAIN out : out[i].row = 0}
           global == profile.global
<1> SUFFICES ASSUME profile.layout = "global_tag"
             PROVE  /\ \A i \in DOMAIN global :
                         \E h \in heads : out[h].tag = global[i] /\ \A j \in heads \ {h} : out[j].tag # out[h].tag
                    /\ \A i \in DOMAIN out \ heads : out[i].qty = 0 /\ \A h \in heads : h < i
  BY Zenon DEF GlobalTagOnce
<1>1. PICK B \in 0..Len(rows) : EndsBody(rows, B) BY BodyOf
<1>2. body \in Seq(R) /\ DOMAIN body = 1..B /\ \A m \in 1..B : body[m] = rows[m] BY <1>1, BodyRows, Zenon
<1>3. Len(rows) \in Nat /\ B \in Nat /\ DOMAIN rows = 1..Len(rows) /\ \A m \in 1..B : m \in 1..Len(rows) OBVIOUS
<1>4. IsList(body, profile) BY <1>2, <1>3, Zenon DEF IsList
<1>5. PICK S : Layout(head, ss, S) BY <1>2, <1>4, LayoutOf, Zenon
<1>6. head \in Seq(S) /\ ss \in Seq(Seq(S)) /\ Numbered(head, ss) BY <1>5, Zenon DEF Layout
<1>7. DOMAIN ss = 1..B BY <1>2, Zenon DEF Chunks
<1>8. PlacedBehind(out, head, ss, S) BY <1>6, BehindHead, TabularOf, Zenon
<1>9. PICK k \in Nat : /\ head = [i \in 1..k |-> head[i]]
                       /\ k = Len(global) /\ \A i \in 1..k : head[i].row = 0 /\ head[i].tag = global[i]
  <2>1. global \in Seq(Nat) BY Zenon DEF IsList
  <2> QED BY <2>1, EquipmentFirst, Zenon
<1>10. Len(head) = k /\ DOMAIN global = 1..k
  <2>1. \A q : q = [i \in 1..k |-> q[i]] => Len(q) = k OBVIOUS
  <2>2. global \in Seq(Nat) BY Zenon DEF IsList
  <2> HIDE DEF global
  <2>3. DOMAIN global = 1..Len(global) BY <2>2
  <2> QED BY <1>9, <2>1, <2>3, Zenon
<1>11. ASSUME NEW j \in DOMAIN out, j > k
       PROVE  out[j].row # 0 /\ out[j].qty = 0
  <2>1. PICK m \in DOMAIN ss : \E i \in DOMAIN ss[m] : out[j] = ss[m][i] BY <1>8, <1>10, <1>11, Zenon DEF PlacedBehind
  <2>2. PICK i \in DOMAIN ss[m] : out[j] = ss[m][i] BY <2>1, Zenon
  <2>3. ss[m][i].row = m BY <1>6, <2>2, Zenon DEF Numbered
  <2>4. m \in 1..B BY <1>7, <2>1, Zenon
  <2>5. m # 0 BY <2>4
  <2>6. ss[m] = IF Kept(body[m], profile.layout) THEN ExpandRow(body[m], profile, m) ELSE <<>>
    BY <1>2, <2>4, Zenon DEF Chunks
  <2>7. Kept(body[m], profile.layout)
    <3>1. DOMAIN <<>> = {} OBVIOUS
    <3> QED BY <2>2, <2>6, <3>1, Zenon
  <2>8. body[m].tags \in Seq(Nat) /\ body[m].serial.parts \in Seq(Nat) /\ profile.global \in Seq(Nat)
    BY <1>2, <1>4, <2>4, Zenon DEF IsList
  <2> HIDE DEF body, ss
  <2>9. OneForEach(ExpandRow(body[m], profile, m), body[m], profile, m) BY <2>8, RowsOfOne, Zenon
  <2>10. ss[m] = ExpandRow(body[m], profile, m) BY <2>6, <2>7, Zenon
  <2>11. OneForEach(ss[m], body[m], profile, m) BY <2>9, <2>10, Zenon
  <2>12. ss[m] = [l \in 1..Count(body[m], profile) |-> ss[m][l]] BY <2>11, Zenon DEF OneForEach
  <2>13. i \in 1..Count(body[m], profile) BY <2>2, <2>12, Zenon
  <2>14. ss[m][i].qty = 0 BY <2>11, <2>13, Zenon DEF OneForEach
  <2> QED BY <2>2, <2>3, <2>5, <2>14, Zenon
<1>12. \A j \in 1..k : j \in DOMAIN out /\ out[j].row = 0 /\ out[j].tag = global[j]
  BY <1>8, <1>9, <1>10, Zenon DEF PlacedBehind
<1>13. \A j \in DOMAIN out : j \in Nat /\ (j \in 1..k \/ j > k)
  <2>1. out \in Seq(S) BY <1>8, Zenon DEF PlacedBehind
  <2> HIDE DEF out
  <2>2. \A j \in DOMAIN out : j \in Nat \ {0} BY <2>1
  <2> QED BY <2>2, <1>9
<1> HIDE DEF out, global
<1>14. heads = 1..k BY <1>11, <1>12, <1>13, Zenon
<1> HIDE DEF heads
<1>15. ASSUME NEW i \in DOMAIN global
       PROVE  \E h \in heads : out[h].tag = global[i] /\ \A j \in heads \ {h} : out[j].tag # out[h].tag
  <2>1. i \in heads BY <1>10, <1>14, Zenon
  <2>2. \A j \in heads : j \in DOMAIN global /\ out[j].tag = global[j] BY <1>10, <1>12, <1>14, Zenon
  <2>3. \A j \in DOMAIN global : global[j] = global[i] => j = i BY Zenon DEF global
  <2>4. out[i].tag = global[i] BY <2>1, <2>2, Zenon
  <2>5. ASSUME NEW j \in heads \ {i} PROVE out[j].tag # out[i].tag
    <3>1. j \in heads /\ j # i OBVIOUS
    <3>2. out[j].tag = global[j] /\ j \in DOMAIN global BY <2>2, <3>1, Zenon
    <3> QED BY <2>3, <2>4, <3>1, <3>2, Zenon
  <2> QED BY <2>1, <2>4, <2>5, Zenon
<1>16. ASSUME NEW i \in DOMAIN out \ heads PROVE out[i].qty = 0 /\ \A h \in heads : h < i
  <2>1. i \in DOMAIN out /\ i \notin 1..k BY <1>14, Zenon
  <2>2. i \in Nat /\ i > k BY <1>13, <2>1, Zenon
  <2>3. out[i].qty = 0 BY <1>11, <2>1, <2>2, Zenon
  <2>4. \A h \in 1..k : h < i BY <1>9, <2>2
  <2> QED BY <1>14, <2>3, <2>4, Zenon
<1> QED BY <1>15, <1>16 DEF global

-----------------------------------------------------------------------------
(* Sheets read by the labels of their rows *)

\* A run of the rows of a sheet: all of them between shift and shift + n.
IsCut(cut, rows, shift, n, R) ==
  /\ cut \in Seq(R) /\ Len(cut) = n /\ DOMAIN cut = 1..n
  /\ \A i \in 1..n : cut[i] = rows[shift + i]

LEMMA CutRows ==
  ASSUME NEW R, NEW rows \in Seq(R), NEW a \in Nat, NEW b \in Nat, a <= b + 1, 1 <= a, b <= Len(rows)
  PROVE  IsCut(SubSeq(rows, a, b), rows, a - 1, b - (a - 1), R)
<1> DEFINE cut == SubSeq(rows, a, b)
           n == b - (a - 1)
<1>1. a \in Int /\ b \in Int /\ n \in Nat OBVIOUS
<1>2. \A i \in a..b : rows[i] \in R OBVIOUS
<1>3. /\ cut \in Seq(R) /\ Len(cut) = IF a <= b THEN b - a + 1 ELSE 0
      /\ \A i \in 1..(b - a + 1) : cut[i] = rows[a + i - 1]
  BY <1>1, <1>2, SubSeqProperties
<1> HIDE DEF cut
<1>4. Len(cut) = n /\ DOMAIN cut = 1..n BY <1>1, <1>3
<1>5. ASSUME NEW i \in 1..n PROVE cut[i] = rows[a - 1 + i]
  <2>1. i \in 1..(b - a + 1) /\ a + i - 1 = a - 1 + i OBVIOUS
  <2>2. cut[i] = rows[a + i - 1] BY <1>3, <2>1
  <2> QED BY <2>1, <2>2, Zenon
<1> QED BY <1>3, <1>4, <1>5, Zenon DEF IsCut, cut, n

\* The rows with a label down to a row, the tags of that row, and the output rows it becomes.
LabelRows(rows, n) == {m \in 1..n : rows[m].label # <<>>}
LabelTags(rows, n) == IF LabelRows(rows, n) # {} THEN rows[Max(LabelRows(rows, n))].label ELSE rows[n].tags
Block(rows, n) ==
  IF rows[n].desc \/ rows[n].part
  THEN LET tags == IF LabelTags(rows, n) = <<>> THEN <<0>> ELSE LabelTags(rows, n)
       IN [i \in DOMAIN tags |-> [tag |-> tags[i], item |-> rows[n].item]]
  ELSE <<>>

HasLabels(rows) == \A n \in DOMAIN rows : rows[n].label \in Seq(Nat) /\ rows[n].tags \in Seq(Nat)

\* The last row with a label is a row above.
LEMMA LastLabel ==
  ASSUME NEW rows, NEW n \in Nat, LabelRows(rows, n) # {}
  PROVE  Max(LabelRows(rows, n)) \in LabelRows(rows, n) /\ \A m \in LabelRows(rows, n) : m <= Max(LabelRows(rows, n))
<1> DEFINE above == LabelRows(rows, n)
<1>1. above \in SUBSET Nat /\ \A m \in above : m <= n BY DEF LabelRows
<1> HIDE DEF above
<1>2. \E b \in Nat : \A m \in above : m <= b BY <1>1
<1>3. above # {} BY DEF above
<1>4. Max(above) \in above /\ \A m \in above : m <= Max(above) BY <1>1, <1>2, <1>3, Chosen
<1> QED BY <1>4, Zenon DEF above

LEMMA BlockIsSeq ==
  ASSUME NEW R, NEW rows \in Seq(R), HasLabels(rows), NEW n \in DOMAIN rows
  PROVE  \E m \in Nat : Block(rows, n) = [i \in 1..m |-> Block(rows, n)[i]]
<1> DEFINE tags == IF LabelTags(rows, n) = <<>> THEN <<0>> ELSE LabelTags(rows, n)
<1>1. LabelTags(rows, n) \in Seq(Nat)
  <2>1. n \in Nat /\ DOMAIN rows = 1..Len(rows) /\ Len(rows) \in Nat OBVIOUS
  <2>2. CASE LabelRows(rows, n) # {}
    <3>1. Max(LabelRows(rows, n)) \in 1..n BY <2>1, <2>2, LastLabel, Zenon DEF LabelRows
    <3>2. \A m \in 1..n : m \in DOMAIN rows BY <2>1
    <3>3. rows[Max(LabelRows(rows, n))].label \in Seq(Nat) BY <3>1, <3>2, Zenon DEF HasLabels
    <3> QED BY <2>2, <3>3, Zenon DEF LabelTags
  <2>3. CASE LabelRows(rows, n) = {} BY <2>3, Zenon DEF LabelTags, HasLabels
  <2> QED BY <2>2, <2>3
<1>2. tags \in Seq(Nat)
  <2>1. <<0>> \in Seq(Nat) OBVIOUS
  <2> QED BY <1>1, <2>1
<1> HIDE DEF tags
<1>3. DOMAIN tags = 1..Len(tags) /\ Len(tags) \in Nat BY <1>2
<1>4. CASE rows[n].desc \/ rows[n].part
  <2>1. Block(rows, n) = [i \in DOMAIN tags |-> [tag |-> tags[i], item |-> rows[n].item]] BY <1>4, Zenon DEF Block, tags
  <2>2. Block(rows, n) = [i \in 1..Len(tags) |-> [tag |-> tags[i], item |-> rows[n].item]] BY <1>3, <2>1, Zenon
  <2> DEFINE out == Block(rows, n)
  <2> HIDE DEF out
  <2>3. out = [i \in 1..Len(tags) |-> out[i]]
    <3>1. out = [i \in 1..Len(tags) |-> [tag |-> tags[i], item |-> rows[n].item]] BY <2>2, Zenon DEF out
    <3> QED BY <3>1
  <2> QED BY <1>3, <2>3, Zenon DEF out
<1>5. CASE ~(rows[n].desc \/ rows[n].part)
  <2>1. Block(rows, n) = <<>> BY <1>5, Zenon DEF Block
  <2>2. <<>> = [i \in 1..0 |-> <<>>[i]] /\ 0 \in Nat OBVIOUS
  <2> QED BY <2>1, <2>2, Zenon
<1> QED BY <1>4, <1>5

\* A row reads the same as long as what is above it is the same, or starts with a label.
LEMMA BlockBelow ==
  ASSUME NEW a, NEW b, NEW d \in Nat, NEW n \in Nat \ {0}, \A m \in 1..n : a[m] = b[d + m],
         d = 0 \/ a[1].label # <<>>
  PROVE  Block(a, n) = Block(b, d + n)
<1> DEFINE A == LabelRows(a, n)
           C == LabelRows(b, d + n)
<1>1. \A m \in 1..n : m \in A <=> d + m \in C
  <2> SUFFICES ASSUME NEW m \in 1..n PROVE m \in A <=> d + m \in C OBVIOUS
  <2>1. d + m \in 1..(d + n) OBVIOUS
  <2>2. a[m] = b[d + m] OBVIOUS
  <2> QED BY <2>1, <2>2, Zenon DEF LabelRows
<1>2. A \in SUBSET (1..n) /\ C \in SUBSET (1..(d + n)) BY Zenon DEF LabelRows
<1>3. n \in 1..n /\ 1 \in 1..n OBVIOUS
<1>4. a[n] = b[d + n] BY <1>3, Zenon
<1>5. d # 0 => 1 \in A BY <1>3, Zenon DEF LabelRows
<1> HIDE DEF A, C
<1>6. LabelTags(a, n) = LabelTags(b, d + n)
  <2>1. CASE A = {}
    <3>1. d = 0 BY <1>5, <2>1
    <3>2. C = {}
      <4> SUFFICES ASSUME NEW m \in C PROVE FALSE BY Zenon
      <4>1. m \in 1..n /\ d + m = m BY <1>2, <3>1
      <4> QED BY <1>1, <2>1, <4>1, Zenon
    <3> QED BY <1>4, <2>1, <3>2, Zenon DEF LabelTags, A, C
  <2>2. CASE A # {}
    <3> DEFINE x1 == Max(A)
               y1 == Max(C)
    <3>1. x1 \in A /\ \A m \in A : m <= x1 BY <2>2, LastLabel, Zenon DEF A
    <3>2. C # {} BY <1>1, <1>2, <3>1, Zenon
    <3>3. d + n \in Nat OBVIOUS
    <3>4. y1 \in C /\ \A m \in C : m <= y1 BY <3>2, <3>3, LastLabel, Zenon DEF C
    <3> HIDE DEF x1, y1
    <3>5. x1 \in 1..n /\ d + x1 \in C BY <1>1, <1>2, <3>1, Zenon
    <3>6. d + x1 <= y1 BY <3>4, <3>5, Zenon
    <3>7. y1 - d \in 1..n /\ d + (y1 - d) = y1
      <4>1. y1 \in 1..(d + n) BY <1>2, <3>4, Zenon
      <4> QED BY <3>5, <3>6, <4>1
    <3>8. y1 - d \in A BY <1>1, <3>4, <3>7, Zenon
    <3>9. y1 - d <= x1 BY <3>1, <3>8, Zenon
    <3>10. y1 = d + x1
      <4>1. y1 \in Nat
        <5>1. y1 \in 1..(d + n) BY <1>2, <3>4, Zenon
        <5> QED BY <5>1
      <4> QED BY <3>5, <3>6, <3>9, <4>1
    <3>11. a[x1] = b[y1] BY <3>5, <3>10, Zenon
    <3>12. LabelTags(a, n) = a[x1].label BY <2>2, Zenon DEF LabelTags, A, x1
    <3>13. LabelTags(b, d + n) = b[y1].label BY <3>2, Zenon DEF LabelTags, C, y1
    <3> QED BY <3>11, <3>12, <3>13, Zenon
  <2> QED BY <2>1, <2>2
<1> QED BY <1>4, <1>6, Zenon DEF Block

\* Rows that are alike down to one are read alike there.
LEMMA BlockAlike ==
  ASSUME NEW a, NEW b, NEW n \in Nat \ {0}, Alike(a, b, n)
  PROVE  Block(a, n) = Block(b, n)
<1> DEFINE d == 0
<1>1. d \in Nat /\ (d = 0 \/ a[1].label # <<>>) OBVIOUS
<1>2. d + n = n /\ \A m \in 1..n : d + m = m OBVIOUS
<1> HIDE DEF d
<1>3. \A m \in 1..n : a[m] = b[d + m] BY <1>2, Zenon DEF Alike
<1>4. Block(a, n) = Block(b, d + n) BY <1>1, <1>3, BlockBelow, Zenon
<1> QED BY <1>2, <1>4, Zenon

\* What is read of a sheet: the blocks above its footer.
Blocks(rows, n) == [m \in 1..n |-> Block(rows, m)]

LEMMA TransposedOf ==
  ASSUME NEW R, NEW rows \in Seq(R), NEW B \in 0..Len(rows), EndsBody(rows, B)
  PROVE  Transposed(rows) = FlattenSeq(Blocks(rows, B))
<1> DEFINE body == BeforeFooter(rows)
<1>1. B \in Nat OBVIOUS
<1>2. DOMAIN body = 1..B /\ \A m \in 1..B : body[m] = rows[m] BY BodyRows, Zenon
<1>3. Transposed(rows) = FlattenSeq([m \in DOMAIN body |-> Block(body, m)])
  BY Zenon DEF Transposed, Block, LabelTags, LabelRows
<1> HIDE DEF body
<1>4. ASSUME NEW m \in 1..B PROVE Block(body, m) = Block(rows, m)
  <2>1. m \in Nat \ {0} BY <1>1
  <2>2. \A l \in 1..m : l \in 1..B BY <1>1
  <2>3. Alike(body, rows, m) BY <1>2, <2>2, Zenon DEF Alike
  <2> QED BY <2>1, <2>3, BlockAlike, Zenon
<1>5. [m \in DOMAIN body |-> Block(body, m)] = Blocks(rows, B) BY <1>2, <1>4, Zenon DEF Blocks
<1> QED BY <1>3, <1>5, Zenon

LEMMA BlocksAreSeqs ==
  ASSUME NEW R, NEW rows \in Seq(R), HasLabels(rows), NEW n \in 0..Len(rows)
  PROVE  \E S : Blocks(rows, n) \in Seq(Seq(S))
<1> DEFINE ss == Blocks(rows, n)
<1>1. n \in Nat /\ \A m \in 1..n : m \in DOMAIN rows OBVIOUS
<1>2. \A m \in 1..n : ss[m] = Block(rows, m) BY Zenon DEF Blocks
<1>3. ss = [m \in 1..n |-> ss[m]] BY <1>2, Zenon DEF Blocks
<1> HIDE DEF ss
<1>4. ASSUME NEW m \in 1..n PROVE \E l \in Nat : ss[m] = [i \in 1..l |-> ss[m][i]]
  <2>1. m \in DOMAIN rows BY <1>1, Zenon
  <2>2. PICK l \in Nat : Block(rows, m) = [i \in 1..l |-> Block(rows, m)[i]] BY <2>1, BlockIsSeq, Zenon
  <2> QED BY <1>2, <2>2, Zenon
<1>5. \E S : ss \in Seq(Seq(S)) BY <1>1, <1>3, <1>4, NestedSeq, Zenon
<1> QED BY <1>5, Zenon DEF ss

\* Sequences of blocks that make up another one.
MakeUp(a, b, ss, m, k) ==
  /\ m \in Nat /\ k \in Nat /\ m + k = Len(ss)
  /\ a = [i \in 1..m |-> a[i]] /\ b = [i \in 1..k |-> b[i]]
  /\ \A i \in 1..m : a[i] = ss[i]
  /\ \A i \in 1..k : b[i] = ss[m + i]

Halved(ss, a, b, S) ==
  /\ FlattenSeq(a) \in Seq(S) /\ FlattenSeq(b) \in Seq(S)
  /\ FlattenSeq(ss) = FlattenSeq(a) \o FlattenSeq(b)

LEMMA FlattenCut ==
  ASSUME NEW S, NEW ss \in Seq(Seq(S)), NEW m, NEW k, NEW a, NEW b, MakeUp(a, b, ss, m, k)
  PROVE  Halved(ss, a, b, S)
<1>0. /\ m \in Nat /\ k \in Nat /\ m + k = Len(ss)
      /\ a = [i \in 1..m |-> a[i]] /\ b = [i \in 1..k |-> b[i]]
      /\ \A i \in 1..m : a[i] = ss[i]
      /\ \A i \in 1..k : b[i] = ss[m + i]
  BY Zenon DEF MakeUp
<1> DEFINE T == Seq(S)
<1>1. \A i \in 1..(m + k) : ss[i] \in T
  <2>1. DOMAIN ss = 1..(m + k) BY <1>0
  <2>2. \A i \in DOMAIN ss : ss[i] \in T OBVIOUS
  <2> QED BY <2>1, <2>2, Zenon
<1>2. ss \in Seq(T) OBVIOUS
<1> HIDE DEF T
<1>3. /\ \A i \in 1..m : i \in 1..(m + k)
      /\ \A i \in 1..k : m + i \in 1..(m + k)
  BY <1>0
<1>4. (\A i \in 1..m : a[i] \in T) /\ (\A i \in 1..k : b[i] \in T) BY <1>0, <1>1, <1>3, Zenon
<1>5. a \in [1..m -> T] /\ b \in [1..k -> T]
  <2>1. a = [i \in 1..m |-> a[i]] /\ b = [i \in 1..k |-> b[i]] BY <1>0, Zenon
  <2> QED BY <1>4, <2>1
<1>6. a \in Seq(T) /\ b \in Seq(T) /\ Len(a) = m /\ Len(b) = k
  <2>1. m \in Nat /\ k \in Nat BY <1>0, Zenon
  <2> QED BY <1>5, <2>1
<1>7. a \o b \in Seq(T) /\ JoinOf(a \o b, a, b) BY <1>6, JoinAt, Zenon
<1> DEFINE c == a \o b
<1>8. c \in Seq(T) BY <1>7
<1> HIDE DEF c
<1>9. Len(c) = m + k /\ (\A i \in 1..m : c[i] = a[i]) /\ (\A i \in 1..k : c[m + i] = b[i])
  BY <1>6, <1>7, Zenon DEF JoinOf, c
<1>10. ASSUME NEW i \in 1..(m + k) PROVE c[i] = ss[i]
  <2>1. CASE i <= m
    <3>1. i \in 1..m BY <1>0, <2>1
    <3> QED BY <1>0, <1>9, <3>1, Zenon
  <2>2. CASE i > m
    <3>1. i - m \in 1..k /\ m + (i - m) = i BY <1>0, <2>2
    <3>2. c[m + (i - m)] = b[i - m] /\ b[i - m] = ss[m + (i - m)] BY <1>0, <1>9, <3>1, Zenon
    <3> QED BY <3>1, <3>2, Zenon
  <2>3. i <= m \/ i > m BY <1>0
  <2> QED BY <2>1, <2>2, <2>3
<1>11. c = ss
  <2>1. Len(c) = Len(ss) /\ \A i \in 1..Len(c) : c[i] = ss[i] BY <1>0, <1>9, <1>10, Zenon
  <2> QED BY <1>2, <1>8, <2>1, SeqEqual, Zenon
<1>12. /\ FlattenSeq(a) \in Seq(S) /\ FlattenSeq(b) \in Seq(S)
       /\ FlattenSeq(a \o b) = FlattenSeq(a) \o FlattenSeq(b)
  BY <1>6, FlattenHalves, Zenon DEF T
<1> QED BY <1>11, <1>12, Zenon DEF Halved, c

LEMMA PrefixOfJoin ==
  ASSUME NEW S, NEW a \in Seq(S), NEW b \in Seq(S)
  PROVE  IsPrefix(a, a \o b)
<1> DEFINE c == a \o b
<1>1. c \in Seq(S) /\ Len(c) = Len(a) + Len(b) /\ Len(a) \in Nat /\ Len(b) \in Nat /\ \A i \in 1..Len(a) : c[i] = a[i]
  OBVIOUS
<1> HIDE DEF c
<1>2. Len(a) <= Len(c) /\ Len(a) <= Len(a) /\ 1 <= Len(a) + 1 /\ 1 \in Nat BY <1>1
<1>3. IsCut(SubSeq(c, 1, Len(a)), c, 1 - 1, Len(a) - (1 - 1), S) BY <1>1, <1>2, CutRows
<1>4. IsCut(SubSeq(a, 1, Len(a)), a, 1 - 1, Len(a) - (1 - 1), S) BY <1>1, <1>2, CutRows
<1> DEFINE l == Len(a) - (1 - 1)
           p == SubSeq(c, 1, Len(a))
           q == SubSeq(a, 1, Len(a))
<1>5. l = Len(a) /\ \A i \in 1..l : 1 - 1 + i = i /\ c[i] = a[i] BY <1>1
<1> HIDE DEF l, p, q
<1>6. p \in Seq(S) /\ q \in Seq(S) /\ Len(p) = l /\ Len(q) = l
      /\ (\A i \in 1..l : p[i] = c[1 - 1 + i]) /\ (\A i \in 1..l : q[i] = a[1 - 1 + i])
  BY <1>3, <1>4, Zenon DEF IsCut, l, p, q
<1>7. \A i \in 1..Len(p) : p[i] = q[i] BY <1>5, <1>6, Zenon
<1>8. p = q BY <1>6, <1>7, SeqEqual, Zenon
<1> QED BY <1>2, <1>8, Zenon DEF IsPrefix, c, p, q

\* What is read downwards is not read again: ReadDownwards, for any rows with labels.
THEOREM ReadsDownwards ==
  ASSUME NEW R, NEW rows \in Seq(R), HasLabels(rows)
  PROVE  ReadDownwards(rows)
<1> DEFINE Read(a, b) == Transposed(SubSeq(rows, a, b))
           whole == Transposed(rows)
           N == Len(rows)
<1>1. N \in Nat /\ DOMAIN rows = 1..N OBVIOUS
<1>2. PICK B \in 0..N : EndsBody(rows, B) BY BodyOf
<1>3. B \in Nat /\ B <= N BY <1>1
<1>4. (\A m \in 1..B : rows[m].kind # "footer") /\ (B = N \/ rows[B + 1].kind = "footer")
  BY <1>2, Zenon DEF EndsBody
<1>5. PICK S : Blocks(rows, B) \in Seq(Seq(S)) BY <1>2, BlocksAreSeqs
<1> DEFINE ss == Blocks(rows, B)
<1>6. ss = [m \in 1..B |-> Block(rows, m)] BY Zenon DEF Blocks
<1>7. whole = FlattenSeq(ss) BY <1>2, TransposedOf, Zenon
<1>8. Len(ss) = B
  <2> HIDE DEF ss
  <2>1. \A q : q = [m \in 1..B |-> q[m]] => Len(q) = B BY <1>3
  <2>2. ss = [m \in 1..B |-> ss[m]]
    <3>1. \A m \in 1..B : ss[m] = Block(rows, m) BY <1>6, Zenon
    <3> QED BY <1>6, <3>1, Zenon
  <2> QED BY <2>1, <2>2, Zenon
<1> HIDE DEF ss, whole
<1>9. \A m \in 1..B : ss[m] = Block(rows, m) BY <1>6, Zenon
<1>10. ASSUME NEW n \in 1..N
       PROVE  \E C \in Nat : /\ C <= B /\ (C < n => C = B)
                             /\ Read(1, n) = FlattenSeq(Blocks(rows, C))
  <2> DEFINE cut == SubSeq(rows, 1, n)
  <2>1. IsCut(cut, rows, 0, n, R)
    <3>1. n \in Nat /\ 1 \in Nat /\ 1 <= n + 1 /\ 1 <= 1 /\ n <= Len(rows) /\ 1 - 1 = 0 /\ n - (1 - 1) = n BY <1>1
    <3>2. IsCut(cut, rows, 1 - 1, n - (1 - 1), R) BY <3>1, CutRows, Zenon
    <3> QED BY <3>1, <3>2, Zenon
  <2>2. \A m \in 1..n : 0 + m = m /\ m \in 1..N BY <1>1
  <2> HIDE DEF cut
  <2>3. cut \in Seq(R) /\ Len(cut) = n /\ \A m \in 1..n : cut[m] = rows[m] BY <2>1, <2>2, Zenon DEF IsCut
  <2>4. PICK C \in 0..Len(cut) : EndsBody(cut, C) BY <2>3, BodyOf, Zenon
  <2>5. C \in Nat /\ C <= n /\ \A m \in 1..C : m \in 1..n /\ m \in Nat \ {0} BY <2>3, <2>4
  <2>6. (\A m \in 1..C : rows[m].kind # "footer") /\ (C = n \/ cut[C + 1].kind = "footer")
    BY <2>3, <2>4, <2>5, Zenon DEF EndsBody
  <2>7. C <= B
    <3> SUFFICES ASSUME ~(C <= B) PROVE FALSE OBVIOUS
    <3>1. B + 1 \in 1..C /\ B # N
      <4>1. n <= N BY <1>1
      <4> HIDE DEF N
      <4> QED BY <1>1, <1>3, <2>5, <4>1
    <3> QED BY <1>4, <2>6, <3>1, Zenon
  <2>8. C < n => C = B
    <3> SUFFICES ASSUME C < n, C # B PROVE FALSE OBVIOUS
    <3>1. C + 1 \in 1..B /\ C + 1 \in 1..n /\ C # n BY <1>3, <2>5, <2>7
    <3> QED BY <1>4, <2>3, <2>6, <3>1, Zenon
  <2>9. ASSUME NEW m \in 1..C PROVE Block(cut, m) = Block(rows, m)
    <3>1. m \in Nat \ {0} BY <2>5
    <3>2. \A l \in 1..m : l \in 1..n BY <2>5
    <3>3. Alike(cut, rows, m) BY <2>3, <3>2, Zenon DEF Alike
    <3> QED BY <3>1, <3>3, BlockAlike, Zenon
  <2>10. Blocks(cut, C) = Blocks(rows, C) BY <2>9, Zenon DEF Blocks
  <2>11. Transposed(cut) = FlattenSeq(Blocks(cut, C)) BY <2>3, <2>4, TransposedOf, Zenon
  <2> QED BY <2>5, <2>7, <2>8, <2>10, <2>11, Zenon DEF cut
<1>11. ASSUME NEW n \in 1..N PROVE IsPrefix(Read(1, n), whole)
  <2>1. PICK C \in Nat : C <= B /\ Read(1, n) = FlattenSeq(Blocks(rows, C)) BY <1>10, Zenon
  <2> DEFINE a == Blocks(rows, C)
             k == B - C
             b == [m \in 1..k |-> ss[C + m]]
  <2>2. k \in Nat /\ C + k = Len(ss) /\ \A m \in 1..C : m \in 1..B BY <1>3, <1>8, <2>1
  <2>3. \A m \in 1..C : a[m] = ss[m] BY <1>9, <2>2, Zenon DEF Blocks
  <2>4. a = [m \in 1..C |-> a[m]]
    <3>1. a = [m \in 1..C |-> Block(rows, m)] BY Zenon DEF Blocks
    <3> HIDE DEF a
    <3>2. \A m \in 1..C : a[m] = Block(rows, m) BY <3>1, Zenon
    <3> QED BY <3>1, <3>2, Zenon
  <2>5. b = [m \in 1..k |-> b[m]] /\ \A m \in 1..k : b[m] = ss[C + m]
    <3>1. \A m \in 1..k : b[m] = ss[C + m] BY Zenon
    <3> QED BY <3>1, Zenon
  <2>6. ss \in Seq(Seq(S)) BY <1>5, Zenon DEF ss
  <2> HIDE DEF a, b, k
  <2>7. FlattenSeq(a) \in Seq(S) /\ FlattenSeq(b) \in Seq(S) /\ FlattenSeq(ss) = FlattenSeq(a) \o FlattenSeq(b)
    <3>1. C \in Nat BY <2>1, Zenon
    <3>2. MakeUp(a, b, ss, C, k) BY <2>2, <2>3, <2>4, <2>5, <3>1, Zenon DEF MakeUp
    <3>3. Halved(ss, a, b, S) BY <2>6, <3>2, FlattenCut, Zenon
    <3> QED BY <3>3, Zenon DEF Halved
  <2>8. IsPrefix(FlattenSeq(a), FlattenSeq(a) \o FlattenSeq(b)) BY <2>7, PrefixOfJoin, Zenon
  <2> QED BY <1>7, <2>1, <2>7, <2>8, Zenon DEF a
<1>12. ASSUME NEW n \in 1..N, rows[n].label # <<>>, \A m \in 1..(n - 1) : rows[m].kind # "footer"
       PROVE  whole = Read(1, n - 1) \o Read(n, N)
  <2> DEFINE d == n - 1
             e == N - d
             k == B - d
             up == SubSeq(rows, 1, d)
             down == SubSeq(rows, n, N)
  <2>1. d \in Nat /\ d < N /\ e \in Nat /\ d + e = N /\ \A m \in 1..d : m \in 1..N BY <1>1
  <2>2. d <= B
    <3> SUFFICES ASSUME ~(d <= B) PROVE FALSE OBVIOUS
    <3>1. B + 1 \in 1..(n - 1) /\ B # N BY <1>3, <2>1
    <3> QED BY <1>4, <1>12, <3>1, Zenon
  <2>3. k \in Nat /\ d + k = B /\ k <= e BY <1>3, <2>1, <2>2
  <2>4. up \in Seq(R) /\ Len(up) = d /\ \A m \in 1..d : up[m] = rows[m]
    <3>1. 1 \in Nat /\ 1 <= d + 1 /\ 1 <= 1 /\ d <= Len(rows) /\ 1 - 1 = 0 /\ d - (1 - 1) = d /\ \A m \in 1..d : 0 + m = m
      BY <2>1
    <3> HIDE DEF d, N
    <3>2. IsCut(up, rows, 1 - 1, d - (1 - 1), R) BY <2>1, <3>1, CutRows, Zenon
    <3>3. IsCut(up, rows, 0, d, R) BY <3>1, <3>2, Zenon
    <3> HIDE DEF up
    <3> QED BY <3>1, <3>3, Zenon DEF IsCut
  <2>5. down \in Seq(R) /\ Len(down) = e /\ \A m \in 1..e : down[m] = rows[d + m]
    <3>1. n \in Nat /\ n <= N + 1 /\ 1 <= n /\ N <= Len(rows) /\ N \in Nat BY <1>1
    <3>2. IsCut(down, rows, n - 1, N - (n - 1), R) BY <3>1, CutRows, Zenon
    <3> HIDE DEF down
    <3> QED BY <3>2, Zenon DEF IsCut
  <2> HIDE DEF up, down
  <2>6. Transposed(up) = FlattenSeq(Blocks(rows, d))
    <3>1. PICK C \in 0..Len(up) : EndsBody(up, C) BY <2>4, BodyOf, Zenon
    <3>2. C = d
      <4> SUFFICES ASSUME C # d PROVE FALSE OBVIOUS
      <4>1. C + 1 \in 1..d /\ C + 1 \in 1..(n - 1) /\ C # Len(up)
        <5>1. Len(up) = d /\ C \in 0..Len(up) BY <2>4, <3>1, Zenon
        <5>2. C \in 0..d /\ C # d BY <5>1, Zenon
        <5>3. \A D \in Nat : \A j \in 0..D : j # D => j + 1 \in 1..D OBVIOUS
        <5>4. C + 1 \in 1..d BY <2>1, <5>2, <5>3, Zenon
        <5> QED BY <5>1, <5>2, <5>4, Zenon
      <4>2. up[C + 1].kind = "footer" BY <3>1, <4>1, Zenon DEF EndsBody
      <4> QED BY <1>12, <2>4, <4>1, <4>2, Zenon
    <3>3. ASSUME NEW m \in 1..d PROVE Block(up, m) = Block(rows, m)
      <4>1. m \in Nat \ {0} BY <2>1
      <4>2. \A l \in 1..m : l \in 1..d BY <2>1
      <4> HIDE DEF d
      <4>3. Alike(up, rows, m) BY <2>4, <4>2, Zenon DEF Alike
      <4> QED BY <4>1, <4>3, BlockAlike, Zenon
    <3> HIDE DEF d
    <3>4. Blocks(up, d) = Blocks(rows, d) BY <3>3, Zenon DEF Blocks
    <3>5. Transposed(up) = FlattenSeq(Blocks(up, C)) BY <2>4, <3>1, TransposedOf, Zenon
    <3> QED BY <3>2, <3>4, <3>5, Zenon
  <2>7. PICK C \in 0..Len(down) : EndsBody(down, C) BY <2>5, BodyOf, Zenon
  <2>8. C \in Nat /\ C <= e /\ \A m \in 1..C : m \in 1..e BY <2>1, <2>5, <2>7
  <2>9. (\A m \in 1..C : rows[d + m].kind # "footer") /\ (C = e \/ down[C + 1].kind = "footer")
    <3> HIDE DEF d, e
    <3> QED BY <2>5, <2>7, <2>8, Zenon DEF EndsBody
  <2> HIDE DEF e, k
  <2>10. C = k
    <3>1. CASE C < k
      <4>1. C + 1 \in 1..e /\ d + (C + 1) \in 1..B /\ C # e BY <2>1, <2>3, <2>8, <3>1
      <4> HIDE DEF d
      <4>2. down[C + 1] = rows[d + (C + 1)] BY <2>5, <4>1, Zenon
      <4> QED BY <1>4, <2>9, <4>1, <4>2, Zenon
    <3>2. CASE C > k
      <4>1. k + 1 \in 1..C /\ d + (k + 1) = B + 1 /\ B # N BY <1>3, <2>1, <2>3, <2>8, <3>2
      <4> HIDE DEF d
      <4>2. rows[d + (k + 1)].kind # "footer" BY <2>9, <4>1, Zenon
      <4> QED BY <1>4, <4>1, <4>2, Zenon
    <3> QED BY <2>3, <2>8, <3>1, <3>2
  <2>11. ASSUME NEW m \in 1..k PROVE Block(down, m) = Block(rows, d + m)
    <3>1. m \in Nat \ {0} /\ d + 1 = n /\ 1 \in 1..e BY <2>1, <2>3
    <3>2. \A l \in 1..m : l \in 1..e
      <4> HIDE DEF d, N
      <4>1. k \in Nat /\ e \in Nat /\ k <= e BY <2>1, <2>3, Zenon
      <4> QED BY <4>1
    <3> HIDE DEF d
    <3>3. \A l \in 1..m : down[l] = rows[d + l] BY <2>5, <3>2, Zenon
    <3>4. down[1].label # <<>> BY <1>12, <2>5, <3>1, Zenon
    <3> QED BY <2>1, <3>1, <3>3, <3>4, BlockBelow, Zenon
  <2> HIDE DEF d
  <2> DEFINE a == Blocks(rows, d)
             b == Blocks(down, k)
  <2>12. Transposed(down) = FlattenSeq(b) BY <2>5, <2>7, <2>10, TransposedOf, Zenon
  <2>13. \A m \in 1..d : a[m] = ss[m]
    <3>1. \A m \in 1..d : m \in 1..B BY <1>3, <2>1, <2>2
    <3> QED BY <1>9, <3>1, Zenon DEF Blocks
  <2>14. \A m \in 1..k : b[m] = ss[d + m]
    <3>1. \A m \in 1..k : d + m \in 1..B BY <1>3, <2>1, <2>3
    <3> QED BY <1>9, <2>11, <3>1, Zenon DEF Blocks
  <2>15. a = [m \in 1..d |-> a[m]]
    <3>1. a = [m \in 1..d |-> Block(rows, m)] BY Zenon DEF Blocks
    <3> HIDE DEF a
    <3>2. \A m \in 1..d : a[m] = Block(rows, m) BY <3>1, Zenon
    <3> QED BY <3>1, <3>2, Zenon
  <2>16. b = [m \in 1..k |-> b[m]]
    <3>1. b = [m \in 1..k |-> Block(down, m)] BY Zenon DEF Blocks
    <3> HIDE DEF b
    <3>2. \A m \in 1..k : b[m] = Block(down, m) BY <3>1, Zenon
    <3> QED BY <3>1, <3>2, Zenon
  <2>17. ss \in Seq(Seq(S)) BY <1>5, Zenon DEF ss
  <2>18. d + k = Len(ss) BY <1>8, <2>3, Zenon
  <2> HIDE DEF a, b
  <2>19. FlattenSeq(ss) = FlattenSeq(a) \o FlattenSeq(b)
    <3>1. d \in Nat /\ k \in Nat BY <2>1, <2>3, Zenon
    <3>2. MakeUp(a, b, ss, d, k) BY <2>13, <2>14, <2>15, <2>16, <2>18, <3>1, Zenon DEF MakeUp
    <3>3. Halved(ss, a, b, S) BY <2>17, <3>2, FlattenCut, Zenon
    <3> QED BY <3>3, Zenon DEF Halved
  <2>20. whole = Transposed(up) \o Transposed(down) BY <1>7, <2>6, <2>12, <2>19, Zenon DEF a
  <2> QED BY <2>20, Zenon DEF up, down, d
<1>13. \A n \in DOMAIN rows : /\ IsPrefix(Read(1, n), whole)
                              /\ rows[n].label # <<>> /\ (\A m \in 1..(n - 1) : rows[m].kind # "footer")
                                   => whole = Read(1, n - 1) \o Read(n, N)
  BY <1>1, <1>11, <1>12, Zenon
<1> QED BY <1>13, Zenon DEF ReadDownwards, whole

-----------------------------------------------------------------------------
(* The sheets that are shown *)

\* The loop over the sheets, round by round.
Showing(book, g) ==
  g = [n \in 0..Len(book) |-> IF n = 0 THEN <<>>
                              ELSE IF book[n].visible THEN Append(g[n - 1], book[n]) ELSE g[n - 1]]

LEMMA ShowingExists ==
  ASSUME NEW S, NEW book \in Seq(S)
  PROVE  \E g : Showing(book, g)
<1> DEFINE N == Len(book)
           step == [p \in (1..N) \X Seq(S) |-> IF book[p[1]].visible THEN Append(p[2], book[p[1]]) ELSE p[2]]
<1>1. ASSUME NEW p \in (1..N) \X Seq(S) PROVE step[p] \in Seq(S)
  <2>1. p[1] \in 1..N /\ p[2] \in Seq(S) OBVIOUS
  <2>2. book[p[1]] \in S BY <2>1
  <2>3. Append(p[2], book[p[1]]) \in Seq(S) BY <2>1, <2>2
  <2> QED BY <2>1, <2>3
<1>2. step \in [(1..N) \X Seq(S) -> Seq(S)] BY <1>1
<1>3. N \in Nat /\ <<>> \in Seq(S) OBVIOUS
<1>4. ASSUME NEW n \in 1..N, NEW s \in Seq(S)
      PROVE  step[<<n, s>>] = IF book[n].visible THEN Append(s, book[n]) ELSE s
  OBVIOUS
<1> HIDE DEF step, N
<1>5. PICK g : Iterates(g, Seq(S), <<>>, N, step) BY <1>2, <1>3, Iterated
<1>6. ASSUME NEW n \in 0..N
      PROVE  g[n] = IF n = 0 THEN <<>> ELSE IF book[n].visible THEN Append(g[n - 1], book[n]) ELSE g[n - 1]
  <2>1. CASE n = 0 BY <1>5, <2>1 DEF Iterates
  <2>2. CASE n # 0
    <3>1. n \in 1..N /\ n - 1 \in 0..N BY <1>3, <2>2
    <3>2. g[n - 1] \in Seq(S) BY <1>5, <3>1 DEF Iterates
    <3> QED BY <1>4, <1>5, <2>2, <3>1, <3>2 DEF Iterates
  <2> QED BY <2>1, <2>2
<1>7. g = [n \in 0..N |-> IF n = 0 THEN <<>>
                          ELSE IF book[n].visible THEN Append(g[n - 1], book[n]) ELSE g[n - 1]]
  <2>1. g = [n \in 0..N |-> g[n]] BY <1>5 DEF Iterates
  <2> QED BY <2>1, <1>6
<1>8. Showing(book, g) BY <1>7, Zenon DEF Showing, N
<1> QED BY <1>8

\* They are sheets of the book.
LEMMA ShownOfBook ==
  ASSUME NEW S, NEW book \in Seq(S)
  PROVE  Shown(book) \in Seq(S)
<1> DEFINE N == Len(book)
           g == CHOOSE g : Showing(book, g)
           bad == {n \in 0..N : g[n] \notin Seq(S)}
<1>1. Shown(book) = g[N] BY Zenon DEF Shown, Showing
<1>2. Showing(book, g) BY ShowingExists, Zenon
<1> HIDE DEF g
<1>3. bad = {}
  <2> SUFFICES ASSUME bad # {} PROVE FALSE OBVIOUS
  <2>1. bad \in SUBSET Nat OBVIOUS
  <2>2. PICK m \in bad : \A k \in bad : m <= k
    <3> HIDE DEF bad
    <3> QED BY <2>1, Least
  <2>3. m \in 0..N /\ g[m] \notin Seq(S) OBVIOUS
  <2>4. g[m] = IF m = 0 THEN <<>> ELSE IF book[m].visible THEN Append(g[m - 1], book[m]) ELSE g[m - 1]
    BY <1>2, <2>3 DEF Showing
  <2>5. m # 0 BY <2>3, <2>4
  <2>6. m \in 1..N /\ m - 1 \in 0..N /\ ~(m <= m - 1) BY <2>3, <2>5
  <2>7. m - 1 \notin bad
    <3> HIDE DEF bad
    <3> QED BY <2>2, <2>6
  <2>8. g[m - 1] \in Seq(S) BY <2>6, <2>7
  <2>9. book[m] \in S BY <2>6
  <2>10. Append(g[m - 1], book[m]) \in Seq(S) BY <2>8, <2>9
  <2> QED BY <2>3, <2>4, <2>5, <2>8, <2>10
<1>4. N \in 0..N OBVIOUS
<1>5. g[N] \in Seq(S) BY <1>3, <1>4
<1> QED BY <1>1, <1>5

-----------------------------------------------------------------------------
(* The inputs of each kind *)

Boxes == [types : {{}, {None}, {1}, {1, 2}}, state : 0..2]
MapColumns == [facts : ColumnFacts, upper : [1..3 -> 0..100], lower : [1..3 -> 0..100]]
TopRows == HeadCells \cup {<<"blank">>}
Captions == [type : {1, 3}, line : {1, 2}, header : BOOLEAN, covered : BOOLEAN, beside : 0..2]
Ticks == {0, 1, 2, 9} \X {0, 1, 2, 9}
Heads == [legacy : BOOLEAN, boxes : Seq(Boxes), labels : Seq(Captions), rows : Seq(Ticks), values : Seq(BOOLEAN)]
EndRows == {"blank", "data", "right", "footer"}
CellNames == {"", "label", "own", "number", "inside", "token", "text"}
ValuedLabels == [field : {"equipment", "spir_no", "project"}, value : {"name", "ref", ""}]
LabelledRows ==
  [kind : {"data", "footer"}, label : {<<>>, <<1>>, <<1, 2>>}, desc : BOOLEAN, part : {FALSE}, tags : {<<>>, <<3>>}, item : Nat]

Inputs ==
  /\ Is("dups") => x \in Seq(DupRows)
  /\ Is("book") => x \in Seq({WithFilled(s) : s \in BookSheets})
  /\ Is("header") => x \in Seq(TopRows)
  /\ Is("map") => x \in Seq(MapColumns)
  /\ Is("type") => x \in Heads
  /\ Is("end") => x \in Seq(EndRows)
  /\ kind \in {"number", "revision"} => x \in Seq(Seq(CellNames))
  /\ Is("valued") => x \in Seq(ValuedLabels)
  /\ Is("list") => x \in [rows : Seq(ListRows), profile : Profiles]
  /\ Is("labelled") => x \in Seq(LabelledRows)
  /\ Is("upload") => x.size \in Nat \ {0} /\ x.part \in Nat \ {0}

\* A step is one of the kind of its input.
LEMMA StepOfKind ==
  ASSUME Next
  PROVE  /\ kind' = kind
         /\ Is("dups") => GrowRows
         /\ Is("book") => GrowBook
         /\ Is("header") => GrowHeader
         /\ Is("map") => GrowMap
         /\ Is("type") => GrowBoxes \/ GrowLabels \/ GrowTicks \/ GrowValues
         /\ Is("end") => GrowEnd
         /\ kind \in {"number", "revision"} => GrowCells
         /\ Is("valued") => GrowValued
         /\ Is("list") => GrowList
         /\ Is("labelled") => GrowLabelled
         /\ Is("upload") => GrowUpload
<1>1. /\ GrowGroups => kind = "groups"
      /\ GrowFanout => kind = "fanout"
      /\ GrowHead => kind = "columns"
      /\ SetUnits => kind = "columns"
      /\ GrowItems => kind = "columns"
      /\ GrowRun => kind = "runs"
      /\ GrowHeadings => kind = "headings"
      /\ Paint => kind = "headings"
  BY Zenon DEF GrowGroups, GrowFanout, GrowHead, SetUnits, GrowItems, GrowRun, GrowHeadings, Paint, Is
<1>2. /\ GrowAnnexures => kind = "annexures"
      /\ GrowTable => kind = "annexures"
      /\ GrowEntries => kind = "serials"
      /\ GrowColumns => kind = "serials"
      /\ GrowNumber => kind = "numbers"
      /\ GrowRows => kind = "dups"
      /\ GrowBook => kind = "book"
      /\ GrowList => kind = "list"
  BY Zenon DEF GrowAnnexures, GrowTable, GrowEntries, GrowColumns, GrowNumber, GrowRows, GrowBook, GrowList, Is
<1>3. /\ GrowParts => kind = "parts"
      /\ GrowCodes => kind = "codes"
      /\ GrowLabel => kind = "label"
      /\ GrowTagRow => kind = "tagrow"
      /\ GrowHeader => kind = "header"
      /\ GrowMap => kind = "map"
      /\ GrowBoxes => kind = "type"
      /\ GrowLabels => kind = "type"
  BY Zenon DEF GrowParts, GrowCodes, GrowLabel, GrowTagRow, GrowHeader, GrowMap, GrowBoxes, GrowLabels, Is
<1>4. /\ GrowTicks => kind = "type"
      /\ GrowValues => kind = "type"
      /\ GrowUpload => kind = "upload"
      /\ GrowOut => kind = "output"
      /\ GrowLabelled => kind = "labelled"
      /\ GrowEnd => kind = "end"
      /\ GrowCells => kind \in {"number", "revision"}
      /\ GrowValued => kind = "valued"
  BY Zenon DEF GrowTicks, GrowValues, GrowUpload, GrowOut, GrowLabelled, GrowEnd, GrowCells, GrowValued, Is
<1>5. kind' = kind BY DEF Next
<1> QED BY <1>1, <1>2, <1>3, <1>4, <1>5 DEF Next, Is

\* Sequences that are spelled out, and one that grows.
LEMMA ShortSeq ==
  ASSUME NEW S
  PROVE  /\ <<>> \in Seq(S)
         /\ \A e \in S : <<e>> \in Seq(S)
         /\ \A e, f \in S : <<e, f>> \in Seq(S)
         /\ \A e, f, g \in S : <<e, f, g>> \in Seq(S)
         /\ \A s \in Seq(S), e \in S : Append(s, e) \in Seq(S)
OBVIOUS

\* The inputs are of their kinds to begin with.
LEMMA InputsBegin == Init => Inputs
<1> SUFFICES ASSUME Init PROVE Inputs OBVIOUS
<1>1. kind \in {"dups", "book", "map", "end", "number", "revision", "valued", "labelled"} => x = <<>>
  BY Zenon DEF Init, Is
<1>2. Is("header") => x = Blanks(1) \/ x = Blanks(29) BY Zenon DEF Init, Is
<1>3. Is("type") => x \in [legacy : BOOLEAN, boxes : {<<>>}, labels : {<<>>}, rows : {<<>>}, values : {<<>>}]
  BY Zenon DEF Init, Is
<1>4. Is("upload") => x \in [size : 1..9, part : 1..4, held : {<<>>}] BY Zenon DEF Init, Is
<1>5. \A S : <<>> \in Seq(S) BY ShortSeq, Zenon
<1>6. Is("header") => x \in Seq(TopRows)
  <2>1. <<"blank">> \in TopRows BY DEF TopRows
  <2>2. ASSUME NEW n \in Nat PROVE Blanks(n) \in Seq(TopRows) BY <2>1 DEF Blanks
  <2> QED BY <1>2, <2>2
<1>7. Is("type") => x \in Heads
  <2> SUFFICES ASSUME Is("type") PROVE x \in Heads OBVIOUS
  <2>1. /\ x = [legacy |-> x.legacy, boxes |-> x.boxes, labels |-> x.labels, rows |-> x.rows, values |-> x.values]
        /\ x.legacy \in BOOLEAN /\ x.boxes = <<>> /\ x.labels = <<>> /\ x.rows = <<>> /\ x.values = <<>>
    BY <1>3
  <2>2. /\ x.boxes \in Seq(Boxes) /\ x.labels \in Seq(Captions)
        /\ x.rows \in Seq(Ticks) /\ x.values \in Seq(BOOLEAN)
    BY <2>1, <1>5, Zenon
  <2> QED BY <2>1, <2>2 DEF Heads
<1>8. Is("upload") => x.size \in Nat \ {0} /\ x.part \in Nat \ {0} BY <1>4
<1>9. Is("list") => x \in [rows : Seq(ListRows), profile : Profiles]
  <2> SUFFICES ASSUME Is("list") PROVE x \in [rows : Seq(ListRows), profile : Profiles] OBVIOUS
  <2>1. x \in [rows : {<<>>}, profile : Profiles] BY Zenon DEF Init, Is
  <2>2. x = [rows |-> x.rows, profile |-> x.profile] /\ x.rows = <<>> /\ x.profile \in Profiles BY <2>1
  <2>3. x.rows \in Seq(ListRows) BY <2>2, <1>5, Zenon
  <2> QED BY <2>2, <2>3
<1> QED BY <1>1, <1>5, <1>6, <1>7, <1>8, <1>9, Zenon DEF Inputs, Is

\* And stay so.
LEMMA InputsGrow == Inputs /\ [Next]_<<kind, x>> => Inputs'
<1> SUFFICES ASSUME Inputs, [Next]_<<kind, x>> PROVE Inputs' OBVIOUS
<1>1. CASE UNCHANGED <<kind, x>>
  <2>1. kind' = kind /\ x' = x BY <1>1
  <2> QED BY <2>1 DEF Inputs, Is
<1>2. CASE Next
  <2>1. kind' = kind BY <1>2, StepOfKind
  <2>2. Is("dups") => x' \in Seq(DupRows) BY <1>2, StepOfKind DEF GrowRows, Inputs
  <2>3. Is("book") => x' \in Seq({WithFilled(s) : s \in BookSheets}) BY <1>2, StepOfKind DEF GrowBook, Inputs
  <2>4. Is("header") => x' \in Seq(TopRows)
    BY <1>2, StepOfKind DEF GrowHeader, Inputs, TopRows
  <2>5. Is("map") => x' \in Seq(MapColumns)
    <3> SUFFICES ASSUME Is("map") PROVE x' \in Seq(MapColumns)
      OBVIOUS
    <3>1. PICK f \in ColumnFacts, a \in {0, 35, 80}, b \in {35, 80}, c \in {35, 80}, d \in {0, 80} :
            x' = Append(x, [facts |-> f, upper |-> <<a, b, c>>, lower |-> <<0, 0, d>>])
      BY <1>2, StepOfKind, Zenon DEF GrowMap
    <3>2. <<a, b, c>> \in [1..3 -> 0..100] /\ <<0, 0, d>> \in [1..3 -> 0..100] OBVIOUS
    <3>3. [facts |-> f, upper |-> <<a, b, c>>, lower |-> <<0, 0, d>>]
            \in MapColumns
      BY <3>2 DEF MapColumns
    <3> QED BY <3>1, <3>3 DEF Inputs
  <2>6. Is("type") => x' \in Heads
    <3> SUFFICES ASSUME Is("type") PROVE x' \in Heads OBVIOUS
    <3>1. GrowBoxes \/ GrowLabels \/ GrowTicks \/ GrowValues BY <1>2, StepOfKind
    <3>2. x \in Heads BY DEF Inputs
    <3>3. CASE GrowBoxes
      <4>1. PICK t \in {{}, {None}, {1}, {1, 2}}, st \in 0..2 :
              x' = [x EXCEPT !.boxes = Append(@, [types |-> t, state |-> st])]
        BY <3>3, Zenon DEF GrowBoxes
      <4>2. [types |-> t, state |-> st] \in Boxes BY DEF Boxes
      <4>3. Append(x.boxes, [types |-> t, state |-> st]) \in Seq(Boxes) BY <3>2, <4>2 DEF Heads
      <4> QED BY <3>2, <4>1, <4>3 DEF Heads
    <3>4. CASE GrowLabels
      <4>1. PICK h \in BOOLEAN, v \in BOOLEAN, a \in 0..2, b \in 0..2 :
              x' = [x EXCEPT !.labels = <<Caption(3, 1, h, h, a), Caption(1, IF v THEN 2 ELSE 1, FALSE, v /\ h, b)>>]
        BY <3>4, Zenon DEF GrowLabels
      <4> DEFINE one == Caption(3, 1, h, h, a)
                 two == Caption(1, IF v THEN 2 ELSE 1, FALSE, v /\ h, b)
      <4>2. one \in Captions BY DEF Captions, Caption
      <4>3. two \in Captions
        <5>1. (IF v THEN 2 ELSE 1) \in {1, 2} /\ (v /\ h) \in BOOLEAN OBVIOUS
        <5> QED BY <5>1 DEF Captions, Caption
      <4>4. <<one, two>> \in Seq(Captions) BY <4>2, <4>3, ShortSeq, Zenon
      <4>5. x' = [x EXCEPT !.labels = <<one, two>>] BY <4>1
      <4> HIDE DEF one, two
      <4> QED BY <3>2, <4>4, <4>5 DEF Heads
    <3>5. CASE GrowTicks
      <4>1. PICK a \in {0, 1, 2, 9}, b \in {0, 1, 2, 9} : x' = [x EXCEPT !.rows = Append(@, <<a, b>>)]
        BY <3>5, Zenon DEF GrowTicks
      <4>2. <<a, b>> \in Ticks BY DEF Ticks
      <4>3. x.rows \in Seq(Ticks) BY <3>2 DEF Heads
      <4>4. Append(x.rows, <<a, b>>) \in Seq(Ticks) BY <4>2, <4>3, ShortSeq, Zenon
      <4> QED BY <3>2, <4>1, <4>4 DEF Heads
    <3>6. CASE GrowValues
      <4>1. PICK b \in BOOLEAN : x' = [x EXCEPT !.values = Append(@, b)]
        BY <3>6, Zenon DEF GrowValues
      <4>2. Append(x.values, b) \in Seq(BOOLEAN) BY <3>2, ShortSeq DEF Heads
      <4> QED BY <3>2, <4>1, <4>2 DEF Heads
    <3> QED BY <3>1, <3>3, <3>4, <3>5, <3>6
  <2>7. Is("end") => x' \in Seq(EndRows) BY <1>2, StepOfKind DEF GrowEnd, Inputs, EndRows
  <2>8. kind \in {"number", "revision"} => x' \in Seq(Seq(CellNames))
    <3> SUFFICES ASSUME kind \in {"number", "revision"} PROVE x' \in Seq(Seq(CellNames)) OBVIOUS
    <3> DEFINE Names == {"", "label", "own"} \cup (IF Is("number") THEN {"number", "inside"} ELSE {"token", "text"})
    <3>1. PICK a \in Names, b \in Names, c \in Names : x' = Append(x, <<a, b, c>>)
      BY <1>2, StepOfKind, Zenon DEF GrowCells
    <3>2. a \in CellNames /\ b \in CellNames /\ c \in CellNames BY DEF CellNames
    <3>3. <<a, b, c>> \in Seq(CellNames) BY <3>2, ShortSeq, Zenon
    <3>4. x \in Seq(Seq(CellNames)) BY DEF Inputs
    <3> HIDE DEF Names
    <3> QED BY <3>1, <3>3, <3>4
  <2>9. Is("valued") => x' \in Seq(ValuedLabels)
    <3> SUFFICES ASSUME Is("valued") PROVE x' \in Seq(ValuedLabels) OBVIOUS
    <3>1. PICK f \in {"equipment", "spir_no", "project"}, v \in {"name", "ref", ""} :
            x' = Append(x, [field |-> f, value |-> v])
      BY <1>2, StepOfKind, Zenon DEF GrowValued
    <3>2. [field |-> f, value |-> v] \in ValuedLabels BY DEF ValuedLabels
    <3>3. x \in Seq(ValuedLabels) BY DEF Inputs
    <3> QED BY <3>1, <3>2, <3>3, ShortSeq, Zenon
  <2>10. Is("upload") => x'.size \in Nat \ {0} /\ x'.part \in Nat \ {0}
    <3> SUFFICES ASSUME Is("upload") PROVE x'.size \in Nat \ {0} /\ x'.part \in Nat \ {0} OBVIOUS
    <3>1. x.size \in Nat \ {0} /\ x.part \in Nat \ {0} BY DEF Inputs
    <3>2. GrowUpload BY <1>2, StepOfKind
    <3>3. PICK h : x' = [x EXCEPT !.held = h] BY <3>2, Zenon DEF GrowUpload
    <3>4. x'.size = x.size /\ x'.part = x.part BY <3>3
    <3> QED BY <3>1, <3>4
  <2>11. Is("list") => x' \in [rows : Seq(ListRows), profile : Profiles]
    <3> SUFFICES ASSUME Is("list") PROVE x' \in [rows : Seq(ListRows), profile : Profiles] OBVIOUS
    <3>1. x \in [rows : Seq(ListRows), profile : Profiles] BY DEF Inputs
    <3>2. GrowList BY <1>2, StepOfKind
    <3>3. PICK r \in ListRows : x' = [x EXCEPT !.rows = Append(@, r)] BY <3>2, Zenon DEF GrowList
    <3>4. x.rows \in Seq(ListRows) BY <3>1
    <3>5. Append(x.rows, r) \in Seq(ListRows) BY <3>3, <3>4, ShortSeq, Zenon
    <3> QED BY <3>1, <3>3, <3>5
  <2>12. Is("labelled") => x' \in Seq(LabelledRows)
    <3> SUFFICES ASSUME Is("labelled") PROVE x' \in Seq(LabelledRows) OBVIOUS
    <3>1. x \in Seq(LabelledRows) BY DEF Inputs
    <3>2. GrowLabelled BY <1>2, StepOfKind
    <3>3. PICK k \in {"data", "footer"}, l \in {<<>>, <<1>>, <<1, 2>>}, d \in BOOLEAN, t \in {<<>>, <<3>>} :
            x' = Append(x, [kind |-> k, label |-> l, desc |-> d, part |-> FALSE, tags |-> t, item |-> Len(x) + 1])
      BY <3>2, Zenon DEF GrowLabelled
    <3>4. Len(x) + 1 \in Nat BY <3>1
    <3>5. [kind |-> k, label |-> l, desc |-> d, part |-> FALSE, tags |-> t, item |-> Len(x) + 1] \in LabelledRows
      BY <3>3, <3>4 DEF LabelledRows
    <3> QED BY <3>1, <3>3, <3>5, ShortSeq, Zenon
  <2> QED BY <2>1, <2>2, <2>3, <2>4, <2>5, <2>6, <2>7, <2>8, <2>9, <2>10, <2>11, <2>12 DEF Inputs, Is
<1> QED BY <1>1, <1>2

\* In every state reached.
LEMMA InputsAreTyped == Spec => []Inputs
<1> QED BY InputsBegin, InputsGrow, PTL DEF Spec

-----------------------------------------------------------------------------
(* Sheets with one row per spare or per tag *)

LEMMA ListRowsAreRows ==
  \A r \in ListRows : r.tags \in Seq(Nat) /\ r.serial.parts \in Seq(Nat)
<1> SUFFICES ASSUME NEW r \in ListRows PROVE r.tags \in Seq(Nat) /\ r.serial.parts \in Seq(Nat) OBVIOUS
<1>1. r.tags \in {<<>>, <<3>>, <<3, 4>>} /\ r.serial \in RowSerials BY DEF ListRows
<1>2. r.tags \in Seq(Nat)
  <2>1. <<>> \in Seq(Nat) /\ <<3>> \in Seq(Nat) /\ <<3, 4>> \in Seq(Nat) OBVIOUS
  <2> QED BY <1>1, <2>1, Zenon
<1>3. \A s \in RowSerials : s.parts \in {<<>>, <<5>>, <<5, 6>>, <<5, 106>>}
  <2> DEFINE Serial0(t, p) == [sep |-> t, parts |-> p]
  <2>1. \A t, p : Serial0(t, p).parts = p OBVIOUS
  <2>2. RowSerials = {Serial0("none", <<>>), Serial0("none", <<5>>), Serial0(",", <<5, 6>>), Serial0("-", <<5, 106>>),
                      Serial0("-", <<5, 6>>)}
    BY Zenon DEF RowSerials, NoSerial
  <2> DEFINE P == {<<>>, <<5>>, <<5, 6>>, <<5, 106>>}
  <2>3. <<>> \in P /\ <<5>> \in P /\ <<5, 6>> \in P /\ <<5, 106>> \in P OBVIOUS
  <2> HIDE DEF Serial0, P
  <2>4. \A s \in RowSerials : \E p \in P : \E t : s = Serial0(t, p) BY <2>2, <2>3, Zenon
  <2>5. \A s \in RowSerials : s.parts \in P BY <2>1, <2>4, Zenon
  <2> QED BY <2>5, Zenon DEF P
<1>4. <<>> \in Seq(Nat) /\ <<5>> \in Seq(Nat) /\ <<5, 6>> \in Seq(Nat) /\ <<5, 106>> \in Seq(Nat) OBVIOUS
<1>5. r.serial.parts \in Seq(Nat) BY <1>1, <1>3, <1>4, Zenon
<1> QED BY <1>2, <1>5

LEMMA ProfilesAreSheets ==
  \A p \in Profiles : /\ p.global \in Seq(Nat)
                      /\ \A i, j \in DOMAIN p.global : p.global[i] = p.global[j] => i = j
<1> SUFFICES ASSUME NEW p \in Profiles
             PROVE  p.global \in Seq(Nat) /\ \A i, j \in DOMAIN p.global : p.global[i] = p.global[j] => i = j
  OBVIOUS
<1>1. p.global \in {<<>>, <<1>>, <<1, 2>>} BY DEF Profiles
<1> DEFINE Once(g) == \A i, j \in DOMAIN g : g[i] = g[j] => i = j
<1>2. <<>> \in Seq(Nat) /\ <<1>> \in Seq(Nat) /\ <<1, 2>> \in Seq(Nat) OBVIOUS
<1>3. Once(<<>>) OBVIOUS
<1>4. Once(<<1>>)
  <2>1. DOMAIN <<1>> = {1} OBVIOUS
  <2> QED BY <2>1
<1>5. Once(<<1, 2>>)
  <2>1. DOMAIN <<1, 2>> = {1, 2} /\ <<1, 2>>[1] = 1 /\ <<1, 2>>[2] = 2 OBVIOUS
  <2> QED BY <2>1
<1> HIDE DEF Once
<1>6. p.global \in Seq(Nat) /\ Once(p.global) BY <1>1, <1>2, <1>3, <1>4, <1>5, Zenon
<1> QED BY <1>6, Zenon DEF Once

\* Spares reach their tags, the tag of a whole sheet appears once, and sheets are read downwards:
\* the property of the row readers, in every state the runs of the engine go through.
THEOREM ListsAreComplete == Spec => []ListIsComplete
<1>1. ASSUME Inputs PROVE ListIsComplete
  <2>1. ASSUME Is("list") PROVE SparesReachTags(x.rows, x.profile) /\ GlobalTagOnce(x.rows, x.profile)
    <3>1. x \in [rows : Seq(ListRows), profile : Profiles] BY <1>1, <2>1, Zenon DEF Inputs
    <3>2. x.rows \in Seq(ListRows) /\ x.profile \in Profiles BY <3>1
    <3> DEFINE rows == x.rows
               profile == x.profile
    <3>3. \A n \in DOMAIN rows : rows[n] \in ListRows BY <3>2
    <3> HIDE DEF rows, profile
    <3>4. IsList(rows, profile)
      <4>1. \A n \in DOMAIN rows : rows[n].tags \in Seq(Nat) /\ rows[n].serial.parts \in Seq(Nat)
        BY <3>3, ListRowsAreRows, Zenon
      <4>2. profile.global \in Seq(Nat) BY <3>2, ProfilesAreSheets, Zenon DEF profile
      <4> QED BY <4>1, <4>2, Zenon DEF IsList
    <3>5. rows \in Seq(ListRows) BY <3>2, Zenon DEF rows
    <3>6. \A i, j \in DOMAIN profile.global : profile.global[i] = profile.global[j] => i = j
      BY <3>2, ProfilesAreSheets, Zenon DEF profile
    <3>7. SparesReachTags(rows, profile) BY <3>4, <3>5, SparesAreTagged, Zenon
    <3>8. GlobalTagOnce(rows, profile) BY <3>4, <3>5, <3>6, GlobalTagsAreOnce, Zenon
    <3> QED BY <3>7, <3>8, Zenon DEF rows, profile
  <2>2. ASSUME Is("labelled") PROVE ReadDownwards(x)
    <3>1. x \in Seq(LabelledRows) BY <1>1, <2>2, Zenon DEF Inputs
    <3>2. \A n \in DOMAIN x : x[n] \in LabelledRows BY <3>1
    <3>3. \A r \in LabelledRows : r.label \in Seq(Nat) /\ r.tags \in Seq(Nat)
      <4>1. \A r \in LabelledRows : r.label \in {<<>>, <<1>>, <<1, 2>>} /\ r.tags \in {<<>>, <<3>>} BY DEF LabelledRows
      <4>2. <<>> \in Seq(Nat) /\ <<1>> \in Seq(Nat) /\ <<1, 2>> \in Seq(Nat) /\ <<3>> \in Seq(Nat) OBVIOUS
      <4> QED BY <4>1, <4>2, Zenon
    <3>4. HasLabels(x) BY <3>2, <3>3, Zenon DEF HasLabels
    <3> QED BY <3>1, <3>4, ReadsDownwards, Zenon
  <2> QED BY <2>1, <2>2, Zenon DEF ListIsComplete
<1>2. Spec => []Inputs BY InputsAreTyped
<1> QED BY <1>1, <1>2, PTL

-----------------------------------------------------------------------------
(* The parts of a file *)

\* Floor division, as SMT does not know it for a divisor that is a variable.
LEMMA Quotient ==
  ASSUME NEW a \in Int, NEW b \in Nat \ {0}
  PROVE  a \div b \in Int /\ b * (a \div b) <= a /\ a < b * (a \div b) + b
BY SMT

\* The number of parts is the quotient rounded up.
LEMMA Rounded ==
  ASSUME NEW size \in Nat \ {0}, NEW part \in Nat \ {0}
  PROVE  /\ PartCount(size, part) \in Nat \ {0}
         /\ part * (PartCount(size, part) - 1) < size
         /\ size <= part * PartCount(size, part)
<1> DEFINE q == (-size) \div part
<1>1. q \in Int /\ part * q <= -size /\ -size < part * q + part
  BY Quotient
<1>2. PartCount(size, part) = -q BY DEF PartCount
<1> HIDE DEF q
<1>3. part * (-q) = -(part * q) /\ part * (-q - 1) = -(part * q) - part BY <1>1
<1>4. -q > 0
  <2>1. ASSUME q >= 0 PROVE FALSE
    <3>1. part * q >= 0 BY <1>1, <2>1
    <3> QED BY <1>1, <3>1
  <2> QED BY <1>1, <2>1
<1> QED BY <1>1, <1>2, <1>3, <1>4

\* Where a part starts and what the API expects of it, in numbers of bytes.
LEMMA Within ==
  ASSUME NEW size \in Nat \ {0}, NEW part \in Nat \ {0}, NEW i \in PartNumbers(size, part)
  PROVE  /\ i < PartCount(size, part) => SliceStart(part, i) + part < size
         /\ i = PartCount(size, part) => SliceStart(part, i) < size /\ size <= SliceStart(part, i) + part
         /\ SliceStart(part, i) \in Nat
         /\ SliceStart(part, i + 1) = SliceStart(part, i) + part
<1> DEFINE n == PartCount(size, part)
<1>1. n \in Nat \ {0} /\ part * (n - 1) < size /\ size <= part * n BY Rounded
<1>2. i \in 1 .. n BY DEF PartNumbers
<1> HIDE DEF n
<1>3. SliceStart(part, i) = part * i - part /\ SliceStart(part, i + 1) = part * i /\ part * i \in Int
  BY <1>1, <1>2 DEF SliceStart
<1>4. part * (n - 1) = part * n - part /\ part * n \in Int BY <1>1
<1>5. part * i - part >= 0
  <2>1. part * (i - 1) >= 0 /\ part * (i - 1) = part * i - part BY <1>1, <1>2
  <2> QED BY <2>1
<1>6. CASE i = n BY <1>1, <1>2, <1>3, <1>4, <1>5, <1>6 DEF n
<1>7. CASE i < n
  <2>1. n - 1 - i \in Nat BY <1>1, <1>2, <1>7
  <2>2. part * (n - 1 - i) >= 0 /\ part * (n - 1 - i) = part * (n - 1) - part * i BY <1>1, <1>2, <2>1
  <2>3. part * i < size BY <2>2, <1>1, <1>3, <1>4
  <2> QED BY <2>3, <1>2, <1>3, <1>5, <1>7 DEF n
<1> QED BY <1>1, <1>2, <1>6, <1>7

\* For every size and part size, the slices of the browser cover the file without gap or
\* overlap, and each is as large as the API expects (SlicesCoverFile).
THEOREM SlicesAgree ==
  ASSUME NEW size \in Nat \ {0}, NEW part \in Nat \ {0}
  PROVE  SlicesCoverFile(size, part)
<1> DEFINE n == PartCount(size, part)
<1>1. n \in Nat \ {0} /\ n \in PartNumbers(size, part) /\ 1 \in PartNumbers(size, part)
  BY Rounded DEF PartNumbers
<1>2. SliceStart(part, 1) = 0 BY DEF SliceStart
<1>3. SliceEnd(size, part, n) = size
  <2>1. SliceStart(part, n) \in Nat /\ size <= SliceStart(part, n) + part BY <1>1, Within
  <2> QED BY <2>1 DEF SliceEnd
<1>4. ASSUME NEW i \in PartNumbers(size, part)
      PROVE  /\ SliceSize(size, part, i) = ExpectedPartSize(size, part, i)
             /\ SliceSize(size, part, i) \in 1 .. part
             /\ i < n => SliceSize(size, part, i) = part /\ SliceStart(part, i + 1) = SliceEnd(size, part, i)
  <2>1. i \in 1 .. n BY DEF PartNumbers
  <2>2. CASE i < n
    <3>1. SliceStart(part, i) + part < size /\ SliceStart(part, i) \in Nat
          /\ SliceStart(part, i + 1) = SliceStart(part, i) + part
      BY <2>2, Within
    <3>2. SliceEnd(size, part, i) = SliceStart(part, i) + part BY <3>1 DEF SliceEnd
    <3>3. SliceSize(size, part, i) = part BY <3>1, <3>2 DEF SliceSize
    <3> QED BY <2>2, <3>1, <3>2, <3>3 DEF ExpectedPartSize
  <2>3. CASE i = n
    <3>1. SliceStart(part, i) < size /\ size <= SliceStart(part, i) + part /\ SliceStart(part, i) \in Nat
      BY <2>3, Within
    <3>2. SliceSize(size, part, i) = size - SliceStart(part, i) BY <3>1 DEF SliceSize, SliceEnd
    <3>3. SliceStart(part, i) = part * (n - 1) BY <1>1, <2>3 DEF SliceStart
    <3>4. ExpectedPartSize(size, part, i) = size - part * (n - 1) BY <1>1, <2>3 DEF ExpectedPartSize
    <3> QED BY <1>1, <2>3, <3>1, <3>2, <3>3, <3>4
  <2> QED BY <1>1, <2>1, <2>2, <2>3
<1> QED BY <1>1, <1>2, <1>3, <1>4 DEF SlicesCoverFile

\* Whatever the storage holds, the API completes an upload only if that is the slices of
\* the file and nothing else.
THEOREM WholeOrRefused ==
  ASSUME NEW size \in Nat \ {0}, NEW part \in Nat \ {0}, NEW held
  PROVE  CompleteIsWhole(held, size, part)
<1>1. \A i \in PartNumbers(size, part) : SliceSize(size, part, i) = ExpectedPartSize(size, part, i)
  BY SlicesAgree DEF SlicesCoverFile
<1> QED BY <1>1 DEF CompleteIsWhole, Complete, Missing, Wrong

\* One round that puts the parts the API named completes every upload whose parts are
\* numbered as planned, however many were lost or cut short.
THEOREM OneRoundCompletes ==
  ASSUME NEW size \in Nat \ {0}, NEW part \in Nat \ {0}, NEW held
  PROVE  RedoCompletes(held, size, part)
<1>1. \A i \in PartNumbers(size, part) : SliceSize(size, part, i) = ExpectedPartSize(size, part, i)
  BY SlicesAgree DEF SlicesCoverFile
<1> SUFFICES ASSUME DOMAIN held \subseteq PartNumbers(size, part)
             PROVE  Complete(Redone(held, size, part), size, part)
  BY DEF RedoCompletes
<1> DEFINE redo == Missing(held, size, part) \cup Wrong(held, size, part)
           new == Redone(held, size, part)
<1>2. DOMAIN new = PartNumbers(size, part) BY DEF Redone, Missing, Wrong
<1>3. ASSUME NEW i \in PartNumbers(size, part) PROVE new[i] = ExpectedPartSize(size, part, i)
  <2>1. new[i] = IF i \in redo THEN SliceSize(size, part, i) ELSE held[i] BY <1>2 DEF Redone
  <2>2. CASE i \in redo BY <1>1, <2>1, <2>2
  <2>3. CASE i \notin redo BY <2>1, <2>3 DEF Missing, Wrong
  <2> QED BY <2>2, <2>3
<1> QED BY <1>2, <1>3 DEF Complete, Missing, Wrong

-----------------------------------------------------------------------------
(* What holds of every input *)

\* Rows to compare are told by the text of their part numbers.
LEMMA DupRowsComparable ==
  ASSUME NEW rows \in Seq(DupRows)
  PROVE  Comparable(rows) /\ IsFiniteSet(DOMAIN rows)
<1>1. DOMAIN rows = 1..Len(rows) /\ Len(rows) \in Nat OBVIOUS
<1>2. IsFiniteSet(DOMAIN rows) BY <1>1, FS_Interval
<1>3. \A i \in DOMAIN rows : rows[i].part \in PartNos
  <2>1. \A r \in DupRows : r.part \in PartNos BY DEF DupRows
  <2> QED BY <2>1
<1>4. \A p \in PartNos : p.text \in Nat BY DEF PartNos
<1>5. \A p, q \in PartNos : p.text = q.text => p = q BY DEF PartNos
<1> QED BY <1>2, <1>3, <1>4, <1>5 DEF Comparable

\* Conflicts of SAP numbers are marked up to the majority, spares that repeat name each other
\* and are counted (DuplicatesNamed): duplicate_checker.py, for any number of such rows.
THEOREM DuplicatesAreNamed == Spec => []DuplicatesNamed
<1>1. Inputs => DuplicatesNamed
  <2> SUFFICES ASSUME Inputs, Is("dups")
                PROVE  SapConflictsNamed(x) /\ SpareGroupsNamed(x) /\ SpareGroupsCounted(x)
    BY DEF DuplicatesNamed
  <2>1. x \in Seq(DupRows) BY DEF Inputs
  <2> QED BY <2>1, DupRowsComparable, SapConflictsFound, SpareGroupsAreNamed, SpareGroupsAreCounted
<1> QED BY <1>1, InputsAreTyped, PTL

\* Sheets as they are enumerated are those of a book.
LEMMA ShownIsBook ==
  ASSUME NEW book \in Seq({WithFilled(s) : s \in BookSheets})
  PROVE  IsBook(Shown(book))
<1> DEFINE S == {WithFilled(s) : s \in BookSheets}
           layouts == {"none", "column_headers", "row_headers", "tag_column", "global_tag"}
<1>1. \A s \in S : s.layout \in layouts /\ "spir_no" \notin s.keys
  <2>1. \A s \in BookSheets : s.layout \in {"none", "column_headers", "row_headers"} /\ s.keys \in {{}, {"revision"}}
    BY DEF BookSheets
  <2>2. \A s : WithFilled(s).layout = s.layout /\ WithFilled(s).keys = s.keys BY DEF WithFilled
  <2>3. \A k \in {{}, {"revision"}} : "spir_no" \notin k OBVIOUS
  <2> QED BY <2>1, <2>2, <2>3
<1>2. book \in Seq(S) OBVIOUS
<1> HIDE DEF S, layouts
<1>3. Shown(book) \in Seq(S) BY <1>2, ShownOfBook
<1>4. DOMAIN Shown(book) = 1..Len(Shown(book)) /\ Len(Shown(book)) \in Nat BY <1>3
<1>5. \A i \in DOMAIN Shown(book) : Shown(book)[i] \in S BY <1>3
<1> QED BY <1>1, <1>4, <1>5, Zenon DEF IsBook, layouts

\* Metadata are lent only within one document; a continuation leads to an earlier sheet that
\* continues nothing, and that is read unless it turned out to belong to another document
\* (BookIsCoherent): analyze_workbook, for any number of such sheets, shown or hidden.
THEOREM BooksAreCoherent == Spec => []BookIsCoherent
<1>1. Inputs => BookIsCoherent
  <2> SUFFICES ASSUME Inputs, Is("book"), NEW file
               PROVE  MetadataIsOwn(Shown(x), file) /\ ContinuationsRooted(Shown(x), file)
    BY Zenon DEF BookIsCoherent
  <2>1. x \in Seq({WithFilled(s) : s \in BookSheets}) BY Zenon DEF Inputs
  <2>2. IsBook(Shown(x)) BY <2>1, ShownIsBook, Zenon
  <2> QED BY <2>2, MetadataStaysHome, ContinuationsAreRooted, Zenon
<1> QED BY <1>1, InputsAreTyped, PTL

\* Rows are columns of cells.
LEMMA HeadsAreSheets ==
  ASSUME NEW rows \in Seq(TopRows)
  PROVE  IsSheet(rows)
<1>1. \A r \in TopRows : IsColumn(r)
  <2>1. ASSUME NEW r \in HeadCells PROVE IsColumn(r)
    <3>1. PICK a, b, c, d : r = <<a, b, c, d>> BY DEF HeadCells
    <3>2. DOMAIN r = 1..4 BY <3>1
    <3> QED BY <3>2 DEF IsColumn
  <2>2. DOMAIN <<"blank">> = 1..1 OBVIOUS
  <2>3. IsColumn(<<"blank">>) BY <2>2 DEF IsColumn
  <2> QED BY <2>1, <2>3 DEF TopRows
<1>2. DOMAIN rows = 1..Len(rows) /\ Len(rows) \in Nat OBVIOUS
<1>3. \A n \in DOMAIN rows : rows[n] \in TopRows OBVIOUS
<1> QED BY <1>1, <1>2, <1>3 DEF IsSheet, IsColumn

\* Texts fit the fields to 0..100 in the rows above the data.
LEMMA AboveMappable ==
  ASSUME NEW columns \in Seq(MapColumns)
  PROVE  IsMappable(Above(columns), 2, [i \in DOMAIN columns |-> columns[i].facts], Fields)
<1>1. DOMAIN columns = 1..Len(columns) /\ Len(columns) \in Nat BY LenProperties
<1> DEFINE rows == Above(columns)
           cols == [i \in DOMAIN columns |-> columns[i].facts]
<1>2. IsColumn(cols) BY <1>1 DEF IsColumn
<1>3. DOMAIN rows = 1..4 BY DEF Above
<1>4. IsColumn(rows) /\ 2 \in DOMAIN rows BY <1>3 DEF IsColumn
<1>5. DOMAIN Fields = 1..3 BY DEF Fields
<1>6. ASSUME NEW c \in DOMAIN columns, NEW f \in 1..3
      PROVE  columns[c].upper[f] \in 0..100 /\ columns[c].lower[f] \in 0..100
  <2>1. columns[c] \in MapColumns OBVIOUS
  <2>2. columns[c].upper \in [1..3 -> 0..100] /\ columns[c].lower \in [1..3 -> 0..100] BY <2>1 DEF MapColumns
  <2> QED BY <2>2
<1>7. /\ rows[1].scores = [i \in DOMAIN columns |-> columns[i].upper]
      /\ rows[2].scores = [i \in DOMAIN columns |-> <<0, 0, 0>>]
      /\ rows[3].scores = [i \in DOMAIN columns |-> columns[i].lower]
      /\ rows[4].scores = [i \in DOMAIN columns |-> columns[i].lower]
  BY DEF Above
<1>8. ASSUME NEW n \in DOMAIN rows, NEW c \in DOMAIN cols, NEW f \in DOMAIN Fields
      PROVE  rows[n].scores[c][f] \in 0..100
  <2>1. n \in {1, 2, 3, 4} /\ c \in DOMAIN columns /\ f \in 1..3 BY <1>3, <1>5
  <2> HIDE DEF rows, cols
  <2>2. CASE n = 1 BY <2>1, <2>2, <1>6, <1>7
  <2>3. CASE n = 2
    <3> DEFINE zeros == <<0, 0, 0>>
    <3>1. \A g \in 1..3 : zeros[g] \in 0..100 OBVIOUS
    <3>2. rows[n].scores = [i \in DOMAIN columns |-> zeros] BY <2>3, <1>7, Zenon
    <3> HIDE DEF zeros
    <3>3. rows[n].scores[c] = zeros BY <2>1, <3>2
    <3> QED BY <2>1, <3>1, <3>3
  <2>4. CASE n = 3 BY <2>1, <2>4, <1>6, <1>7
  <2>5. CASE n = 4 BY <2>1, <2>5, <1>6, <1>7
  <2> QED BY <2>1, <2>2, <2>3, <2>4, <2>5
<1> HIDE DEF rows, cols
<1>9. IsMappable(rows, 2, cols, Fields) BY <1>2, <1>4, <1>8, Zenon DEF IsMappable
<1> QED BY <1>9, Zenon DEF rows, cols

\* The boxes, captions and ticks are those of a head.
LEMMA HeadsAreHeads ==
  ASSUME NEW head \in Heads
  PROVE  IsHead(head)
<1>1. \A S : \A s \in Seq(S) : IsColumn(s) BY DEF IsColumn
<1>2. /\ head.boxes \in Seq(Boxes) /\ head.labels \in Seq(Captions)
      /\ head.rows \in Seq(Ticks) /\ head.values \in Seq(BOOLEAN)
  BY DEF Heads
<1>3. ASSUME NEW i \in DOMAIN head.boxes PROVE head.boxes[i].types \in SUBSET (0..4)
  <2>1. head.boxes[i] \in Boxes BY <1>2
  <2> QED BY <2>1 DEF Boxes, None
<1>4. /\ IsColumn(head.boxes) /\ IsColumn(head.labels) /\ IsColumn(head.rows) /\ IsColumn(head.values)
  BY <1>1, <1>2, Zenon
<1> QED BY <1>3, <1>4, Zenon DEF IsHead

\* No better header row is passed over, the columns are shared out stably, no type is guessed,
\* no number, revision or value missed, no data cut off (HeadIsRead): header_detector.py,
\* column_mapper.py, for any number of rows, columns and labels.
THEOREM HeadsAreRead == Spec => []HeadIsRead
<1>1. Inputs => HeadIsRead
  <2> SUFFICES ASSUME Inputs PROVE HeadIsRead OBVIOUS
  <2>1. Is("header") => HeaderNotDominated(x)
    <3> SUFFICES ASSUME Is("header") PROVE HeaderNotDominated(x) OBVIOUS
    <3>1. x \in Seq(TopRows) BY Zenon DEF Inputs
    <3> QED BY <3>1, HeadsAreSheets, HeaderIsBest, Zenon
  <2>2. Is("map") => MappingStable(Above(x), 2, [i \in DOMAIN x |-> x[i].facts], Fields, 30)
    <3> SUFFICES ASSUME Is("map")
                 PROVE  MappingStable(Above(x), 2, [i \in DOMAIN x |-> x[i].facts], Fields, 30)
      OBVIOUS
    <3> DEFINE rows == Above(x)
               cols == [i \in DOMAIN x |-> x[i].facts]
    <3>1. x \in Seq(MapColumns) BY Zenon DEF Inputs
    <3>2. IsMappable(rows, 2, cols, Fields) BY <3>1, AboveMappable, Zenon
    <3> DEFINE names == {"description", "quantity", "model"}
    <3>3. Fields \in Seq(names) BY ShortSeq, Zenon DEF Fields
    <3> HIDE DEF names
    <3> HIDE DEF rows, cols
    <3>4. MappingStable(rows, 2, cols, Fields, 30) BY <3>2, <3>3, MappingIsStable, Zenon
    <3> QED BY <3>4, Zenon DEF rows, cols
  <2>3. Is("type") => TypeNotGuessed(x)
    <3> SUFFICES ASSUME Is("type") PROVE TypeNotGuessed(x) OBVIOUS
    <3>1. x \in Heads BY Zenon DEF Inputs
    <3> QED BY <3>1, HeadsAreHeads, TypeIsTicked, Zenon
  <2>4. Is("end") => DataReadWhole(x, 1)
    <3> SUFFICES ASSUME Is("end") PROVE DataReadWhole(x, 1) OBVIOUS
    <3>1. x \in Seq(EndRows) BY Zenon DEF Inputs
    <3>2. 1 \in Nat OBVIOUS
    <3> QED BY <3>1, <3>2, DataAreReadWhole, Zenon
  <2>5. Is("number") => NumberFound(x, 3)
    <3> SUFFICES ASSUME Is("number") PROVE NumberFound(x, 3) OBVIOUS
    <3>1. x \in Seq(Seq(CellNames)) BY Zenon DEF Inputs, Is
    <3>2. IsColumn(x) BY <3>1 DEF IsColumn
    <3>3. 3 \in Nat OBVIOUS
    <3> QED BY <3>2, <3>3, NumberIsFound, Zenon
  <2>6. Is("revision") => RevisionFound(x)
    <3> SUFFICES ASSUME Is("revision") PROVE RevisionFound(x) OBVIOUS
    <3>1. x \in Seq(Seq(CellNames)) BY Zenon DEF Inputs, Is
    <3> QED BY <3>1, RevisionIsFound, Zenon
  <2>7. Is("valued") => \A n \in 0..Len(x), t \in BOOLEAN :
                          MetadataKept(SubSeq(x, 1, n), SubSeq(x, n + 1, Len(x)), t, "number")
    <3> SUFFICES ASSUME Is("valued"), NEW n \in 0..Len(x), NEW t \in BOOLEAN
                 PROVE  MetadataKept(SubSeq(x, 1, n), SubSeq(x, n + 1, Len(x)), t, "number")
      OBVIOUS
    <3>1. x \in Seq(ValuedLabels) BY Zenon DEF Inputs
    <3>2. SubSeq(x, 1, n) \in Seq(ValuedLabels) BY <3>1
    <3> QED BY <3>2, MetadataAreKept, Zenon
  <2> QED BY <2>1, <2>2, <2>3, <2>4, <2>5, <2>6, <2>7, Zenon DEF HeadIsRead
<1> QED BY <1>1, InputsAreTyped, PTL

\* Browser and API cut a file alike, and one round repairs what another left behind
\* (PartsMakeTheFile): direct_upload.py and direct-upload.ts, for every size of file and part.
THEOREM PartsMakeFiles == Spec => []PartsMakeTheFile
<1>1. Inputs => PartsMakeTheFile
  <2> SUFFICES ASSUME Inputs, Is("upload")
               PROVE  /\ SlicesCoverFile(x.size, x.part)
                      /\ CompleteIsWhole(x.held, x.size, x.part)
                      /\ RedoCompletes(x.held, x.size, x.part)
    BY DEF PartsMakeTheFile
  <2>1. x.size \in Nat \ {0} /\ x.part \in Nat \ {0} BY DEF Inputs
  <2> QED BY <2>1, SlicesAgree, WholeOrRefused, OneRoundCompletes, Zenon
<1> QED BY <1>1, InputsAreTyped, PTL

=============================================================================
