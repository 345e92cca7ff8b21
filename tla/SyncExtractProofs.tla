-------------------------- MODULE SyncExtractProofs --------------------------
(***************************************************************************)
(* Proofs about SyncExtract and the rates of CurrencyRates, for any number *)
(* of requests, processes, currencies and permits, and any lives.          *)
(***************************************************************************)
EXTENDS SyncExtract, WellFoundedInduction, FiniteSetTheorems, TLAPS

JobType ==
  [pc : RatePC, left : SUBSET Codes, answer : Time \cup {None, Unsupported},
   rates : [Codes -> Entry]]
HitType == [at : Time, quote : Time \cup {None, Unsupported}]

-----------------------------------------------------------------------------
(* The invariant of the rates *)

\* A job at time n: it asks for a code it still needs, an answer is as old as it may be, the
\* snapshot holds what the provider gave before, and misses only what the table lacks.
JobOK(b, n) ==
  /\ b.pc \in {"ask", "put", "save", "fall"} => b.left # {}
  /\ b.pc = "put" => b.answer # None
  /\ b.pc = "save" => b.answer \in Time
  /\ b.pc \in {"put", "save"} /\ b.answer # Unsupported => b.answer <= n /\ n - b.answer <= Delay
  /\ \A c \in Codes : /\ b.rates[c].source \in {"live", "cached"} => b.rates[c].quote \in 0..n
                      /\ b.rates[c].source = "unavailable" => c \notin Static
  /\ b.pc = "done" => \A c \in Codes : b.rates[c].source # "unavailable"
  /\ b.pc = "failed" => \E c \in Codes : b.rates[c].source = "unavailable"

\* A quote was put into the cache within Delay of its time.
HitOK(h, n) == h.quote \in Time => h.quote <= h.at /\ h.at <= n /\ h.at - h.quote <= Delay

SuccessOK(last, newest, n) ==
  /\ last <= n /\ newest <= n
  /\ newest # None => last # None /\ last >= newest - Delay

RateInv ==
  /\ \A j \in Jobs : JobOK(job[j], now)
  /\ \A p \in Procs, c \in Codes : HitOK(cache[p][c], now)
  /\ \A c \in Codes : SuccessOK(store[c], saved[c], now)

\* The invariant is enough.
LEMMA RatesFollow ==
  ASSUME RateTypes, RateInv
  PROVE  RatesAreGenuine /\ LastSuccessIsRecent
<1>1. PricedOrFailed
  BY DEF RateInv, JobOK, PricedOrFailed, JobAt
<1>2. CacheIsFresh
  <2> SUFFICES ASSUME NEW p \in Procs, NEW c \in Codes, Hit(p, c), cache[p][c].quote # Unsupported
               PROVE  now - cache[p][c].quote < TTL + Delay
    BY DEF CacheIsFresh
  <2>1. cache[p][c] \in HitType BY DEF RateTypes, HitType
  <2>2. cache[p][c].quote \in Time /\ cache[p][c].at \in Time
    BY <2>1 DEF Hit, HitType
  <2>3. now - cache[p][c].at < TTL BY DEF Hit
  <2>4. cache[p][c].at - cache[p][c].quote <= Delay BY <2>2 DEF RateInv, HitOK
  <2> QED BY <2>2, <2>3, <2>4, TimeAssumption DEF Time, RateTypes
<1>3. LastSuccessIsRecent
  BY DEF RateInv, SuccessOK, LastSuccessIsRecent
<1> QED BY <1>1, <1>2, <1>3 DEF RatesAreGenuine

-----------------------------------------------------------------------------
(* Steps of one job *)

\* A job that still needs codes has a first one.
LEMMA FirstCode ==
  ASSUME NEW left \in SUBSET Codes, left # {}
  PROVE  \E c \in left : \A d \in left : c <= d
<1>1. left \subseteq Nat BY CodesAssumption
<1>2. PICK c \in left : \A d \in left : ~(<<d, c>> \in OpToRel(<, Nat))
  BY <1>1, NatLessThanWellFounded, WFMin, Zenon
<1>3. \A d \in left : d \in Nat /\ c \in Nat BY <1>1
<1>4. \A d \in left : ~(d < c) BY <1>2, <1>3, Zenon DEF OpToRel
<1> QED BY <1>3, <1>4, SMT

LEMMA CodeAtHand ==
  ASSUME RateTypes, NEW j \in Jobs, job[j].left # {}
  PROVE  Code(j) \in Codes /\ Code(j) \in job[j].left
<1>1. job[j].left \in SUBSET Codes BY DEF RateTypes
<1> QED BY <1>1, FirstCode DEF Code

\* What a new label, and what resolving a code, make of the jobs.
LEMMA Relabelled ==
  ASSUME NEW s \in [Jobs -> JobType], NEW j \in Jobs, NEW l \in RatePC, NEW t,
         t = [s EXCEPT ![j].pc = l]
  PROVE  /\ t \in [Jobs -> JobType]
         /\ \A k \in Jobs \ {j} : t[k] = s[k]
         /\ t[j].pc = l /\ t[j].left = s[j].left /\ t[j].answer = s[j].answer /\ t[j].rates = s[j].rates
BY DEF JobType

\* Resolved, as an operator on the jobs.
With(s, j, c, e) ==
  [s EXCEPT ![j].rates[c] = e, ![j].left = @ \ {c}, ![j].pc = "next", ![j].answer = None]

LEMMA Settled ==
  ASSUME NEW s \in [Jobs -> JobType], NEW j \in Jobs, NEW c \in Codes, NEW e \in Entry, NEW t,
         t = With(s, j, c, e)
  PROVE  /\ t \in [Jobs -> JobType]
         /\ \A k \in Jobs \ {j} : t[k] = s[k]
         /\ t[j].pc = "next" /\ t[j].left = s[j].left \ {c} /\ t[j].answer = None
         /\ t[j].rates = [s[j].rates EXCEPT ![c] = e]
<1>1. s[j] \in JobType /\ s[j].rates \in [Codes -> Entry] /\ s[j].left \in SUBSET Codes BY DEF JobType
<1>2. \A k \in Jobs \ {j} : t[k] = s[k] BY DEF With
<1>3. t[j].pc = "next" /\ t[j].left = s[j].left \ {c} /\ t[j].answer = None BY <1>1 DEF With, JobType
<1>4. t[j].rates = [s[j].rates EXCEPT ![c] = e] BY <1>1 DEF With, JobType
<1>5. t[j] \in JobType BY <1>1, <1>4 DEF With, JobType, RatePC
<1>6. t \in [Jobs -> JobType] BY <1>5 DEF With
<1> QED BY <1>2, <1>3, <1>4, <1>6

\* A step that concerns one job.
LEMMA OneJob ==
  ASSUME RateTypes, RateInv, NEW j \in Jobs, job' \in [Jobs -> JobType],
         \A k \in Jobs \ {j} : job'[k] = job[k], JobOK(job'[j], now)
  PROVE  \A k \in Jobs : JobOK(job'[k], now)
BY DEF RateInv

\* A code is resolved with a genuine rate, or for want of one.
LEMMA ResolvedWell ==
  ASSUME RateTypes, RateInv, NEW j \in Jobs, job[j].left # {},
         NEW source \in Sources, NEW quote \in Time \cup {None}, Resolved(j, source, quote),
         source \in {"live", "cached"} => quote \in 0..now,
         source = "unavailable" => Code(j) \notin Static
  PROVE  job' \in [Jobs -> JobType] /\ \A k \in Jobs : JobOK(job'[k], now)
<1> DEFINE e == [source |-> source, quote |-> quote]
<1>1. Code(j) \in Codes BY CodeAtHand
<1>2. PICK c \in Codes : c = Code(j) BY <1>1
<1>3. PICK s \in [Jobs -> JobType] : s = job BY DEF RateTypes, JobType
<1>4. PICK x \in Entry : x = e BY DEF Entry
<1>5. PICK t : t = job' OBVIOUS
<1>6. t = With(s, j, c, x) BY <1>2, <1>3, <1>4, <1>5 DEF With, Resolved
<1> HIDE DEF e
<1>7. /\ t \in [Jobs -> JobType]
      /\ \A k \in Jobs \ {j} : t[k] = s[k]
      /\ t[j].pc = "next" /\ t[j].left = s[j].left \ {c} /\ t[j].answer = None
      /\ t[j].rates = [s[j].rates EXCEPT ![c] = x]
  BY <1>6, Settled
<1>8. s[j].rates \in [Codes -> Entry] BY DEF JobType
<1>9. ASSUME NEW d \in Codes
      PROVE  /\ t[j].rates[d].source \in {"live", "cached"} => t[j].rates[d].quote \in 0..now
             /\ t[j].rates[d].source = "unavailable" => d \notin Static
  <2>1. CASE d = c
    <3>1. t[j].rates[d] = x BY <1>7, <1>8, <2>1
    <3>2. x.source = source /\ x.quote = quote BY <1>4 DEF e
    <3> QED BY <1>2, <2>1, <3>1, <3>2
  <2>2. CASE d # c
    <3>1. t[j].rates[d] = job[j].rates[d] BY <1>3, <1>7, <1>8, <2>2
    <3> QED BY <3>1 DEF RateInv, JobOK
  <2> QED BY <2>1, <2>2
<1>10. JobOK(t[j], now) BY <1>7, <1>9 DEF JobOK
<1> QED BY <1>3, <1>5, <1>7, <1>10, OneJob

\* A job goes on with the same snapshot.
LEMMA WentWell ==
  ASSUME RateTypes, RateInv, NEW j \in Jobs, NEW l \in RatePC, JobGoes(j, l),
         l \in {"ask", "save", "fall"} => job[j].left # {},
         l # "put", l = "save" => JobAt(j, "put") /\ job[j].answer # Unsupported,
         l = "done" => \A c \in Codes : job[j].rates[c].source # "unavailable",
         l = "failed" => \E c \in Codes : job[j].rates[c].source = "unavailable"
  PROVE  job' \in [Jobs -> JobType] /\ \A k \in Jobs : JobOK(job'[k], now)
<1>1. job \in [Jobs -> JobType] BY DEF RateTypes, JobType
<1>2. job' = [job EXCEPT ![j].pc = l] BY DEF JobGoes
<1>3. /\ job' \in [Jobs -> JobType]
      /\ \A k \in Jobs \ {j} : job'[k] = job[k]
      /\ job'[j].pc = l /\ job'[j].left = job[j].left
      /\ job'[j].answer = job[j].answer /\ job'[j].rates = job[j].rates
  BY <1>1, <1>2, Relabelled
<1>4. job[j].answer \in Time \cup {None, Unsupported} BY <1>1 DEF JobType
<1>5. JobOK(job[j], now) BY DEF RateInv
<1>6. JobOK(job'[j], now)
  <2>1. CASE l = "save"
    <3>1. job[j].answer \in Time /\ job[j].answer <= now /\ now - job[j].answer <= Delay
      BY <1>4, <1>5, <2>1 DEF JobOK, JobAt
    <3> QED BY <1>3, <1>5, <2>1, <3>1 DEF JobOK
  <2>2. CASE l # "save"
    BY <1>3, <1>5, <2>2 DEF JobOK
  <2> QED BY <2>1, <2>2
<1> QED BY <1>3, <1>6, OneJob

-----------------------------------------------------------------------------
(* Every step keeps the invariant of the rates *)

LEMMA FramesKept ==
  ASSUME RateTypes, RateInv, now' = now,
         job' \in [Jobs -> JobType], \A k \in Jobs : JobOK(job'[k], now),
         cache' = cache, store' = store, saved' = saved
  PROVE  RateTypes' /\ RateInv'
BY DEF RateTypes, RateInv, JobType

LEMMA LookUpKept ==
  ASSUME RateTypes, RateInv, NEW j \in Jobs, LookUp(j)
  PROVE  RateTypes' /\ RateInv'
<1>1. /\ JobAt(j, "next") /\ job[j].left # {}
      /\ now' = now /\ store' = store /\ saved' = saved
  BY DEF LookUp
<1>2. PICK p \in Procs : p = ProcOf[j] BY ProcAssumption
<1>3. PICK c \in Codes : c = Code(j) BY <1>1, CodeAtHand
<1>4. cache[p][c] \in HitType /\ HitOK(cache[p][c], now) BY DEF RateTypes, RateInv, HitType
<1>5. CASE Hit(p, c)
  <2>1. cache' = cache BY <1>2, <1>3, <1>5 DEF LookUp
  <2>2. PICK q : q = cache[p][c].quote OBVIOUS
  <2>3. CASE q = Unsupported
    <3>1. Resolved(j, "unsupported", None) BY <1>2, <1>3, <1>5, <2>2, <2>3 DEF LookUp
    <3> QED BY <1>1, <2>1, <3>1, ResolvedWell, FramesKept DEF Sources
  <2>4. CASE q # Unsupported
    <3>1. Resolved(j, "live", q) BY <1>2, <1>3, <1>5, <2>2, <2>4 DEF LookUp
    <3>2. q \in Time /\ q <= cache[p][c].at /\ cache[p][c].at <= now /\ cache[p][c].at \in Time
      BY <1>4, <1>5, <2>2, <2>4 DEF Hit, HitType, HitOK
    <3>3. q \in 0..now BY <3>2, TimeAssumption DEF Time, RateTypes
    <3>4. job' \in [Jobs -> JobType] /\ \A k \in Jobs : JobOK(job'[k], now)
      BY <1>1, <3>1, <3>2, <3>3, ResolvedWell DEF Sources
    <3> QED BY <1>1, <2>1, <3>4, FramesKept
  <2> QED BY <2>3, <2>4
<1>6. CASE ~Hit(p, c)
  <2>1. JobGoes(j, "ask") /\ cache' = [cache EXCEPT ![p][c] = NoHit] BY <1>2, <1>3, <1>6 DEF LookUp
  <2>2. job' \in [Jobs -> JobType] /\ \A k \in Jobs : JobOK(job'[k], now)
    BY <1>1, <2>1, WentWell DEF RatePC
  <2>3. NoHit \in HitType /\ HitOK(NoHit, now)
    BY TimeAssumption DEF NoHit, HitType, HitOK, Time, None, Unsupported
  <2>4. cache' \in [Procs -> [Codes -> HitType]] BY <2>1, <2>3 DEF RateTypes, HitType
  <2>5. \A o \in Procs, d \in Codes : cache'[o][d] = cache[o][d] \/ cache'[o][d] = NoHit
    BY <2>1 DEF RateTypes
  <2>6. \A o \in Procs, d \in Codes : HitOK(cache'[o][d], now) BY <2>3, <2>5 DEF RateInv
  <2> QED BY <1>1, <2>2, <2>4, <2>6 DEF RateTypes, RateInv, JobType, HitType
<1> QED BY <1>5, <1>6

LEMMA AnswerKept ==
  ASSUME RateTypes, RateInv, NEW j \in Jobs, Answer(j)
  PROVE  RateTypes' /\ RateInv'
<1>1. PICK a \in {now, Unsupported} : job' = [job EXCEPT ![j].pc = "put", ![j].answer = a]
  BY DEF Answer
<1>2. job \in [Jobs -> JobType] BY DEF RateTypes, JobType
<1>3. a \in Time \cup {None, Unsupported} /\ a # None BY DEF RateTypes, Time, None, Unsupported
<1>4. /\ job' \in [Jobs -> JobType]
      /\ \A k \in Jobs \ {j} : job'[k] = job[k]
      /\ job'[j].pc = "put" /\ job'[j].answer = a
      /\ job'[j].left = job[j].left /\ job'[j].rates = job[j].rates
  BY <1>1, <1>2, <1>3 DEF JobType, RatePC
<1>5. JobOK(job[j], now) /\ JobAt(j, "ask") BY DEF RateInv, Answer
<1>6. a # Unsupported => a <= now /\ now - a <= Delay
  BY TimeAssumption DEF RateTypes, Time
<1>7. JobOK(job'[j], now) BY <1>3, <1>4, <1>5, <1>6 DEF JobOK, JobAt
<1>8. \A k \in Jobs : JobOK(job'[k], now) BY <1>4, <1>7, OneJob
<1> QED BY <1>4, <1>8, FramesKept DEF Answer

LEMMA PutKept ==
  ASSUME RateTypes, RateInv, NEW j \in Jobs, Put(j)
  PROVE  RateTypes' /\ RateInv'
<1>1. JobAt(j, "put") /\ now' = now /\ store' = store /\ saved' = saved BY DEF Put
<1>2. job[j] \in JobType /\ JobOK(job[j], now) BY DEF RateTypes, RateInv, JobType
<1>3. job[j].left # {} BY <1>1, <1>2 DEF JobOK, JobAt
<1>4. PICK p \in Procs : p = ProcOf[j] BY ProcAssumption
<1>5. PICK c \in Codes : c = Code(j) BY <1>3, CodeAtHand
<1>6. PICK a : a = job[j].answer OBVIOUS
<1>7. /\ a \in Time \cup {Unsupported}
      /\ a # Unsupported => a <= now /\ now - a <= Delay
  BY <1>1, <1>2, <1>6 DEF JobType, JobOK, JobAt
<1>8. PICK h : h = [at |-> now, quote |-> a] OBVIOUS
<1>9. h \in HitType /\ HitOK(h, now)
  BY <1>7, <1>8 DEF HitType, HitOK, RateTypes, Time, Unsupported
<1>10. cache' = [cache EXCEPT ![p][c] = h] BY <1>4, <1>5, <1>6, <1>8 DEF Put
<1>11. cache' \in [Procs -> [Codes -> HitType]] BY <1>9, <1>10 DEF RateTypes, HitType
<1>12. \A o \in Procs, d \in Codes : cache'[o][d] = cache[o][d] \/ cache'[o][d] = h
  BY <1>10 DEF RateTypes
<1>13. \A o \in Procs, d \in Codes : HitOK(cache'[o][d], now) BY <1>9, <1>12 DEF RateInv
<1>14. job' \in [Jobs -> JobType] /\ \A k \in Jobs : JobOK(job'[k], now)
  <2>1. CASE a = Unsupported
    <3>1. Resolved(j, "unsupported", None) BY <1>6, <2>1 DEF Put
    <3> QED BY <1>3, <3>1, ResolvedWell DEF Sources
  <2>2. CASE a # Unsupported
    <3>1. JobGoes(j, "save") BY <1>6, <2>2 DEF Put
    <3> QED BY <1>1, <1>3, <1>6, <2>2, <3>1, WentWell DEF RatePC
  <2> QED BY <2>1, <2>2
<1> QED BY <1>1, <1>11, <1>13, <1>14 DEF RateTypes, RateInv, JobType, HitType

LEMMA SaveKept ==
  ASSUME RateTypes, RateInv, NEW j \in Jobs, Save(j)
  PROVE  RateTypes' /\ RateInv'
<1>1. JobAt(j, "save") /\ now' = now /\ cache' = cache BY DEF Save
<1>2. job[j] \in JobType /\ JobOK(job[j], now) BY DEF RateTypes, RateInv, JobType
<1>3. job[j].left # {} BY <1>1, <1>2 DEF JobOK, JobAt
<1>4. PICK c \in Codes : c = Code(j) BY <1>3, CodeAtHand
<1>5. PICK a \in Time : a = job[j].answer BY <1>1, <1>2 DEF JobOK, JobAt
<1>6. a <= now /\ now - a <= Delay
  BY <1>1, <1>2, <1>5 DEF JobOK, JobAt, Time, Unsupported
<1>7. Resolved(j, "live", a) BY <1>5 DEF Save
<1>8. a \in 0..now BY <1>6, TimeAssumption DEF Time, RateTypes
<1>9. job' \in [Jobs -> JobType] /\ \A k \in Jobs : JobOK(job'[k], now)
  BY <1>3, <1>7, <1>8, ResolvedWell DEF Sources
<1>10. CASE UNCHANGED <<store, saved>>
  BY <1>1, <1>9, <1>10, FramesKept
<1>11. CASE store' = [store EXCEPT ![c] = a] /\ saved' = [saved EXCEPT ![c] = IF a > @ THEN a ELSE @]
  <2>1. store' \in [Codes -> Time \cup {None}] /\ saved' \in [Codes -> Time \cup {None}]
    BY <1>11 DEF RateTypes
  <2>2. saved[c] \in Time \cup {None} /\ saved[c] <= now BY DEF RateTypes, RateInv, SuccessOK
  <2>3. store'[c] = a /\ saved'[c] \in {a, saved[c]} BY <1>11 DEF RateTypes
  <2>4. SuccessOK(store'[c], saved'[c], now)
    BY <1>6, <2>2, <2>3, TimeAssumption DEF SuccessOK, Time, None, RateTypes
  <2>5. \A d \in Codes \ {c} : store'[d] = store[d] /\ saved'[d] = saved[d] BY <1>11 DEF RateTypes
  <2>6. \A d \in Codes : SuccessOK(store'[d], saved'[d], now) BY <2>4, <2>5 DEF RateInv
  <2> QED BY <1>1, <1>9, <2>1, <2>6 DEF RateTypes, RateInv, JobType
<1> QED BY <1>4, <1>5, <1>10, <1>11 DEF Save

LEMMA FallBackKept ==
  ASSUME RateTypes, RateInv, NEW j \in Jobs, FallBack(j)
  PROVE  RateTypes' /\ RateInv'
<1>1. JobAt(j, "fall") BY DEF FallBack
<1>2. job[j].left # {} BY <1>1 DEF RateInv, JobOK, JobAt
<1>3. PICK c \in Codes : c = Code(j) BY <1>2, CodeAtHand
<1>4. PICK q \in Time \cup {None} : q = store[c] BY DEF RateTypes
<1>5. q # None => q \in 0..now
  BY <1>4, TimeAssumption DEF RateTypes, RateInv, SuccessOK, Time
<1>6. job' \in [Jobs -> JobType] /\ \A k \in Jobs : JobOK(job'[k], now)
  <2>1. CASE q # None /\ Resolved(j, "cached", q) BY <1>2, <1>5, <2>1, ResolvedWell DEF Sources
  <2>2. CASE Resolved(j, "fallback", None) BY <1>2, <2>2, ResolvedWell DEF Sources
  <2>3. CASE c \notin Static /\ Resolved(j, "unavailable", None)
    BY <1>2, <1>3, <2>3, ResolvedWell DEF Sources
  <2> QED BY <1>3, <1>4, <2>1, <2>2, <2>3 DEF FallBack
<1> QED BY <1>6, FramesKept DEF FallBack

LEMMA RateStepKept ==
  ASSUME RateTypes, RateInv, NEW j \in Jobs, RateStep(j)
  PROVE  RateTypes' /\ RateInv'
<1>1. CASE NoAnswer(j)
  <2>1. job[j].left # {} BY <1>1 DEF NoAnswer, RateInv, JobOK, JobAt
  <2>2. job' \in [Jobs -> JobType] /\ \A k \in Jobs : JobOK(job'[k], now)
    BY <1>1, <2>1, WentWell DEF NoAnswer, RatePC
  <2> QED BY <1>1, <2>2, FramesKept DEF NoAnswer
<1>2. CASE Convert(j)
  <2>1. PICK l \in {"done", "failed"} :
          /\ JobGoes(j, l)
          /\ l = "failed" <=> \E c \in Codes : job[j].rates[c].source = "unavailable"
    BY <1>2 DEF Convert
  <2>2. job' \in [Jobs -> JobType] /\ \A k \in Jobs : JobOK(job'[k], now)
    BY <2>1, WentWell DEF RatePC
  <2> QED BY <1>2, <2>2, FramesKept DEF Convert
<1> QED BY <1>1, <1>2, LookUpKept, AnswerKept, PutKept, SaveKept, FallBackKept DEF RateStep

\* The beginning of a conversion, its end, and the clock.
LEMMA JobBegins ==
  ASSUME RateTypes, RateInv, NEW j \in Jobs, NEW codes \in SUBSET Codes, NeedRates(j, codes)
  PROVE  RateTypes' /\ RateInv'
<1>1. job' = [job EXCEPT ![j].pc = "next", ![j].left = codes] BY DEF NeedRates
<1>2. job \in [Jobs -> JobType] BY DEF RateTypes, JobType
<1>3. /\ job' \in [Jobs -> JobType]
      /\ \A k \in Jobs \ {j} : job'[k] = job[k]
      /\ job'[j].pc = "next" /\ job'[j].rates = job[j].rates
  <2>1. job[j] \in JobType BY <1>2
  <2>2. [job[j] EXCEPT !.pc = "next", !.left = codes] \in JobType BY <2>1 DEF JobType, RatePC
  <2>3. job' = [job EXCEPT ![j] = [job[j] EXCEPT !.pc = "next", !.left = codes]] BY <1>1
  <2>4. /\ job'[j] = [job[j] EXCEPT !.pc = "next", !.left = codes]
        /\ \A k \in Jobs \ {j} : job'[k] = job[k]
        /\ job' \in [Jobs -> JobType]
    BY <1>2, <2>2, <2>3
  <2> QED BY <2>1, <2>4 DEF JobType
<1>4. JobOK(job'[j], now) BY <1>3 DEF RateInv, JobOK
<1>5. \A k \in Jobs : JobOK(job'[k], now) BY <1>3, <1>4, OneJob
<1> QED BY <1>3, <1>5, FramesKept DEF NeedRates

LEMMA NoJobOK == NoJob \in JobType /\ \A n : JobOK(NoJob, n)
<1>1. NoRate \in Entry BY DEF NoRate, Entry, Sources
<1>2. NoJob \in JobType BY <1>1 DEF NoJob, JobType, RatePC
<1>3. \A c \in Codes : NoJob.rates[c].source = "none" BY DEF NoJob, NoRate
<1>4. NoJob.pc = "idle" BY DEF NoJob
<1> QED BY <1>2, <1>3, <1>4 DEF JobOK

LEMMA JobEnds ==
  ASSUME RateTypes, RateInv, NEW j \in Jobs, Leave(j)
  PROVE  RateTypes' /\ RateInv'
<1>1. job' = [job EXCEPT ![j] = NoJob] BY DEF Leave
<1>2. job \in [Jobs -> JobType] BY DEF RateTypes, JobType
<1>3. job' \in [Jobs -> JobType] BY <1>1, <1>2, NoJobOK
<1>4. \A k \in Jobs : JobOK(job'[k], now) BY <1>1, <1>2, NoJobOK DEF RateInv
<1> QED BY <1>3, <1>4, FramesKept DEF Leave

LEMMA TickKept ==
  ASSUME RateTypes, RateInv, Tick
  PROVE  RateTypes' /\ RateInv'
<1>1. /\ now \in Time /\ now' = now + 1 /\ now' \in Time
      /\ cache' = cache /\ store' = store /\ saved' = saved /\ job' = job
  BY TimeAssumption DEF Tick, RateTypes, Time
<1>2. ASSUME NEW j \in Jobs PROVE JobOK(job[j], now + 1)
  <2>1. job[j] \in JobType /\ JobOK(job[j], now) BY DEF RateTypes, RateInv, JobType
  <2>2. PICK b \in JobType : b = job[j] BY <2>1
  <2>3. b.answer \in Int BY <2>2 DEF JobType, Time, None, Unsupported
  <2>4. b.pc \in {"put", "save"} /\ b.answer # Unsupported => b.answer <= now + 1 /\ (now + 1) - b.answer <= Delay
    BY <1>1, <2>1, <2>2, <2>3, TimeAssumption DEF Tick, JobOK, Time
  <2>5. \A c \in Codes : b.rates[c].source \in {"live", "cached"} => b.rates[c].quote \in 0..(now + 1)
    BY <1>1, <2>1, <2>2 DEF JobOK, Time
  <2>6. JobOK(b, now) BY <2>1, <2>2
  <2>7. JobOK(b, now + 1) BY <2>4, <2>5, <2>6 DEF JobOK
  <2> QED BY <2>2, <2>7
<1>3. ASSUME NEW p \in Procs, NEW c \in Codes PROVE HitOK(cache[p][c], now + 1)
  <2>1. cache[p][c] \in HitType BY DEF RateTypes, HitType
  <2>2. cache[p][c].at \in Int BY <2>1 DEF HitType, Time
  <2> QED BY <1>1, <2>2 DEF RateInv, HitOK, Time
<1>4. ASSUME NEW c \in Codes PROVE SuccessOK(store[c], saved[c], now + 1)
  <2>1. store[c] \in Int /\ saved[c] \in Int BY DEF RateTypes, Time, None
  <2> QED BY <1>1, <2>1 DEF RateInv, SuccessOK, Time
<1>5. RateTypes' BY <1>1 DEF RateTypes
<1> QED BY <1>1, <1>2, <1>3, <1>4, <1>5 DEF RateInv

LEMMA RatesBegin ==
  ASSUME RateInit
  PROVE  RateTypes /\ RateInv
<1>1. NoHit \in HitType /\ \A n : HitOK(NoHit, n)
  BY TimeAssumption DEF NoHit, HitType, HitOK, Time, None, Unsupported
<1>2. RateTypes BY <1>1, NoJobOK, TimeAssumption DEF RateInit, RateTypes, HitType, JobType, Time
<1>3. \A c \in Codes : SuccessOK(store[c], saved[c], now) BY DEF RateInit, SuccessOK, None
<1>4. \A j \in Jobs : JobOK(job[j], now) BY NoJobOK DEF RateInit
<1>5. \A p \in Procs, c \in Codes : HitOK(cache[p][c], now) BY <1>1 DEF RateInit
<1> QED BY <1>2, <1>3, <1>4, <1>5 DEF RateInv

-----------------------------------------------------------------------------
(* The requests *)

\* A request that has its permit.
Held == {r \in Jobs : web[r] = "waiting"}
AllPermits == permits + Cardinality(Held) = Permits

WebInv ==
  /\ web \in [Jobs -> WebPC] /\ temp \subseteq Jobs
  /\ \A r \in Jobs : r \in temp <=> web[r] \in {"received", "waiting", "saving"}
  /\ IsFiniteSet(Held) /\ permits \in Nat /\ AllPermits

\* How a request takes its permit and gives it back.
LEMMA Taking ==
  ASSUME WebInv, NEW r \in Jobs, web[r] # "waiting", WebGoes(r, "waiting"), permits > 0, permits' = permits - 1
  PROVE  IsFiniteSet(Held') /\ permits' \in Nat /\ AllPermits'
<1>1. Held' = Held \cup {r} BY DEF Held, WebGoes, WebInv
<1>2. r \notin Held BY DEF Held
<1>3. Cardinality(Held) \in Nat BY FS_CardinalityType DEF WebInv
<1>4. IsFiniteSet(Held') /\ Cardinality(Held') = Cardinality(Held) + 1
  BY <1>1, <1>2, FS_AddElement DEF WebInv
<1> QED BY <1>3, <1>4, PermitsAssumption DEF WebInv, AllPermits

LEMMA GivingBack ==
  ASSUME WebInv, NEW r \in Jobs, web[r] = "waiting", NEW l \in WebPC \ {"waiting"}, WebGoes(r, l), permits' = permits + 1
  PROVE  IsFiniteSet(Held') /\ permits' \in Nat /\ AllPermits'
<1>1. Held' = Held \ {r} BY DEF Held, WebGoes, WebInv
<1>2. r \in Held BY DEF Held
<1>3. Cardinality(Held) \in Nat BY FS_CardinalityType DEF WebInv
<1>4. IsFiniteSet(Held') /\ Cardinality(Held') = Cardinality(Held) - 1
  BY <1>1, <1>2, FS_RemoveElement DEF WebInv
<1> QED BY <1>3, <1>4, PermitsAssumption DEF WebInv, AllPermits

LEMMA PassingBy ==
  ASSUME WebInv, NEW r \in Jobs, web[r] # "waiting", NEW l \in WebPC \ {"waiting"}, WebGoes(r, l), permits' = permits
  PROVE  IsFiniteSet(Held') /\ permits' \in Nat /\ AllPermits'
<1>1. Held' = Held BY DEF Held, WebGoes, WebInv
<1> QED BY <1>1 DEF WebInv, AllPermits

LEMMA HandleKept ==
  ASSUME WebInv, NEW r \in Jobs, Handle(r)
  PROVE  WebInv'
<1>1. CASE Receive(r)
  <2>1. PICK l \in {"received", "error"} : WebGoes(r, l) /\ temp' = IF l = "received" THEN temp \cup {r} ELSE temp
    BY <1>1 DEF Receive
  <2>2. web[r] = "new" /\ permits' = permits BY <1>1 DEF Receive
  <2>3. IsFiniteSet(Held') /\ permits' \in Nat /\ AllPermits'
    BY <2>1, <2>2, PassingBy DEF WebPC, Answers
  <2> QED BY <2>1, <2>2, <2>3 DEF WebInv, WebGoes, WebPC, Answers
<1>2. CASE HandToWorkers(r) \/ Reply(r)
  <2>1. PICK l \in Answers : Answered(r, l) BY <1>2 DEF HandToWorkers, Reply, Answers
  <2>2. web[r] \in {"received", "saving"} /\ permits' = permits BY <1>2 DEF HandToWorkers, Reply
  <2>3. IsFiniteSet(Held') /\ permits' \in Nat /\ AllPermits'
    BY <2>1, <2>2, PassingBy DEF WebPC, Answers, Answered
  <2> QED BY <2>1, <2>2, <2>3 DEF WebInv, Answered, WebGoes, WebPC, Answers
<1>3. CASE Acquire(r)
  <2>1. IsFiniteSet(Held') /\ permits' \in Nat /\ AllPermits' BY <1>3, Taking DEF Acquire
  <2> QED BY <1>3, <2>1 DEF Acquire, WebInv, WebGoes, WebPC
<1>4. CASE TimeOut(r) \/ Fail(r)
  <2>1. web[r] = "waiting" /\ permits' = permits + 1 /\ Answered(r, "error") BY <1>4 DEF TimeOut, Fail
  <2>2. IsFiniteSet(Held') /\ permits' \in Nat /\ AllPermits'
    BY <2>1, GivingBack DEF WebPC, Answers, Answered
  <2> QED BY <2>1, <2>2 DEF WebInv, Answered, WebGoes, WebPC, Answers
<1>5. CASE Finish(r)
  <2>1. IsFiniteSet(Held') /\ permits' \in Nat /\ AllPermits' BY <1>5, GivingBack DEF Finish, WebPC
  <2> QED BY <1>5, <2>1 DEF Finish, WebInv, WebGoes, WebPC
<1> QED BY <1>1, <1>2, <1>3, <1>4, <1>5 DEF Handle

LEMMA OthersKeepWeb ==
  ASSUME WebInv, UNCHANGED <<web, temp, permits>>
  PROVE  WebInv'
BY DEF WebInv, Held, AllPermits

-----------------------------------------------------------------------------
(* The threads *)

\* Where a request of the API's own threads stands tells where its call may be.
ThreadInv ==
  /\ thread \in [Jobs -> ThreadPC] /\ pool \in Seq(Jobs)
  /\ \A r \in Jobs \ Big :
       /\ web[r] \in {"new", "received"} => thread[r] = "none"
       /\ web[r] = "saving" => thread[r] = "ended"
       /\ thread[r] = "queued" => web[r] = "waiting"

\* A step of thread r, beyond its start.
LEMMA ThreadWent ==
  ASSUME WebInv, ThreadInv, NEW r \in Jobs, Taken(r), NEW l \in ThreadPC \ {"none", "queued"}, ThreadGoes(r, l),
         web' = web, pool' = pool
  PROVE  ThreadInv'
BY DEF WebInv, ThreadInv, ThreadGoes, Taken, WebPC, Big

LEMMA HandleKeepsThreads ==
  ASSUME WebInv, ThreadInv, NEW r \in Jobs, Handle(r)
  PROVE  ThreadInv'
<1> USE DEF WebInv, ThreadInv, WebGoes, WebPC, Answers, Big
<1>1. CASE Receive(r) BY <1>1 DEF Receive
<1>2. CASE HandToWorkers(r) BY <1>2 DEF HandToWorkers, Answered, ThreadGoes, ThreadPC
<1>3. CASE Acquire(r) BY <1>3 DEF Acquire, ThreadGoes, ThreadPC
<1>4. CASE TimeOut(r)
  <2>1. /\ thread' \in [Jobs -> ThreadPC]
        /\ thread'[r] # "queued"
        /\ \A s \in Jobs \ {r} : thread'[s] = thread[s]
    BY <1>4 DEF TimeOut, ThreadPC
  <2> QED BY <1>4, <2>1 DEF TimeOut, Answered
<1>5. CASE Fail(r) BY <1>5 DEF Fail, Answered
<1>6. CASE Finish(r) BY <1>6 DEF Finish
<1>7. CASE Reply(r) BY <1>7 DEF Reply, Answered
<1> QED BY <1>1, <1>2, <1>3, <1>4, <1>5, <1>6, <1>7 DEF Handle

LEMMA StartKeepsThreads ==
  ASSUME WebInv, ThreadInv, Start
  PROVE  ThreadInv'
<1>1. pool # <<>> /\ pool' = Tail(pool) /\ web' = web BY DEF Start
<1>2. pool' \in Seq(Jobs) BY <1>1 DEF ThreadInv
<1>3. PICK r \in Jobs : r = Head(pool) BY <1>1 DEF ThreadInv
<1>4. CASE thread[r] = "queued" /\ ThreadGoes(r, "started")
  BY <1>1, <1>2, <1>4 DEF ThreadInv, ThreadGoes, ThreadPC, WebInv, WebPC
<1>5. CASE UNCHANGED thread
  BY <1>1, <1>2, <1>5 DEF ThreadInv
<1> QED BY <1>3, <1>4, <1>5 DEF Start

LEMMA OthersKeepThreads ==
  ASSUME ThreadInv, UNCHANGED <<web, thread, pool>>
  PROVE  ThreadInv'
BY DEF ThreadInv

\* A call times out unstarted in a full pool: its own permit is one that no thread uses, so
\* some thread has none.
LEMMA Starved ==
  ASSUME WebInv, ThreadInv, NEW r \in Jobs, web[r] = "waiting", thread[r] = "queued", Cardinality(Busy) = Permits
  PROVE  \E s \in Jobs : Orphan(s)
<1> SUFFICES ASSUME \A s \in Jobs : ~Orphan(s) PROVE FALSE OBVIOUS
<1>1. ASSUME NEW s \in Busy PROVE s \in Held \ {r}
  <2>1. s \in Jobs \ Big /\ Taken(s) BY DEF Busy
  <2>2. web[s] \notin Answers BY <2>1 DEF Orphan
  <2>3. web[s] = "waiting" BY <2>1, <2>2 DEF WebInv, ThreadInv, WebPC, Taken
  <2> QED BY <2>1, <2>3 DEF Held, Taken
<1>2. r \in Held BY DEF Held
<1>3. IsFiniteSet(Held) BY DEF WebInv
<1>4. IsFiniteSet(Held \ {r}) /\ Cardinality(Held \ {r}) = Cardinality(Held) - 1
  BY <1>2, <1>3, FS_RemoveElement
<1>5. Cardinality(Busy) <= Cardinality(Held \ {r}) BY <1>1, <1>4, FS_Subset
<1>6. Cardinality(Held) \in Nat BY <1>3, FS_CardinalityType
<1> QED BY <1>4, <1>5, <1>6, PermitsAssumption DEF WebInv, AllPermits

-----------------------------------------------------------------------------
(* Together *)

SyncInv == RateTypes /\ RateInv /\ WebInv /\ ThreadInv

LEMMA SyncBegins == Init => SyncInv
<1> SUFFICES ASSUME Init PROVE SyncInv OBVIOUS
<1>1. Held = {} BY DEF Held, Init
<1>2. IsFiniteSet(Held) /\ Cardinality(Held) = 0 BY <1>1, FS_EmptySet
<1>3. WebInv BY <1>2, PermitsAssumption DEF WebInv, AllPermits, Init, WebPC
<1>4. ThreadInv BY DEF ThreadInv, Init, ThreadPC
<1> QED BY <1>3, <1>4, RatesBegin DEF Init, SyncInv

LEMMA RatesUnchanged ==
  ASSUME RateTypes, RateInv, UNCHANGED rateVars
  PROVE  RateTypes' /\ RateInv'
BY DEF rateVars, RateTypes, RateInv

LEMMA SyncStep == SyncInv /\ [Next]_vars => SyncInv'
<1> SUFFICES ASSUME SyncInv, [Next]_vars PROVE SyncInv' OBVIOUS
<1> USE DEF SyncInv
<1>1. ASSUME NEW r \in Jobs, Handle(r) PROVE SyncInv'
  <2>1. UNCHANGED rateVars
    BY <1>1 DEF Handle, Receive, HandToWorkers, Acquire, TimeOut, Fail, Finish, Reply
  <2> QED BY <1>1, <2>1, HandleKept, HandleKeepsThreads, RatesUnchanged
<1>2. ASSUME NEW r \in Jobs, Take(r) PROVE SyncInv'
  <2>1. ThreadInv' BY <1>2 DEF Take, ThreadInv, ThreadGoes, ThreadPC
  <2> QED BY <1>2, <2>1, RatesUnchanged, OthersKeepWeb DEF Take
<1>3. ASSUME NEW r \in Jobs, Extract(r) PROVE SyncInv'
  <2>1. RateTypes' /\ RateInv'
    BY <1>3, PricedAssumption, JobBegins, RatesUnchanged DEF Extract
  <2>2. ThreadInv' BY <1>3, ThreadWent DEF Extract, Taken, ThreadPC
  <2> QED BY <1>3, <2>1, <2>2, OthersKeepWeb DEF Extract
<1>4. ASSUME NEW r \in Jobs, Rate(r) PROVE SyncInv'
  BY <1>4, RateStepKept, OthersKeepWeb, OthersKeepThreads DEF Rate, syncVars
<1>5. ASSUME NEW r \in Jobs, End(r) PROVE SyncInv'
  <2>1. ThreadInv' BY <1>5, ThreadWent DEF End, Taken, ThreadPC
  <2> QED BY <1>5, <2>1, JobEnds, OthersKeepWeb DEF End
<1>6. CASE Start
  BY <1>6, RatesUnchanged, OthersKeepWeb, StartKeepsThreads DEF Start
<1>7. CASE Tick /\ UNCHANGED syncVars
  BY <1>7, TickKept, OthersKeepWeb, OthersKeepThreads DEF syncVars
<1>8. CASE UNCHANGED vars
  BY <1>8, RatesUnchanged, OthersKeepWeb, OthersKeepThreads DEF vars, syncVars
<1> QED BY <1>1, <1>2, <1>3, <1>4, <1>5, <1>6, <1>7, <1>8 DEF Next

LEMMA SyncAlways == Spec => []SyncInv
BY SyncBegins, SyncStep, PTL DEF Spec

\* Whatever threads and processes ask, answer, cache and overwrite, no job prices with a rate
\* the provider did not give, or with one staler than its cache promises, and none fails for a
\* code the table has (currency_service.py, pipeline.py).
THEOREM RatesGenuine == Spec => []RatesAreGenuine
<1>1. SyncInv => RatesAreGenuine BY RatesFollow DEF SyncInv
<1> QED BY <1>1, SyncAlways, PTL

\* Last writers win, and yet the last success in Redis is never further behind the newest that
\* was saved than an answer is under way (currency_rate_store.py).
THEOREM SuccessRecent == Spec => []LastSuccessIsRecent
<1>1. SyncInv => LastSuccessIsRecent BY RatesFollow DEF SyncInv
<1> QED BY <1>1, SyncAlways, PTL

\* A temporary file lives exactly as long as the handler that made it: none is left behind, and
\* none goes while its request waits (the finally block of routes.py).
THEOREM TempKept == Spec => []TempIsHeld
<1>1. SyncInv => TempIsHeld BY DEF SyncInv, WebInv, TempIsHeld
<1> QED BY <1>1, SyncAlways, PTL

\* Every permit of the semaphore is free or held by a request that waits for its pipeline:
\* neither a timeout nor a thread that hangs for ever costs one (routes.py).
THEOREM NoPermitLost == Spec => []AllPermits
<1>1. SyncInv => AllPermits BY DEF SyncInv, WebInv
<1> QED BY <1>1, SyncAlways, PTL

\* The types of SyncExtract and CurrencyRates.
THEOREM TypeCorrect == Spec => []TypeOK
<1>1. SyncInv => TypeOK
  <2> SUFFICES ASSUME SyncInv PROVE TypeOK OBVIOUS
  <2>1. Cardinality(Held) \in Nat BY FS_CardinalityType DEF SyncInv, WebInv
  <2>2. permits \in 0..Permits BY <2>1, PermitsAssumption DEF SyncInv, WebInv, AllPermits
  <2> QED BY <2>2 DEF SyncInv, WebInv, ThreadInv, TypeOK
<1> QED BY <1>1, SyncAlways, PTL

\* A call that times out before any thread took it up in a full pool was starved by a thread
\* whose request was answered before (routes.py: the pool is as large as the semaphore).
THEOREM StarvedByOrphans == Spec => OnlyOrphansStarve
<1> DEFINE Step == \A r \in Jobs : web[r] = "waiting" /\ web'[r] = "error" /\ thread[r] = "queued" /\ Cardinality(Busy) = Permits
                     => \E s \in Jobs : Orphan(s)
<1>1. SyncInv /\ [Next]_vars => [Step]_vars BY Starved DEF SyncInv
<1> QED BY <1>1, SyncAlways, PTL DEF Spec, OnlyOrphansStarve
=============================================================================
