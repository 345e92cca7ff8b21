---------------------------- MODULE CurrencyRates ----------------------------
(***************************************************************************)
(* The rates a job converts its prices with (services/currency_service.py, *)
(* services/currency_rate_store.py, app/pipeline.py).                      *)
(*                                                                         *)
(* Jobs run in threads and processes. A job needs the rate of each         *)
(* currency of its rows once: from the cache of its process, from the      *)
(* provider, from the last success any process left in Redis, or from a    *)
(* table. A rate is represented by the time at which the provider gave it. *)
(***************************************************************************)
EXTENDS Integers, FiniteSets

CONSTANTS
  Jobs,      \* jobs, each converting once
  Procs,     \* API and worker processes
  ProcOf,    \* the process of a job
  Codes,     \* recognised currency codes other than QAR: numbers, in alphabetical order
  Static,    \* those the table has a rate for
  TTL,       \* life of a cache entry
  Delay,     \* how long an answer is under way to the cache and to Redis, at most
  MaxTime    \* bound on the clock

ASSUME CodesAssumption == Codes \subseteq Nat /\ IsFiniteSet(Codes) /\ Static \subseteq Codes
ASSUME ProcAssumption == ProcOf \in [Jobs -> Procs]
ASSUME TimeAssumption == TTL \in Nat /\ Delay \in Nat /\ MaxTime \in Nat

None == -1
Unsupported == -2
Time == 0 .. MaxTime

Sources == {"none", "live", "cached", "fallback", "unsupported", "unavailable"}
Entry == [source : Sources, quote : Time \cup {None}]
NoRate == [source |-> "none", quote |-> None]
NoHit == [at |-> 0, quote |-> None]
NoJob == [pc |-> "idle", left |-> {}, answer |-> None, rates |-> [c \in Codes |-> NoRate]]

VARIABLES
  now,      \* the clock
  cache,    \* per process and code: a quote or Unsupported, and when it was put
  store,    \* per code: the last success in Redis
  saved,    \* per code: the newest quote that was ever saved there
  job       \* per job: its place, what it still needs, its answer, its snapshot

rateVars == <<now, cache, store, saved, job>>

RatePC == {"idle", "next", "ask", "put", "save", "fall", "done", "failed"}

RateTypes ==
  /\ now \in Time
  /\ cache \in [Procs -> [Codes -> [at : Time, quote : Time \cup {None, Unsupported}]]]
  /\ store \in [Codes -> Time \cup {None}]
  /\ saved \in [Codes -> Time \cup {None}]
  /\ job \in [Jobs -> [pc : RatePC, left : SUBSET Codes, answer : Time \cup {None, Unsupported},
                       rates : [Codes -> Entry]]]

RateInit ==
  /\ now = 0
  /\ cache = [p \in Procs |-> [c \in Codes |-> NoHit]]
  /\ store = [c \in Codes |-> None]
  /\ saved = [c \in Codes |-> None]
  /\ job = [j \in Jobs |-> NoJob]

-----------------------------------------------------------------------------
(* Helpers *)

\* wanted is sorted.
Code(j) == CHOOSE c \in job[j].left : \A d \in job[j].left : c <= d

JobAt(j, label) == job[j].pc = label
Converting(j) == job[j].pc \in {"next", "ask", "put", "save", "fall"}
JobGoes(j, label) == job' = [job EXCEPT ![j].pc = label]

\* The entry of the code at hand goes into the snapshot.
Resolved(j, source, quote) ==
  job' = [job EXCEPT ![j].rates[Code(j)] = [source |-> source, quote |-> quote],
                     ![j].left = @ \ {Code(j)}, ![j].pc = "next", ![j].answer = None]

\* Mutant: the life of an entry is not looked at.
HitEver(p, c) == cache[p][c].quote # None

Hit(p, c) == cache[p][c].quote # None /\ now - cache[p][c].at < TTL

\* Mutant: the old record is deleted first, and the new one not written.
SaveByDelete(j) ==
  LET a == job[j].answer  c == Code(j) IN
  /\ JobAt(j, "save")
  /\ \/ /\ store' = [store EXCEPT ![c] = a]
        /\ saved' = [saved EXCEPT ![c] = IF a > @ THEN a ELSE @]
     \/ store' = [store EXCEPT ![c] = None] /\ UNCHANGED saved
  /\ Resolved(j, "live", a)
  /\ UNCHANGED <<now, cache>>

\* Mutant: an empty record is used.
FallBackUnread(j) ==
  /\ JobAt(j, "fall")
  /\ Resolved(j, "cached", store[Code(j)])
  /\ UNCHANGED <<now, cache, store, saved>>

-----------------------------------------------------------------------------
(* Actions of a job *)

\* _apply_currency_conversion collects the codes of the priced rows.
NeedRates(j, codes) ==
  /\ JobAt(j, "idle")
  /\ job' = [job EXCEPT ![j].pc = "next", ![j].left = codes]
  /\ UNCHANGED <<now, cache, store, saved>>

\* get_rate: what the cache holds counts as live, a code found unsupported included. An
\* entry that is too old goes.
LookUp(j) ==
  LET p == ProcOf[j]  c == Code(j) IN
  /\ JobAt(j, "next") /\ job[j].left # {}
  /\ IF Hit(p, c)
     THEN /\ IF cache[p][c].quote = Unsupported THEN Resolved(j, "unsupported", None)
             ELSE Resolved(j, "live", cache[p][c].quote)
          /\ UNCHANGED cache
     ELSE JobGoes(j, "ask") /\ cache' = [cache EXCEPT ![p][c] = NoHit]
  /\ UNCHANGED <<now, store, saved>>

\* The provider answers with today's rate, or does not know the code ...
Answer(j) ==
  /\ JobAt(j, "ask")
  /\ \E a \in {now, Unsupported} : job' = [job EXCEPT ![j].pc = "put", ![j].answer = a]
  /\ UNCHANGED <<now, cache, store, saved>>

\* ... or does not answer: both attempts time out, fail or return nonsense.
NoAnswer(j) ==
  /\ JobAt(j, "ask")
  /\ JobGoes(j, "fall")
  /\ UNCHANGED <<now, cache, store, saved>>

Put(j) ==
  LET a == job[j].answer IN
  /\ JobAt(j, "put")
  /\ cache' = [cache EXCEPT ![ProcOf[j]][Code(j)] = [at |-> now, quote |-> a]]
  /\ IF a = Unsupported THEN Resolved(j, "unsupported", None) ELSE JobGoes(j, "save")
  /\ UNCHANGED <<now, store, saved>>

\* save_success overwrites whatever is there; an error of Redis is swallowed.
Save(j) ==
  LET a == job[j].answer  c == Code(j) IN
  /\ JobAt(j, "save")
  /\ \/ /\ store' = [store EXCEPT ![c] = a]
        /\ saved' = [saved EXCEPT ![c] = IF a > @ THEN a ELSE @]
     \/ UNCHANGED <<store, saved>>
  /\ Resolved(j, "live", a)
  /\ UNCHANGED <<now, cache>>

\* The fallback chain. A store that cannot be read counts as empty.
FallBack(j) ==
  LET c == Code(j) IN
  /\ JobAt(j, "fall")
  /\ \/ store[c] # None /\ Resolved(j, "cached", store[c])
     \/ c \in Static /\ Resolved(j, "fallback", None)
     \/ c \notin Static /\ Resolved(j, "unavailable", None)
  /\ UNCHANGED <<now, cache, store, saved>>

\* The rows are converted, unless a code has no rate at all.
Convert(j) ==
  /\ JobAt(j, "next") /\ job[j].left = {}
  /\ JobGoes(j, IF \E c \in Codes : job[j].rates[c].source = "unavailable" THEN "failed" ELSE "done")
  /\ UNCHANGED <<now, cache, store, saved>>

\* The snapshot has gone into the job's result.
Leave(j) == job' = [job EXCEPT ![j] = NoJob] /\ UNCHANGED <<now, cache, store, saved>>

RateStep(j) ==
  LookUp(j) \/ Answer(j) \/ NoAnswer(j) \/ Put(j) \/ Save(j) \/ FallBack(j) \/ Convert(j)

-----------------------------------------------------------------------------
(* The clock *)

\* Time passes; the calls to cache and store end within Delay of the answer.
Tick ==
  /\ now < MaxTime
  /\ \A j \in Jobs : job[j].pc \in {"put", "save"} /\ job[j].answer # Unsupported
                       => now - job[j].answer < Delay
  /\ now' = now + 1
  /\ UNCHANGED <<cache, store, saved, job>>

-----------------------------------------------------------------------------
(* Properties *)

\* No rate is invented and none is lost on the way: a job that is done has one for each code
\* it needed, or knows that the code does not exist; a rate said to be live or cached is one
\* the provider gave before; and a job fails only for a code the table lacks.
PricedOrFailed ==
  \A j \in Jobs :
    /\ \A c \in Codes : job[j].rates[c].source \in {"live", "cached"} => job[j].rates[c].quote \in 0..now
    /\ JobAt(j, "done") => \A c \in Codes : job[j].rates[c].source # "unavailable"
    /\ JobAt(j, "failed") => \E c \in Codes \ Static : job[j].rates[c].source = "unavailable"

\* Processes overwrite one another's last success, and the last writer wins, not the newest
\* quote. What Redis holds is older than the newest quote it ever held by no more than an
\* answer is under way.
LastSuccessIsRecent ==
  \A c \in Codes : saved[c] # None => store[c] # None /\ store[c] >= saved[c] - Delay

\* "Nothing stale is ever served once the TTL has passed": what a cache hands out was given
\* less than a TTL, and the way from the provider, before.
CacheIsFresh ==
  \A p \in Procs, c \in Codes :
    Hit(p, c) /\ cache[p][c].quote # Unsupported => now - cache[p][c].quote < TTL + Delay

\* The rates a job prices with are genuine, and as fresh as they say.
RatesAreGenuine == PricedOrFailed /\ CacheIsFresh

=============================================================================
