-------------------------- MODULE MarketDiscovery --------------------------
(***************************************************************************)
(* Market-wide discovery (services/market_discovery_service.py): a run     *)
(* searches SEC's full text for a list of queries over a window of days,   *)
(* records each hit as a candidate, resolves its issuer, ingests the       *)
(* issuer's filings and hands it to the enrichment orchestrator            *)
(* (services/enrichment_orchestrator.py, whose SEC provider is modelled    *)
(* here).  Runs are started by the nightly trigger                         *)
(* (scripts/run_nightly_scheduled_discovery.py) or by an operator.         *)
(*                                                                         *)
(* Time is a day in New York and its phase: after 20:00 ("evening") the    *)
(* date is already the next one in UTC, in which watermarks and last       *)
(* successes are stamped.  A hit is one (cik, accession number).  What a   *)
(* rule matches, alerts and classification are left out (FilingMonitor),   *)
(* as are counters, provenance and a change of RULE_VERSION.               *)
(***************************************************************************)
EXTENDS Naturals, FiniteSets

CONSTANTS
    Hits,       \* filings that some query finds
    Ciks,       \* their filers
    CikOf,      \* the filer of each hit
    Known,      \* filers that are issuers from the start
    Queries,    \* MARKET_DISCOVERY_FULL_TEXT_QUERIES, times the groups of forms
    Matches,    \* the hits of each query
    Scheduled,  \* runners started by the nightly trigger
    Operators,  \* runners started by hand
    Modes,      \* the modes operators use
    MaxHits,    \* max_hits_per_query
    Lookback,   \* SEC_FIRST_CHECK_LOOKBACK_DAYS
    Faults,     \* what may go wrong
    LastDay,    \* bound: the last day
    MaxFaults,  \* bound: failures that happen
    None

FaultKinds == {"search", "resolve", "verify", "issuer", "enrich", "crash", "slow"}
ModeKinds == {"baseline", "delta", "backfill", "reprocess"}
Runners == Scheduled \cup Operators

ASSUME DiscoveryAssumption ==
    /\ CikOf \in [Hits -> Ciks] /\ Known \subseteq Ciks
    /\ Matches \in [Queries -> SUBSET Hits]
    /\ \A h \in Hits : \E q \in Queries : h \in Matches[q]
    /\ Scheduled \cap Operators = {}
    /\ Modes \subseteq ModeKinds /\ Faults \subseteq FaultKinds
    /\ MaxHits \in Nat \ {0} /\ Lookback \in Nat /\ LastDay \in Nat \ {0} /\ MaxFaults \in Nat
    /\ None \notin Nat /\ None \notin Hits

VARIABLES
    day, phase,         \* the date in New York, and whether UTC is a day ahead
    filedOn,            \* file_date of each hit, None until it is published
    issuers,            \* CIKs with an issuer row
    candidate,          \* market_discovery_candidate of each hit
    stored,             \* hits with a sec_filing row
    watermark,          \* date of resulting_watermark of the latest successful run
    dailyStart,         \* window_start_date of the latest successful daily run
    checkedOn,          \* date of last_success_at of each issuer's SEC status
    triedAt,            \* when the SEC provider was last attempted
    pc, mode,           \* a runner: where it is, its mode
    from, to,           \* its window
    queries, left,      \* queries to run, hits left of the present one
    taken,              \* hits of the present query so far
    seen, done,         \* seen_filing_keys, processed_issuer_ids
    hit,                \* the hit in work
    errors,             \* hits and queries that counted as an error
    checkedFrom,        \* history: where the first successful check began
    stamps,             \* history: every date checkedOn had
    givenUp,            \* history: days and hits a run passed on purpose
    faults              \* history: failures so far

clock == <<day, phase>>
tables == <<issuers, candidate, stored, watermark, dailyStart, checkedOn, triedAt>>
window == <<mode, from, to>>
search == <<queries, left, taken, seen>>
run == <<pc, window, search, done, hit, errors>>
history == <<checkedFrom, stamps, givenUp, faults>>
vars == <<clock, filedOn, tables, run, history>>

Candidates == {"none", "rejected", "resolved"}

UtcDay == IF phase = "evening" THEN day + 1 ELSE day
Tick == IF phase = "evening" THEN 2 * day + 1 ELSE 2 * day

Init ==
    /\ day = 1 /\ phase = "day"
    /\ filedOn = [h \in Hits |-> None]
    /\ issuers = Known
    /\ candidate = [h \in Hits |-> "none"]
    /\ stored = {}
    /\ watermark = None /\ dailyStart = None
    /\ checkedOn = [c \in Ciks |-> None] /\ triedAt = [c \in Ciks |-> None]
    /\ pc = [r \in Runners |-> "idle"]
    /\ mode = [r \in Runners |-> "delta"]
    /\ from = [r \in Runners |-> 0] /\ to = [r \in Runners |-> 0]
    /\ queries = [r \in Runners |-> {}] /\ left = [r \in Runners |-> {}]
    /\ taken = [r \in Runners |-> 0]
    /\ seen = [r \in Runners |-> {}] /\ done = [r \in Runners |-> {}]
    /\ hit = [r \in Runners |-> None]
    /\ errors = [r \in Runners |-> {}]
    /\ checkedFrom = [c \in Ciks |-> None]
    /\ stamps = [c \in Ciks |-> {}]
    /\ givenUp = {}
    /\ faults = 0

-----------------------------------------------------------------------------
(* The world.                                                              *)

Idle == \A r \in Runners : pc[r] = "idle"

\* 20:00 in New York, and midnight.  Runs last into the night they start in, and
\* through an afternoon only with the fault "slow".
Advance ==
    /\ \/ phase = "day" /\ ("slow" \in Faults \/ Idle) /\ phase' = "evening" /\ day' = day
       \/ phase = "evening" /\ day < LastDay /\ phase' = "day" /\ day' = day + 1
    /\ UNCHANGED <<filedOn, tables, run, history>>

\* EDGAR dates a filing that arrives after its deadline to the next day.
Publish(h) ==
    /\ filedOn[h] = None /\ phase = "day" /\ day < LastDay
    /\ filedOn' = [filedOn EXCEPT ![h] = day]
    /\ UNCHANGED <<clock, tables, run, history>>

FaultHappens(kind) ==
    /\ kind \in Faults /\ faults < MaxFaults
    /\ faults' = faults + 1

-----------------------------------------------------------------------------
(* Starting a run.                                                         *)

\* date.today(): the nightly trigger sets TZ, an operator's container runs in UTC.
Today(r) == IF r \in Scheduled THEN day ELSE UtcDay

\* Mutants: a first delta run has no watermark to take the date of; the window
\* starts on the day after the watermark.
WatermarkExpected(r) == watermark
DayAfterWatermark(r) == IF watermark = None THEN Today(r) ELSE watermark + 1

DeltaStart(r) == IF watermark = None THEN Today(r) ELSE watermark

StartRun(r, m, start, end) ==
    /\ pc[r] = "idle"
    /\ pc' = [pc EXCEPT ![r] = "search"]
    /\ mode' = [mode EXCEPT ![r] = m]
    /\ from' = [from EXCEPT ![r] = start]
    /\ to' = [to EXCEPT ![r] = end]
    /\ queries' = [queries EXCEPT ![r] = IF m = "baseline" THEN {} ELSE Queries]
    /\ left' = [left EXCEPT ![r] = {}]
    /\ seen' = [seen EXCEPT ![r] = {}]
    /\ done' = [done EXCEPT ![r] = {}]
    /\ errors' = [errors EXCEPT ![r] = {}]
    /\ UNCHANGED <<clock, filedOn, tables, taken, hit, history>>

\* should_run: the hour is right and no daily run has its window start on this day.
ShouldRun == phase = "evening" /\ dailyStart # day

NightlyTrigger(r) ==
    /\ ShouldRun
    /\ StartRun(r, "delta", DeltaStart(r), Today(r))

OperatorStarts(r, m) ==
    \/ m = "delta" /\ StartRun(r, m, DeltaStart(r), Today(r))
    \/ m = "baseline" /\ StartRun(r, m, Today(r), Today(r))
    \/ m \in {"backfill", "reprocess"} /\ StartRun(r, m, day, day)

-----------------------------------------------------------------------------
(* The search loop.                                                        *)

InWindow(r, h) == filedOn[h] # None /\ filedOn[h] >= from[r] /\ filedOn[h] <= to[r]

\* The first page of a query; a query that fails is skipped and counted.
BeginQuery(r, q) ==
    /\ pc[r] = "search" /\ left[r] = {} /\ q \in queries[r]
    /\ queries' = [queries EXCEPT ![r] = @ \ {q}]
    /\ taken' = [taken EXCEPT ![r] = 0]
    /\ \/ /\ left' = [left EXCEPT ![r] = {h \in Matches[q] : InWindow(r, h)}]
          /\ UNCHANGED <<errors, faults>>
       \/ /\ FaultHappens("search")
          /\ errors' = [errors EXCEPT ![r] = @ \cup {"search"}]
          /\ UNCHANGED left
    /\ UNCHANGED <<clock, filedOn, tables, pc, window, seen, done, hit, checkedFrom,
                   stamps, givenUp>>

\* A later page fails: the rest of the query is skipped.
NextPageFails(r) ==
    /\ pc[r] = "search" /\ left[r] # {}
    /\ FaultHappens("search")
    /\ left' = [left EXCEPT ![r] = {}]
    /\ errors' = [errors EXCEPT ![r] = @ \cup {"search"}]
    /\ UNCHANGED <<clock, filedOn, tables, pc, window, queries, taken, seen, done, hit,
                   checkedFrom, stamps, givenUp>>

\* The cap on a query's hits is a note in error_summary, not an error.
CapQuery(r) ==
    /\ pc[r] = "search" /\ left[r] # {} /\ taken[r] >= MaxHits
    /\ left' = [left EXCEPT ![r] = {}]
    /\ givenUp' = givenUp \cup left[r]
    /\ UNCHANGED <<clock, filedOn, tables, pc, window, queries, taken, seen, done, hit,
                   errors, checkedFrom, stamps, faults>>

TakeHit(r, h) ==
    /\ pc[r] = "search" /\ h \in left[r] /\ taken[r] < MaxHits
    /\ left' = [left EXCEPT ![r] = @ \ {h}]
    /\ taken' = [taken EXCEPT ![r] = @ + 1]
    /\ seen' = [seen EXCEPT ![r] = @ \cup {h}]

\* A hit is examined once per run, and a candidate of this RULE_VERSION again only
\* with force_reprocess.
ToExamine(r, h) == h \notin seen[r] /\ (candidate[h] = "none" \/ mode[r] = "reprocess")

SkipExamined(r, h) ==
    /\ TakeHit(r, h)
    /\ ~ToExamine(r, h)
    /\ UNCHANGED <<clock, filedOn, tables, pc, window, queries, done, hit, errors,
                   history>>

\* resolve_issuer_fn raises: no candidate is written.
ResolveFails(r, h) ==
    /\ TakeHit(r, h)
    /\ ToExamine(r, h)
    /\ CikOf[h] \notin issuers
    /\ FaultHappens("resolve")
    /\ errors' = [errors EXCEPT ![r] = @ \cup {h}]
    /\ UNCHANGED <<clock, filedOn, tables, pc, window, queries, done, hit, checkedFrom,
                   stamps, givenUp>>

\* An unknown filer is rejected when it is no active filer, and also when the
\* request that would tell failed: verify_issuer_live swallows the exception.
RejectCandidate(r, h) ==
    /\ TakeHit(r, h)
    /\ ToExamine(r, h)
    /\ CikOf[h] \notin issuers
    /\ FaultHappens("verify")
    /\ candidate' = [candidate EXCEPT ![h] = "rejected"]
    /\ UNCHANGED <<clock, filedOn, issuers, stored, watermark, dailyStart, checkedOn,
                   triedAt, pc, window, queries, done, hit, errors, checkedFrom, stamps,
                   givenUp>>

\* The issuer is known or created; candidate and issuer are committed before its
\* filings are looked at, once per issuer and run.
ResolveCandidate(r, h) ==
    LET c == CikOf[h] IN
    /\ TakeHit(r, h)
    /\ ToExamine(r, h)
    /\ issuers' = issuers \cup {c}
    /\ candidate' = [candidate EXCEPT ![h] = "resolved"]
    /\ done' = [done EXCEPT ![r] = @ \cup {c}]
    /\ IF c \in done[r]
       THEN UNCHANGED <<pc, hit>>
       ELSE hit' = [hit EXCEPT ![r] = h] /\ pc' = [pc EXCEPT ![r] = "process"]
    /\ UNCHANGED <<clock, filedOn, stored, watermark, dailyStart, checkedOn, triedAt,
                   window, queries, errors, history>>

-----------------------------------------------------------------------------
(* The issuer of a hit.                                                    *)

Filed(h, c) == CikOf[h] = c /\ filedOn[h] # None

\* ingest_recent_filings: every filing of the issuer dated after `since`.
FiledAfter(c, since) == {h \in Hits : Filed(h, c) /\ filedOn[h] > since}

\* process_issuer_filings with since_date = the start of the window, committed.
ProcessIssuer(r) ==
    /\ pc[r] = "process"
    /\ stored' = stored \cup FiledAfter(CikOf[hit[r]], from[r])
    /\ pc' = [pc EXCEPT ![r] = "enrich"]
    /\ UNCHANGED <<clock, filedOn, issuers, candidate, watermark, dailyStart, checkedOn,
                   triedAt, window, search, done, hit, errors, history>>

\* The issuer's processing or its enrichment raises.  What the router committed on
\* the way stays.
IssuerFails(r) ==
    /\ pc[r] \in {"process", "enrich"}
    /\ FaultHappens("issuer")
    /\ pc' = [pc EXCEPT ![r] = "search"]
    /\ errors' = [errors EXCEPT ![r] = @ \cup {hit[r]}]
    /\ \/ UNCHANGED stored
       \/ stored' = stored \cup FiledAfter(CikOf[hit[r]], from[r])
    /\ UNCHANGED <<clock, filedOn, issuers, candidate, watermark, dailyStart, checkedOn,
                   triedAt, window, search, done, hit, checkedFrom, stamps, givenUp>>

-----------------------------------------------------------------------------
(* enrich_issuer, for the provider SEC_EDGAR.                              *)

\* _should_run: the last success must be 12 hours old, a failure 6 hours.  Phases
\* last 20 and 4 hours, so for some pairs of them either is possible.
MayBeDue(c) ==
    triedAt[c] # None => Tick > triedAt[c] \/ phase = "day"

MayBeFresh(c) ==
    triedAt[c] # None /\ (Tick <= triedAt[c] + 1 \/ (Tick = triedAt[c] + 2 /\ phase = "day"))

EnrichmentIsFresh(r) ==
    /\ pc[r] = "enrich"
    /\ MayBeFresh(CikOf[hit[r]])
    /\ pc' = [pc EXCEPT ![r] = "search"]
    /\ UNCHANGED <<clock, filedOn, tables, window, search, done, hit, errors, history>>

\* The date of the last success; the first check looks back a number of days (none
\* of which lies before day 0 of the model).
CheckSince(c) ==
    IF checkedOn[c] # None THEN checkedOn[c]
    ELSE IF UtcDay > Lookback THEN UtcDay - Lookback ELSE 0

EnrichSec(r) ==
    LET c == CikOf[hit[r]] IN
    /\ pc[r] = "enrich"
    /\ MayBeDue(c)
    /\ stored' = stored \cup FiledAfter(c, CheckSince(c))
    /\ checkedOn' = [checkedOn EXCEPT ![c] = UtcDay]
    /\ triedAt' = [triedAt EXCEPT ![c] = Tick]
    /\ checkedFrom' = [checkedFrom EXCEPT ![c] = IF checkedOn[c] = None THEN CheckSince(c) ELSE @]
    /\ stamps' = [stamps EXCEPT ![c] = @ \cup {UtcDay}]
    /\ pc' = [pc EXCEPT ![r] = "search"]
    /\ UNCHANGED <<clock, filedOn, issuers, candidate, watermark, dailyStart, window,
                   search, done, hit, errors, givenUp, faults>>

\* Mutant: a failed check is stamped as a success.
FailureStamped(r) ==
    LET c == CikOf[hit[r]] IN
    /\ pc[r] = "enrich"
    /\ MayBeDue(c)
    /\ FaultHappens("enrich")
    /\ checkedOn' = [checkedOn EXCEPT ![c] = UtcDay]
    /\ checkedFrom' = [checkedFrom EXCEPT ![c] = IF checkedOn[c] = None THEN CheckSince(c) ELSE @]
    /\ triedAt' = [triedAt EXCEPT ![c] = Tick]
    /\ pc' = [pc EXCEPT ![r] = "search"]
    /\ UNCHANGED <<clock, filedOn, issuers, candidate, stored, watermark, dailyStart,
                   window, search, done, hit, errors, stamps, givenUp>>

\* FAILED_RETRYABLE is no error of the run; the last success stays.
EnrichSecFails(r) ==
    LET c == CikOf[hit[r]] IN
    /\ pc[r] = "enrich"
    /\ MayBeDue(c)
    /\ FaultHappens("enrich")
    /\ \/ UNCHANGED stored
       \/ stored' = stored \cup FiledAfter(c, CheckSince(c))
    /\ triedAt' = [triedAt EXCEPT ![c] = Tick]
    /\ pc' = [pc EXCEPT ![r] = "search"]
    /\ UNCHANGED <<clock, filedOn, issuers, candidate, watermark, dailyStart, checkedOn,
                   window, search, done, hit, errors, checkedFrom, stamps, givenUp>>

-----------------------------------------------------------------------------
(* The end of a run.                                                       *)

\* Mutant: errors do not hold the watermark back.
WatermarkAlways(r) == UtcDay

NextWatermark(r) == IF errors[r] = {} THEN UtcDay ELSE watermark

\* History: the days a baseline or backfill moves the watermark past unsearched.
DaysJumped(r) ==
    IF errors[r] # {} THEN {}
    ELSE CASE mode[r] = "delta" -> IF watermark = None THEN 0 .. from[r] - 1 ELSE {}
           [] mode[r] = "baseline" -> 0 .. UtcDay - 1
           [] OTHER -> 0 .. UtcDay - 1 \ from[r] .. to[r]

CompleteRun(r) ==
    /\ pc[r] = "search" /\ queries[r] = {} /\ left[r] = {}
    /\ pc' = [pc EXCEPT ![r] = "idle"]
    /\ watermark' = NextWatermark(r)
    /\ dailyStart' = IF errors[r] = {} /\ mode[r] \in {"delta", "baseline"}
                     THEN from[r] ELSE dailyStart
    /\ givenUp' = givenUp \cup DaysJumped(r)
    /\ UNCHANGED <<clock, filedOn, issuers, candidate, stored, checkedOn, triedAt, window,
                   search, done, hit, errors, checkedFrom, stamps, faults>>

\* The process ends; its run row stays `running` for good.
Crash(r) ==
    /\ pc[r] # "idle"
    /\ FaultHappens("crash")
    /\ pc' = [pc EXCEPT ![r] = "idle"]
    /\ UNCHANGED <<clock, filedOn, tables, window, search, done, hit, errors, checkedFrom,
                   stamps, givenUp>>

WorkOnHit(r, h) ==
    \/ SkipExamined(r, h)
    \/ ResolveFails(r, h)
    \/ RejectCandidate(r, h)
    \/ ResolveCandidate(r, h)

RunnerStep(r) ==
    \/ \E q \in Queries : BeginQuery(r, q)
    \/ NextPageFails(r)
    \/ CapQuery(r)
    \/ \E h \in Hits : WorkOnHit(r, h)
    \/ ProcessIssuer(r)
    \/ IssuerFails(r)
    \/ EnrichmentIsFresh(r)
    \/ EnrichSec(r)
    \/ EnrichSecFails(r)
    \/ CompleteRun(r)

Next ==
    \/ Advance
    \/ \E h \in Hits : Publish(h)
    \/ \E r \in Scheduled : NightlyTrigger(r)
    \/ \E r \in Operators, m \in Modes : OperatorStarts(r, m)
    \/ \E r \in Runners : RunnerStep(r) \/ Crash(r)

Spec == Init /\ [][Next]_vars

\* The clock advances, the trigger fires in the evening, a run goes on until it ends.
Fairness ==
    /\ WF_vars(Advance)
    /\ \A r \in Scheduled : WF_vars(NightlyTrigger(r))
    /\ \A r \in Runners : WF_vars(RunnerStep(r))

FairSpec == Spec /\ Fairness

-----------------------------------------------------------------------------
(* Properties.                                                             *)

\* Every column and local variable has its type.
TypeOK ==
    /\ day \in Nat /\ phase \in {"day", "evening"}
    /\ filedOn \in [Hits -> Nat \cup {None}]
    /\ issuers \subseteq Ciks
    /\ candidate \in [Hits -> Candidates]
    /\ stored \subseteq Hits
    /\ watermark \in Nat \cup {None} /\ dailyStart \in Nat \cup {None}
    /\ checkedOn \in [Ciks -> Nat \cup {None}] /\ triedAt \in [Ciks -> Nat \cup {None}]
    /\ pc \in [Runners -> {"idle", "search", "process", "enrich"}]
    /\ mode \in [Runners -> ModeKinds]
    /\ from \in [Runners -> Nat] /\ to \in [Runners -> Nat]
    /\ queries \in [Runners -> SUBSET Queries]
    /\ left \in [Runners -> SUBSET Hits] /\ seen \in [Runners -> SUBSET Hits]
    /\ taken \in [Runners -> Nat]
    /\ done \in [Runners -> SUBSET Ciks]
    /\ hit \in [Runners -> Hits \cup {None}]
    /\ \A r \in Runners : pc[r] \in {"process", "enrich"} => hit[r] \in Hits
    /\ errors \in [Runners -> SUBSET (Hits \cup {"search"})]
    /\ checkedFrom \in [Ciks -> Nat \cup {None}]
    /\ stamps \in [Ciks -> SUBSET Nat]
    /\ givenUp \subseteq Nat \cup Hits
    /\ faults \in Nat

\* A hit of a day that the watermark has passed was examined: no failed query or
\* page, failed resolution, crash, overlapping or partial run loses one.  Left
\* out are hits beyond a query's cap, and days that were never in the window of
\* a delta run (before the first, or jumped by a baseline or a backfill).
Examined(h) == candidate[h] # "none" \/ h \in givenUp \/ filedOn[h] \in givenUp

WatermarkCoversSearch ==
    \A h \in Hits :
        filedOn[h] # None /\ watermark # None =>
            IF filedOn[h] < watermark THEN Examined(h) ELSE TRUE

\* The SEC checks of an issuer leave no gap: a filing dated after the day the first
\* successful check looked back to, and before the last success, is stored, unless
\* it is dated on the UTC day of a success itself.  (A check that fails is no such
\* check: the days its window had and the next first window has not stay out.)
ChecksLeaveNoGap ==
    \A h \in Hits :
        filedOn[h] # None /\ checkedOn[CikOf[h]] # None =>
            IF filedOn[h] < checkedOn[CikOf[h]] /\ filedOn[h] > checkedFrom[CikOf[h]]
            THEN h \in stored \/ filedOn[h] \in stamps[CikOf[h]] ELSE TRUE

\* The reason, as long as no run lasts through an afternoon.  The UTC date does
\* not change while a run is at work, so what is dated before it was published
\* before the run began.
DatesAgree ==
    /\ \A h \in Hits : filedOn[h] # None => filedOn[h] <= day
    /\ watermark # None => watermark <= UtcDay
    /\ \A r \in Runners : pc[r] # "idle" => from[r] <= UtcDay /\ UtcDay <= to[r] + 1

Past(h) == filedOn[h] # None /\ filedOn[h] < UtcDay

Searched(r, h) == h \in left[r] \/ (\E q \in queries[r] : h \in Matches[q])

\* What a delta run has before its window is examined.
WindowStartsInTime ==
    \A r \in Runners, h \in Hits :
        pc[r] # "idle" /\ mode[r] = "delta" /\ watermark # None /\ Past(h) =>
            IF filedOn[h] < from[r] THEN Examined(h) ELSE TRUE

\* What is in the window of a run is examined, still to be searched, or the run
\* has an error.
WindowIsSearched ==
    \A r \in Runners, h \in Hits :
        /\ pc[r] # "idle" /\ mode[r] # "baseline" /\ Past(h) /\ InWindow(r, h)
              => Examined(h) \/ errors[r] # {} \/ Searched(r, h)
        /\ pc[r] # "idle" /\ h \in seen[r] => Examined(h) \/ errors[r] # {}

DiscoveryInv ==
    /\ TypeOK
    /\ DatesAgree
    /\ WatermarkCoversSearch
    /\ WindowStartsInTime
    /\ WindowIsSearched

\* Every hit is examined some night, although queries, resolutions and whole runs
\* fail before.
EventuallyExamined ==
    \A h \in Hits : (filedOn[h] # None) ~> Examined(h)

\* BUILD_LOG.md:4329: "a run with any error never advances the watermark, so the
\* next run safely re-attempts the same unresolved window".  So a filing whose
\* issuer was resolved is stored when the watermark has passed it.
ResolvedIsStored ==
    \A h \in Hits :
        candidate[h] = "resolved" /\ watermark # None =>
            IF filedOn[h] < watermark THEN h \in stored ELSE TRUE
=============================================================================
