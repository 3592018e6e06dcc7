----------------------------- MODULE Enrichment -----------------------------
(***************************************************************************)
(* The enrichment orchestrator (services/enrichment_orchestrator.py) over  *)
(* its three providers, with the automatic docket linking of CourtDockets  *)
(* as the call it makes for CourtListener.  A visit is one call of         *)
(* enrich_issuer.  Ages of statuses are counted in ticks, the time between *)
(* two visits of an issuer; a visit ends in the tick it began.  The order  *)
(* in which a visit takes the providers is that of a frozenset.            *)
(***************************************************************************)
EXTENDS CourtDockets

CONSTANTS
    Enriched,        \* the issuers the nightly run takes
    HasCik,          \* the issuers with a CIK
    Configured,      \* the providers whose client is configured
    Ttl,             \* PROVIDER_STALENESS_TTL
    RecheckTtl,      \* RECHECK_TTL_FOR_UNRESOLVED_STATES
    RetryDelay,      \* the six hours to next_retry_at
    MaxAge           \* bound of the model: older is as old

Providers == {"sec_edgar", "courtlistener", "openfigi"}

Statuses == {"complete", "no_data", "manual_review_required", "failed_retryable",
             "unavailable", "unsupported"}

ASSUME EnrichmentAssumption ==
    /\ Enriched \subseteq Issuers /\ HasCik \subseteq Issuers /\ Configured \subseteq Providers
    /\ Ttl \in [Providers -> Nat] /\ RecheckTtl \in Nat /\ RetryDelay \in Nat
    /\ MaxAge \in Nat
    /\ \A p \in Providers : Ttl[p] < MaxAge
    /\ RecheckTtl < MaxAge /\ RetryDelay <= MaxAge
    /\ None \notin Statuses \cup Providers

VARIABLES
    onFile,          \* the issuers with docket-relevant research_evidence
    status, age,     \* issuer_enrichment_status rows, and ticks since last_attempt_at
    visit, left      \* a runner: the issuer it visits, the providers it has not taken

enrichVars == <<onFile, status, age, visit, left>>
vars == <<docketVars, enrichVars>>

Init ==
    /\ DocketInit
    /\ onFile = {}
    /\ status = [i \in Issuers |-> [p \in Providers |-> None]]
    /\ age = [i \in Issuers |-> [p \in Providers |-> 0]]
    /\ visit = [r \in Runners |-> None]
    /\ left = [r \in Runners |-> {}]

-----------------------------------------------------------------------------
\* The overnight monitor has found a distress filing and stores its evidence.
MonitorStores(i) ==
    /\ onFile' = onFile \cup {i}
    /\ UNCHANGED <<docketVars, status, age, visit, left>>

Tick ==
    /\ \A r \in Runners : visit[r] = None
    /\ age' = [i \in Issuers |-> [p \in Providers |-> 
                IF status[i][p] = None THEN 0 ELSE Min({age[i][p] + 1, MaxAge})]]
    /\ UNCHANGED <<docketVars, onFile, status, visit, left>>

-----------------------------------------------------------------------------
(* _should_run *)

\* unsupported is never run again.
ShouldRun(i, p) ==
    \/ status[i][p] = None
    \/ status[i][p] = "failed_retryable" /\ age[i][p] >= RetryDelay
    \/ status[i][p] \in {"complete", "no_data"} /\ age[i][p] > Ttl[p]
    \/ status[i][p] \in {"manual_review_required", "unavailable"} /\ age[i][p] > RecheckTtl

-----------------------------------------------------------------------------
(* enrich_issuer *)

StartVisit(r, i) ==
    /\ r \in Visitors /\ pc[r] = "idle" /\ visit[r] = None
    /\ visit' = [visit EXCEPT ![r] = i]
    /\ left' = [left EXCEPT ![r] = Providers]
    /\ UNCHANGED <<docketVars, onFile, status, age>>

\* record_attempt_outcome and its commit.
Record(r, p, s) ==
    /\ status' = [status EXCEPT ![visit[r]][p] = s]
    /\ age' = [age EXCEPT ![visit[r]][p] = 0]
    /\ left' = [left EXCEPT ![r] = @ \ {p}]
    /\ UNCHANGED visit

Turn(r, p) == visit[r] # None /\ pc[r] = "idle" /\ p \in left[r]

SkipProvider(r, p) ==
    /\ Turn(r, p) /\ ~ShouldRun(visit[r], p)
    /\ left' = [left EXCEPT ![r] = @ \ {p}]
    /\ UNCHANGED <<docketVars, onFile, status, age, visit>>

\* _enrich_sec: what the window still shows of the filings is stored with its
\* evidence; a status is complete for filings of any kind.
EnrichSec(r) ==
    LET i == visit[r]
        p == "sec_edgar"
    IN
    /\ Turn(r, p) /\ ShouldRun(i, p)
    /\ \/ p \notin Configured /\ Record(r, p, "unavailable") /\ UNCHANGED onFile
       \/ /\ p \in Configured /\ i \notin HasCik
          /\ Record(r, p, "unsupported") /\ UNCHANGED onFile
       \/ /\ p \in Configured /\ i \in HasCik
          /\ \E s \in {"complete", "no_data"}, new \in SUBSET {i} :
                /\ new # {} => s = "complete"
                /\ onFile' = onFile \cup new
                /\ Record(r, p, s)
    /\ UNCHANGED docketVars

\* _enrich_openfigi
EnrichFigi(r) ==
    LET p == "openfigi" IN
    /\ Turn(r, p) /\ ShouldRun(visit[r], p)
    /\ \E s \in IF p \in Configured THEN {"complete", "no_data"} ELSE {"unavailable"} :
          Record(r, p, s)
    /\ UNCHANGED <<docketVars, onFile>>

\* Any exception of these two: rollback, failed_retryable; the router may have
\* committed SEC's evidence before.
ProviderFails(r, p) ==
    /\ "source" \in Faults
    /\ p # "courtlistener" /\ p \in Configured
    /\ Turn(r, p) /\ ShouldRun(visit[r], p)
    /\ Record(r, p, "failed_retryable")
    /\ \/ UNCHANGED onFile
       \/ /\ p = "sec_edgar" /\ visit[r] \in HasCik
          /\ onFile' = onFile \cup {visit[r]}
    /\ UNCHANGED docketVars

\* _enrich_courtlistener, up to the call of attempt_auto_link.  It looks through the
\* newest fifty rows of evidence: what is on file need not be among them.
EnrichCourtListener(r) ==
    LET i == visit[r]
        p == "courtlistener"
    IN
    /\ Turn(r, p) /\ ShouldRun(i, p)
    /\ \/ p \notin Configured /\ Record(r, p, "unavailable") /\ UNCHANGED docketVars
       \/ /\ p \in Configured
          /\ Record(r, p, "unsupported")
          /\ IF i \in onFile THEN OverlookEvidence(i) ELSE UNCHANGED docketVars
       \/ /\ p \in Configured /\ i \in onFile
          /\ StartAutoLink(r, i) /\ UNCHANGED <<status, age, visit, left>>
    /\ UNCHANGED onFile

StatusOf(verdict) ==
    CASE verdict = "verified_docket_match" -> "complete"
      [] verdict = "checked_no_relevant_docket" -> "no_data"
      [] OTHER -> "manual_review_required"

\* Mutant of AutoLinkReturns: an exception is swallowed.
ReturnsAnyhow(r) ==
    /\ visit[r] # None
    /\ Return(r)
    /\ Record(r, "courtlistener", StatusOf(outcome[r]))
    /\ UNCHANGED onFile

\* What it returned or raised becomes the status.
AutoLinkReturns(r) ==
    /\ visit[r] # None
    /\ Return(r)
    /\ Record(r, "courtlistener",
              IF pc[r] = "done" THEN StatusOf(outcome[r]) ELSE "failed_retryable")
    /\ UNCHANGED onFile

EndVisit(r) ==
    /\ visit[r] # None /\ pc[r] = "idle" /\ left[r] = {}
    /\ visit' = [visit EXCEPT ![r] = None]
    /\ UNCHANGED <<docketVars, onFile, status, age, left>>

ProcessDies(r) ==
    /\ Crash(r)
    /\ visit' = [visit EXCEPT ![r] = None]
    /\ left' = [left EXCEPT ![r] = {}]
    /\ UNCHANGED <<onFile, status, age>>

\* A visit and a walk go on without anyone.
RunnerStep(r) ==
    \/ DocketStep(r) /\ UNCHANGED enrichVars
    \/ \E p \in Providers : SkipProvider(r, p)
    \/ EnrichSec(r) \/ EnrichFigi(r) \/ EnrichCourtListener(r)
    \/ AutoLinkReturns(r) \/ EndVisit(r)

Next ==
    \/ \E e \in Entries : Publish(e) /\ UNCHANGED enrichVars
    \/ \E i \in Issuers, d \in Dockets : LinkCurated(i, d) /\ UNCHANGED enrichVars
    \/ \E i \in Enriched : MonitorStores(i)
    \/ Tick
    \/ \E r \in Runners :
          \/ \E i \in Enriched : StartVisit(r, i)
          \/ \E d \in Dockets : visit[r] = None /\ StartSync(r, d) /\ UNCHANGED enrichVars
          \/ RunnerStep(r)
          \/ \E p \in Providers : ProviderFails(r, p)
          \/ SourceFails(r) /\ UNCHANGED enrichVars
          \/ ProcessDies(r)

Spec == Init /\ [][Next]_vars

-----------------------------------------------------------------------------
TypeOK ==
    /\ DocketTypeOK
    /\ onFile \subseteq Issuers
    /\ status \in [Issuers -> [Providers -> Statuses \cup {None}]]
    /\ age \in [Issuers -> [Providers -> 0..MaxAge]]
    /\ visit \in [Runners -> Issuers \cup {None}]
    /\ left \in [Runners -> SUBSET Providers]

\* The status of CourtListener is backed by what a visit left in the tables,
\* although its four commits may be torn apart: a status that settles the matter,
\* complete, no_data or manual review, by an attempt on record that came to it; and
\* an issuer whose docket was linked without its attempt on record, which
\* court_docket_service.py:262 promises, is visited again until it is, unless a
\* search of it overlooked a docket on record or a look at its newest evidence all
\* that is on file.
StatusIsBacked ==
    \A i \in Issuers :
        LET s == status[i]["courtlistener"] IN
        /\ s \in {"complete", "no_data", "manual_review_required"} =>
              i \in onFile /\ \E a \in attempts : a.issuer = i /\ StatusOf(a.outcome) = s
        /\ i \notin overlooked =>
              \A d \in Dockets :
                 /\ link[d] = i /\ <<i, d>> \notin Curated
                 /\ \A a \in attempts : a.issuer = i => a.docket # d
                 => s \in {None, "no_data", "manual_review_required", "failed_retryable"}
=============================================================================
