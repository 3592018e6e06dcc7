# Verification of nexus-credit-intelligence

TLA+ models of the backend (`backend/app`), the TLC configurations that check them, and
TLAPS proofs of their most important properties. Source paths below are relative to
`backend/app`.

## 1. The system and its parts

The backend is a FastAPI application over one Postgres database (SQLAlchemy
sessions without autoflush, READ COMMITTED), an object store (Supabase Storage),
two language models behind a router, public data sources (SEC EDGAR, FRED,
OpenFIGI, CourtListener) and scripts that cron or an operator start as separate
processes next to the API. Concurrency is between sessions, never inside a
process. Everything hard comes from that: a request commits once, at its end
(`db/session.py`); a script commits several times and may die, or overlap with
another process, in between; an object in Storage or a call to a model is part
of no transaction; and what a run reads next is decided by a watermark that an
earlier run left.

| part | state it keeps | operations | hard behaviour | correct when |
|---|---|---|---|---|
| Extraction queue (`services/document_extraction_service.py`) | `document_extraction`, `document_chunk`, artifacts in Storage | enqueue, reclaim, claim, process, promote | worker death, slow workers that overlap, retries, Storage outside the transaction | a current extraction is complete, a document has one and keeps one, every row settles |
| Research documents (`services/research_document_service.py`) | `research_document`, PDF objects | upload, edit, archive | compensation of a Storage write, commit after the handler returned | a document that is listed has its object |
| Research notes (`services/research_note_service.py`) | `research_note`, `research_note_version` | create, edit, archive | two edits from one loaded row | no edit is lost, the history has no gap and ends in the row |
| AI model router (`ai/model_router.py`) | call budget, `ai_call_log` | review evidence, retry, escalate | three limits, deferral, an answer that is paid for and then lost | limits hold, nothing is paid twice, the log agrees |
| Filing monitor (`services/filing_monitor_service.py`) | runs, watermark, filings, evidence | baseline, delta, backfill | failures per issuer, commits of the router in the middle of an issuer | the watermark passes nothing unread, a filing has its evidence once |
| Alert synthesis (`services/alert_synthesis_service.py`) | `alert_event` | bundle, review, create alert | look-up and insert seconds apart | one alert per bundle |
| Alert lifecycle (`repositories/alert_repository.py`) | `alert_event.status` | acknowledge, dismiss | stale row against a CHECK constraint | a dismissal is final |
| Market discovery (`services/market_discovery_service.py`) | runs, candidates, watermark | search, resolve, ingest | a candidate is committed before its issuer is processed; two clocks | the watermark passes no hit that was not examined |
| Nightly scheduler (`scripts/run_nightly_scheduled_discovery.py`) | none | should_run, run | two triggers, recovery of a failed night | every hit is examined some night |
| Enrichment (`services/enrichment_orchestrator.py`) | status per issuer and provider | enrich issuer | windows since the last success, isolation of providers | checks of an issuer leave no gap |
| Court dockets (`services/court_docket_service.py`, `providers/courtlistener`) | links, attempts, entries, evidence | search, match, link, walk a docket, record | three commits, failure between them, a cursor of ids under a walk by number | an entry carries its evidence once, a link has a reason, nothing is missing below the cursor |
| Universes (`services/universe_classification_service.py`, `scripts/reclassify_system_universes.py`) | memberships of evidence-driven collections | classify, correct, second reviews, seed | an upgrade-only path against a correcting script, both on stale reads | verified only if a review says that the issuer is the subject, a correction settles |
| Watchlists (`services/watchlist_service.py`) | collections and memberships, the same tables | create, add, remove, delete | look-up and insert apart, slugs shared with universes | an analyst's rows stay, nobody else's view changes |
| Provider adapters (`providers/*`) | payloads, provenance, issuers, facts, securities, series | one ingestion job per request | look-up and insert apart, jobs that overlap, a label written before the data | a row traces to the payload it came from, data is as fresh as its label |
| HTTP client (`providers/base/http_client.py`) | last request | get, post | retries, Retry-After, a ceiling per wait | paced, and over in bounded time |
| Distress rules (`core/distress_rules.py`, `domain/evidence_bundle.py`) | none | match, bundle, classify | exclusions and supersession | the worst signal of a text leads |
| Chunker (`extraction/chunker.py`, `extraction/validation.py`) | accumulator | add blocks, flush, validate | targets, a ceiling that leaves out separators, headings, tables | every piece in one chunk, in order, the text of a chunk within its ceiling |
| Synthetic data (`synthetic/*`, `services/synthetic_cleanup_service.py`) | demo issuers, stacks, recoveries | seed, remove, clean up | check table by table, then delete, next to real data | nothing real goes, nothing demo stays; senior is paid first |
| Issuer pages (`services/credit_universe_service.py`, `services/capital_structure_service.py`, `core/entitlement.py`) | none | list, show | several queries, a licence per fact | only entitled facts are shown |
| Morning brief, timeline, alert list (`services/morning_brief_service.py`, ...) | none | read | several queries while runs finish | an event is new on one business day |
| Search (`services/search_service.py`, `repositories/search_repository.py`) | none | search | four queries fill one group | no hit twice, groups in bounds |

How the parts meet: the API enqueues extractions and edits the documents they
read; the nightly scheduler starts discovery, which hands an issuer to
`process_issuer_filings` (the code of the filing monitor), which hands evidence
to alert synthesis, which asks the router, which commits its log row **and with
it whatever the caller has flushed**; discovery then calls the orchestrator for
the issuer. The analyst acts on alerts, notes and documents through requests.
`PROJECT.json` lists every part, modelled or not, and the hazards with their
lines.

## 2. Modules

| module | what it is |
|---|---|
| `DocumentExtraction` | the extraction queue, its workers, Storage and the requests on documents |
| `DocumentCorpus`, `ExtractionLifecycle` | abstract: what readers of chunks see; the life of one extraction |
| `DocumentExtractionRefinement` | the mappings to both, and the inductive invariant |
| `ModelRouter` | review, retry, escalation, budget and log of one run |
| `FilingMonitor` | runs, watermark, ingestion, matching and alert synthesis |
| `MarketDiscovery` | search, candidates, ingestion, SEC enrichment, the nightly trigger and the two clocks |
| `AnalystRequests` | requests on notes, documents and alerts |
| `CourtDockets` | search, match, link, the two walks of a docket, evidence, alerts, attempts |
| `Enrichment` | the orchestrator: extends `CourtDockets`, which is the call it makes for CourtListener |
| `Universes` | evidence-driven and curated universes and watchlists on their shared tables |
| `HttpClient` | throttle, retries and Retry-After |
| `ReferenceData` | the ingestion jobs of SEC EDGAR, OpenFIGI and FRED, and the market context |
| `SyntheticData` | the generators, the recovery waterfall, the cleanup, and the issuer pages under the licence policy |
| `DistressRules` | from a text to matches, evidence, a bundle, an alert and a universe |
| `Chunker` | structure_v1 and the validation before promotion |
| `ResearchDesk` | Morning Research Brief, watchlist page, timeline, alert list and tiles |
| `Search` | tiers, groups and limits of Universal Search |
| `Sums` | running sums, for the waterfall and the lengths of text |
| `*Proofs` | for the extraction queue, the router, the monitor, discovery, requests, dockets (with the orchestrator) and universes: the theorems of section 4 |
| `SupportProofs` | the theorems on `HttpClient`, `ReferenceData`, `ResearchDesk`, `SyntheticData`, `DistressRules`, `Chunker` and `Search`, one part each |
| `MC*` | the instances for TLC; `MCSupport` puts seven small components side by side |

### How a model corresponds to the code

`PROJECT.json` maps every definition to its lines. The granularity of steps is
the same everywhere: one step is one committed transaction, one call to an
outside service, or one read whose result is kept across other steps. What a
session has flushed and not committed is kept apart from the tables
(`newRows`, `newEvidence`, `newAlerts` in `FilingMonitor`; `demote` in
`DocumentExtraction`; `merged`, `loadedVersion` in `AnalystRequests`), because
other sessions do not see it but wait for it: row locks, inserts for an equal
unique key and `FOR UPDATE SKIP LOCKED` are modelled as what Postgres does.
Crashes lose exactly that part.

* **DocumentExtraction.** `ReclaimStaleJobs`, `ClaimNextPending`, `ReadDocument`,
  `Download`, `ExtractText`, `UploadArtifact`, `PersistChunks`, `PromoteCurrent`
  are the steps of one invocation of the worker script; `ReloadAfterError` and
  `FailOrRequeue` its error path, which decides on an attempt count that it has
  reloaded. The last transaction takes two steps: the SELECT of
  `promote_current` sees rows another session may still change. Time is one flag
  per row (`started_at` is older than the staleness limit). A PDF is text,
  scanned or corrupt. Faults: crash, Storage (which may or may not have done the
  work), database, slow worker.
* **ModelRouter.** `pc` is the route that is being asked; `Record`, the limits
  and `EscalateOrReturn` follow `review_evidence` and `_attempt`. What a model
  answers, what it costs and whether a request fails is arbitrary. A request is one try
  on the wire: an attempt of the router's provider makes up to three, as the SDK's client
  is built with its own default of two retries (`anthropic_provider.py:29`).
* **FilingMonitor.** A run takes one issuer at a time: `FetchFilings`,
  `MatchFiling`, `LookUpBundle`, then an alert with or without the model, then
  `CommitIssuer`. `AlertAfterModel` commits early, as the router does. A filing
  is matched by a rule or not, as given by `Distress`, and is its own bundle.
  Days stand for the watermark, since only its date is compared.
* **MarketDiscovery.** A run takes a query (`BeginQuery`), its hits one by one
  (`TakeHit`, then skip, fail, reject or resolve), then the issuer
  (`ProcessIssuer`), then the SEC provider of the orchestrator (`EnrichSec`).
  A day has two phases; in the evening the UTC date, with which watermarks and
  last successes are stamped, is the next one. The first check of an issuer reaches back a
  bounded number of days, any later one to the last success (`CheckSince`).
* **AnalystRequests.** Each request loads its row, decides, flushes (waiting for
  a lock or a key) and commits; it may be aborted anywhere. Notes and documents
  are loaded a second time before they are written, as the first `get` returned
  a copy. `Written` leaves out the columns that equal the loaded row, as
  SQLAlchemy does.
* **CourtDockets.** `StartAutoLink` .. `RecordAttempt` follow `attempt_auto_link`:
  `Search`, link and commit, the walk page by page, `MatchBatch`, alerts, commit, then the
  attempt row in a commit of its own. A failure of the source, a crash and an error of the
  walk end it at each of these places, the recording of the attempt included. The first
  walk goes by the court's number and is capped, later ones take ids above the largest on
  file. `newEntries`, `newEvidence`, `newAlerts` are what a session has flushed; an alert
  made with the model commits them early. Which signals of a search result agree with the
  issuer is data (`Signals`). A search may find any set of dockets, and the rows of
  evidence it reads may have moved on (`EvidenceGone`): the code looks at the newest fifty
  rows, and results come and go. Three variables keep what no row does: `overlooked` are
  the issuers of whom a search or a look at the evidence missed what is on record
  (`Overlook`, `OverlookEvidence`), `passedOver` the entries left out when a first walk
  ended, and `owner` and `about` say whose the docket's row was when a runner loaded it and
  when it committed evidence.
* **Enrichment.** A visit takes its providers in any order (they are a frozenset):
  skip by age and state, call, record the status. Ages are counted in ticks. The newest
  fifty rows of evidence may hold nothing relevant though older ones do. A nightly run
  visits the issuers of `Enriched`.
* **Universes.** A worker takes three steps: what its evidence calls for, the rows it
  reads, the commit, which clashes when a unique pair was taken or a row has gone. A
  corrector selects the alerts whose subject is unknown, asks the model and writes the
  answer in separate steps, and the write does not look again
  (`reclassify_system_universes.py:145-187`, `alert_repository.py:217-234`).
  Watchlist requests take two steps, the look-up and the write.
* **ReferenceData.** A job is one transaction over several requests: it keeps the
  payload, writes provenance, finds or creates the row; another session sees it at
  the commit, when unique indexes refuse. A job is described by what it requests and
  when its issuer is looked up (`IdentityJob`, `BondsJob`, ...).
* **SyntheticData.** The database is a set of rows that refer to each other; a statement
  that leaves a reference dangling raises. A real security is layer 0 of any issuer, the
  demo ones included. The deletion of an issuer looks for research, one table per step,
  then for real securities, reads what it owns, and runs its six DELETEs one by one; one
  that raises rolls all of them back, and other sessions commit between any two of these
  steps. The reads are one step (`ReadOwned`): what another session commits between two of
  them adds to one of the tables read only, and such commits commute, so some order of the
  same steps gives the same reads. `recoveries` follows the waterfall with its rounding,
  and pages take the facts one by one and keep those that `policy_check` permits.
* **DistressRules.** A text is the set of places where a phrase or an item code
  occurs; a place is masked when a suppressing phrase stands in its window. All rules
  of the source are there, by their ids without the prefix `phrase_`. Evidence is the set
  of the places in that list of the rules that matched; the order in which it is created
  is the order of the list.
* **Chunker.** A block has a type, a level and the lengths of its words (0 between two
  spaces in a row); one action per branch of the loop over blocks, and in a body one step
  per piece of `_split_oversized`. A piece is the run of words it takes of its block, so
  that nothing is said of what the words are; `word` is the first not yet taken.
* **ResearchDesk.** A page is the list of queries it makes; each sees the rows as they are
  when it runs.
* **Search.** The queries still to run are a set, and the turn of a query (`QueryTurn`) its
  place in the order of `search` and `_GROUP_FUNCTIONS`; hits are kept in the order they
  are found, and the response is the places of those it shows (`Results`).

## 3. What TLC checks

| run | instance | properties, and what they show |
|---|---|---|
| `extraction_overlap` | 1 document, 2 extractions, 2 overlapping invocations, 3 attempts, all faults, symmetric workers | `IndInv`, `AttemptsBounded`, `ImplementsCorpus`: readers of chunks see complete extractions only and exactly one current one, whatever overlapping workers do |
| `extraction_single` | a readable, a scanned and a corrupt document, 2 classes, 2 extractions, 1 invocation at a time, Storage that refuses a taken key | `ChunksIffCompleted`, `RetryBudgetHonoured` (spent on faults only), `ImplementsLifecycle`, `EventuallySettled` |
| `router_limits` | 6 reviews, limits 4 calls, 2 Sonnet calls, cost 5, 2 attempts of 3 requests, failing log rows | `BudgetIsHard`, `RequestsAreBounded`, `LogMatchesBudget`, `BestOpinionReturned`: all three limits bite and hold, and what a review returns is the best opinion it could have, also where Sonnet is blocked |
| `monitor_single` | 2 issuers, 3 filings, 3 days, delta runs one at a time, 2 failures or crashes | `NothingSkipped`, `OneAlertPerBundle`, `EvidenceIsAlerted` |
| `monitor_two` | 2 overlapping runs of every mode, 2 filings of two issuers, failure, crash, deferral | `FilingsCarryEvidence`: a stored filing has its evidence exactly once |
| `discovery_nights` | 3 nights, a first check that looks back 2 days, 3 hits of 2 filers, 2 queries, 2 failures of every kind but "slow" | `WatermarkCoversSearch`, `ChecksLeaveNoGap`, `EventuallyExamined` |
| `discovery_operator` | the nightly run and an operator's run of every mode overlap, a cap of one hit | `DiscoveryInv`, the inductive invariant behind the first two |
| `discovery_stored` | 3 nights without any failure | `ResolvedIsStored` **violated**: a resolved filing the watermark has passed is not stored |
| `requests_overlap` | 3 requests of any kind on a note with two columns, a document and an alert | `NoLostEdit`, `RowHasObject`, `EventuallyAnswered` |
| `enrichment_dockets` | 2 issuers, one of them enriched, 2 dockets that pass for it, one curated for the other; 3 entries numbered against their ids, one with a sealed document, pages of one; one failure, crash or deferral | `DocketInv`, `LinksAreJustified`, `NoGapBelowCursor`, `StatusIsBacked` |
| `universes` | 1 issuer with definitive and suggestive evidence, a system and a curated universe, watchlist names that make their slugs, a classifier, two correctors, a client | `VerifiedNeedsSubject`, `CorrectionSettles`, `AnalystRowsStay`, `LiveNeverWeakens`, `WatchlistsAreLocal` |
| `support` | `HttpClient` (interval 2, 2 retries, ceiling 3), `ReferenceData` (2 jobs, 2 days, 4 responses), `SyntheticData` (3 layers, 3 stacks, 1 row of research, a real security), `DistressRules` (2 texts, 2 mentions), `Chunker` (documents of 4 blocks on 2 pages), `ResearchDesk` (4 days, 2 alerts, 2 runs), `Search` (3 rows, groups of 2) | `PoliteClient`; `RowsTraceToPayloads`, `ContextAsFreshAsLabelled`; `CleanupIsExact`, `SeniorFirst`; `WorstSignalLeads`; `ChunksPartition`; `BriefKeepsItsCycle`; `NothingShownTwice` |

`enrichment_dockets` is the union of two parts, picked by a variable `part`: "walks" has
all three entries and both runners, and its visits take the providers in one order;
"visits" has every order and outcome of the providers over both dockets, and leaves out
the sync script and two entries. The seven components of `support` share no state, so a
variable `part` picks one per behaviour and holds the others at rest; the run is the union
of seven runs. Its programmes, scenarios and stacks (`MCProgrammes`, `MCScenarios`,
`MCStacks`) say which jobs, pages and amounts meet in one behaviour.

Every property of a passing run has a mutant in `PROJECT.json`: a plausible bug
in a definition of the model with which TLC finds the property violated.

**Why the bounds are enough.** The races in this code are between two sessions
over one or two rows, so two actors and two rows show them; three requests are
used where a third may arrive between the two. The attempt limit is at least
two, so that a retry, and the last retry, both happen. The limits of the router
are below what six reviews would use, so each one bites, also together.
Three days give a failed night, a night that recovers it, and the night after.
A docket of three entries in pages of one, capped at two pages, whose numbers run against
the ids, has a first walk that is cut short above what it left out, and a later one that
goes on from there. Two mentions are what a
rule of supersession or exclusion looks at; four blocks let a chunk be closed by a
heading, a table, the target and the ceiling. `MaxFaults` bounds failures so that TLC
terminates and liveness can be asked at all; the safety properties that are proved
hold without that bound. `LastDay`, `MaxReviews`, `MaxExtractions`, `MaxFetches`,
`MaxEdits`, `MaxClock`, `MaxAge` and their like bound counters and appear in guards
or initial states only.

Two abstractions of an instance matter for what it shows. `universes` has one bundle, so
that its two correctors choose the same; reviews there are "high, unknown" and "low, yes",
so that a yes for definitive evidence comes from a second review. `monitor_single` and
`discovery_nights` have failures that end, so what a permanent one would do is not theirs.

**To see what the code does not promise**, add to the instances: `UploadKeyIsFresh` to
the cfg of `extraction_single`; `UnalertedStaysInWindow` to that of `monitor_single`
with `Faults = {"defer"}`; `OneAlertPerBundle` to that of `monitor_two`;
`RealSecuritiesStay` and `ChunksWithinCeiling` to that of `support`. TLC finds each
violated; section 5 says what they quote.

**Deadlock** is checked for the extraction queue, which always has a next
invocation. The other models stop for good when their days, reviews, requests or
rows are used up, so their configurations say `CHECK_DEADLOCK FALSE`; that nobody
waits for ever is the liveness property there.

**Fairness.** Weak fairness is assumed of steps only: an invocation or a run
that has started goes on until it returns or dies (it is one thread without
waits for other parts, except for locks that end with a transaction); cron starts
the worker every five minutes, the nightly trigger fires every evening; the
clock advances; a delta run of the monitor is started again and again. Nothing
is assumed of outside services: every call may fail each time, up to
`MaxFaults` (or the attempt limit) in a run. No fairness is assumed of
publication, of operators or of analysts. The models of dockets, universes and the
seven of `support` state safety only: what a failed visit or sync leaves undone is
taken up by the next one, which an operator or a schedule outside the code starts.

## 4. What is proved

TLAPS checks the following for every value of the constants, hence for any
number of workers, runs, issuers, filings, dockets, days, requests and failures.
Where a theorem needs more than the named assumptions, its hypothesis is part of its
statement (ASSUME) and is listed here.

* **Extraction queue** (`DocumentExtractionProofs`). `CurrentIsSafeToRead` is not
  inductive: a worker about to promote must be known to hold the only open
  promotion of its row, over a row that has no chunks. `IndInv` adds that
  (`PromotionsExclusive`), what an invocation knows of its row
  (`WorkersInformed`) and that state belongs to existing rows. From it follow
  `TypeOK`, `CurrentIsSafeToRead`, `OneCurrentPerDocument`, `CurrentNeverLost`
  and, step by step, that the queue implements `DocumentCorpus`: promotion maps
  to `Publish`, every other step to a stutter.
  `AttemptsBounded` is a count (`AttemptsCounted`): once the budget of a row is used up,
  its attempts, its place in the queue and the workers still about to requeue it on a
  count they reloaded earlier come to `MaxAttempts` and the number of workers less one;
  that number is finite (`WorkersAssumption`).
  Three results are about invocations that do not overlap (`OneWorker`: any two workers
  are equal), because with two they are false. `LoneInv` says that the live invocation
  holds its row (`RowIsHeld`: the attempt it counts is the row's, and it will demote
  every other current row) and that the budget is kept while it does (`BudgetKept`); it
  gives `ChunksIffCompleted`, and step by step the refinement of `ExtractionLifecycle`.
  `RetryBudgetHonoured` needs `RetryInv` (every attempt but a running or a successful one
  was struck by a fault) and a database that answers (`"database" \notin Faults`): an
  error in the transaction that records a failure is no fault of the attempt.
* **Router** (`ModelRouterProofs`). `RouterInv` adds to the limits that a call in
  progress was admitted when the limits were checked (`CallInProgress`) and has
  not been recorded since, and what the opinions of the review in progress say of the calls
  it has made. Budget, requests per call (`SendStep`, `EndCallStep` count those of the
  SDK), log and the rule for definitive evidence follow, and `BestOpinionReturned`, over
  all paths of a review: a route that was passed over could not be called.
* **Filing monitor** (`FilingMonitorProofs`). `EvidenceInv` says that rows in an
  open transaction are in no other one and that unmatched filings are still in
  hand; with it `FilingsCarryEvidence` holds for overlapping runs in every mode.
  `NothingSkipped` needs `WatermarkInv` (everything behind a delta run is stored
  or given up) and two hypotheses, stated in the theorem: no run at midnight and
  no backfill. `OneAlertPerBundle` is proved for one runner (`Alone`); for two it
  is false (section 5).
* **Market discovery** (`MarketDiscoveryProofs`). `DiscoveryInv` says that a day
  in the window of a run is examined, still to be searched, or the run has an
  error and will not move the watermark (`WindowIsSearched`), that a delta window
  starts where the examined days end (`WindowStartsInTime`), and that the dates of
  the two clocks agree (`DatesAgree`). It gives `WatermarkCoversSearch` for any
  number of overlapping runs of any mode under the hypothesis that no run lasts
  through an afternoon (`"slow" \notin Faults`), as which the invariant is a theorem of its
  own (`DiscoveryInvariant`). `ChecksLeaveNoGap` needs no such hypothesis; it
  speaks of the days after the one the first successful check looked back to
  (`checkedFrom`), and `CheckInv` adds that the last success is one of those on record.
* **Analyst requests** (`AnalystRequestsProofs`). `NoLostEdit` rests on the unique
  index: a request whose key `loadedVersion + 1` is free edits the last version,
  and the one that holds this key is the only one (`Flight`), so what it merged is
  an edit of the live row when it commits. `RowHasObject` rests on the fresh id of
  an upload (`UploadInv`). `DismissalIsFinal` rests on the row lock: what the CHECK
  constraint accepted at the UPDATE still holds at the COMMIT (`AlertInv`).
* **Court dockets** (`CourtDocketsProofs`). `DocketInv` is inductive: that an entry
  carries its evidence once needs that no two sessions have inserted the same entry
  (`InsertsAreExclusive`, from the unique index), and that when a walk ends, or the
  router commits early, all that was inserted has been matched (`MatchingIsComplete`).
  `LinksAreJustified` is inductive with `TasksInHand`: a runner on its way to a link or
  past it holds a match that passes (`Matched`), and a runner in a walk holds the row of a
  docket that has an owner, the one the docket has now (`Loaded`), since a link never
  changes. So the evidence it commits is about that issuer, and an attempt it records
  verified is of a docket whose walk it has committed; that two strong signals and the
  case type pass is a lemma on cardinalities (`PassesIsStrong`).
  `NoGapBelowCursor` is a theorem of the dockets (`NothingMissed`) and, through the
  refinement below, of the visits (`VisitsMissNothing`), for any order of the court's
  numbers. `CursorInv` is the reason: all that is published below a stored entry is stored
  or was passed over (`StoredBelow`), and of each runner (`WalkedOver`), a later walk has
  accounted for all up to the id it has reached, a first one for all below what it holds
  when it ends (`Accounted`: stored, in its session, or passed over). A page of a later
  walk takes the next ids and leaves none out (`PageIsNext`), and a first walk notes what
  it leaves out, so a commit closes what it stores downwards, early or not; that the
  cursor is a stored entry is the lemma that a finite set of numbers has a maximum, which
  comes from the library's well-founded order on the naturals without an induction of our
  own.
* **Orchestrator** (the second half of `CourtDocketsProofs`). Every step of
  `Enrichment` is a step of `CourtDockets` or leaves the dockets alone
  (`VisitsImplementDockets`: the mapping is the identity, as the module extends the
  other), so the invariants above hold of it. `StatusIsBacked` needs three more
  (`EnrichInv`): what a visit knows at each place of the call (`VisitKnown`); that
  `unsupported`, which is never run again, is set only on an issuer nothing is linked
  to and no visit is at work on (`StatusKnown`); and that an issuer is tied, by a row,
  by a visit on its way or by an attempt, to one docket at most (`TiesAgree`). The last two
  are claimed of issuers nothing was overlooked of, and so is the second half of the
  property: searches may shrink, and section 5 says what the code does then. What an issuer
  is tied to is linked (`TiesAreLinked`) and passes, so a search that overlooks none finds
  it among those that pass; a match is alone among these (`MatchIsAlone`), so it is the
  docket the issuer was tied to.
* **Universes** (`UniversesProofs`). `UniverseInv` adds to the types that a worker on
  its way has an issuer (`WorkersOnIssuers`), that an alert under review exists and, with
  one corrector, is as it was chosen (`ReviewsAgain`), that every yes on file is in the
  history of what reviews have said (`YesIsSeen`), and that a client holds a watchlist or
  the slug of one that is gone (`RequestsHeld`). `VerifiedNeedsSubject` is inductive with
  it: a membership rests on that history, which only grows (`ReviewsStay`), as the alert
  itself may be overwritten by a second corrector; that a yes stands (`YesIsKept`) is
  claimed where corrections do not overlap. The same invariant gives the four action
  properties: no classification weakens, a correction that nothing overtook settles, an
  analyst's row goes only by an analyst, and nothing a client does reaches a universe.
* **HTTP client** (`SupportProofs`, as all that follow). `OnSchedule` dates each
  phase of a call by the number of its attempts; linear lemmas on `Due` add it up to the
  budget of a call.
* **Reference data**. `RefInv` says of each session (`SessionInv`) what its place in its
  requests is (`PlanFits`), that all it holds was published and comes from a payload it
  will commit (`ReadsPublished`), that an item that belongs to an issuer is taken only
  when the issuer's row is in sight (`KnowsIssuer`), that each row it has written is
  traced within its own transaction or the tables (`Traced`), and that the label it has
  written promises no observation that is not stored or in its hands (`KeepsPromise`). A
  commit moves all of it at once, a rollback drops all of it, and payloads only grow, so
  `RowsTraceToPayloads` and `ContextAsFreshAsLabelled` hold for any number of
  overlapping sessions, with one lemma per action. That a latest observation is shown
  rests on the day the providers have reached, which bounds their numbers; that one of
  those fetched has a value, on a series never leaving out a whole window of dates in a
  row (`WindowAssumption`).
* **Research desk**. `DeskInv` says that runs complete one after the other, and those
  read as successful are complete (`RunsInv`), and of the page being assembled
  (`PageInv`) which runs it has in hand after each query and that they, or newer ones,
  were latest when it asked; hence `CycleFollowsDailyRuns`. `NewOncePerBusinessDay` is
  arithmetic: of four days in a row one is a business day, so the cycles of two business
  days are disjoint, and the set of business days on which an alert is new has one
  member at most.
* **Demo data**. `SynthInv` says that each row has the fields its table gives it
  (`RowFits`), that nothing refers to a row that is not there (`Consistent`), that a
  source that names a row comes with the row unless a deletion left it (`SourcesUsed`,
  `OrphansInv`), and of a deletion under way (`CleanupInv`) that its issuer is synthetic
  and there, that what came since the last check is known, a real security first of all
  (`LateInv`), that what it read is all there is but for that (`ReadInv`), that what it has
  deleted so far leaves no reference dangling and is not real unless it came since
  (`GoneInv`), and which tables are done (`DoneInv`). A statement that raises does so
  because of research or of what came since (`StatementFails`); six that do not leave
  sources nothing owned and what came since (`DeletionIsWhole`). `CleanupIsExact` follows.
* **Recovery waterfall**. `WaterfallInv` says that the recoveries on file are those of
  `RecoveryWaterfall` whenever the demo issuer is there. Of the function, `LayerRecovers`
  says what one layer gets (all, nothing, or within half a hundredth of a percent of what
  is left), and `PaidSoFar`, by induction over the layers, what the layers down to one get
  together: all they are owed, or the value but for one rounding, as one layer at most is
  paid in part. `SeniorFirst` is read off at the last layer.
* **Distress rules**. `DistressInv` says that evidence is none or all that matched and that
  an alert is the one of its bundle. The list of rules is not expanded: `RulesAreSound`
  goes through its five parts once, for the severities and for the rules a docket entry is
  not read with, and `PrimaryIsWorst` takes the first of the worst by the least-number
  principle. Hence `WorstSignalLeads` for texts with any number of mentions.
* **Chunker**. `ChunkInv` is `ReadTo` of the place reached: every word of the document
  that has been passed is in a chunk or the accumulator (`TextOK`), these hold runs of
  passed words only (`RunOK`), one after another (`Ordered`, `Precede`), each under the
  headings open at its place, the stack of headings is `OpenBefore` of the place, ever
  deeper (`HeadingsOK`), and the text of chunks and accumulator keeps to the ceiling. That
  length is `char_count`, without separators; `ContentLength` is the chunk's. `ReadTo` takes
  its arguments one by one, so that a step is shown in the old state and carried over by
  `ReadOn`. The steps rest on lemmas about sums (`SumsGrow`, `SumsAgree`), about what
  fits (`FitsWithOneMore`, `NextPieceFits`) and about the stack: `HeadingOpens` shows
  that popping while the top is as deep leaves exactly the headings the new place stands
  under. `ChunksPartition` follows for documents of any number of blocks, pages and
  words.
* **Search**. `SearchInv` says that the query of a hit has been asked and none to come is
  earlier (`WasAsked`), that hits are in the order of their queries and a row is found twice
  at most as an exact match and in its group (`InOrder`), and that groups keep to their
  limit. `NothingShownTwice` follows, as what is shown leaves out of the groups what is an
  exact match.

**Induction over data.** The library's induction theorems take an operator and cannot be
used with the installed provers. The proofs about sums, layers and words use sets
instead: `AllNaturals`, a set of numbers with 0 and with each number the next is all of
them, is proved from `LeastNatural`, and the claim is that the set of numbers with the
property is such a set. A recursive function is a CHOOSE and says nothing until some
function satisfies its equation: `TotalIsDefined` builds the finite beginnings of a sum
by this induction, shows that they agree, and puts them together. That is why `Chunker`
and `SyntheticData` add up with `Total` and not with a fold.

The proofs use only the named assumptions on constants, which TLC evaluates in
every run: besides bounds and types, `WorkersAssumption` and `FigisAssumption` (finite
sets), `ProgrammesAssumption` (the jobs of a programme are among the six there are) and
`SyntheticAssumption` (layers are numbered from the most senior without a gap; amounts are
numbers; tables of research are none of the six the generators fill), `ChunkerAssumption` (a
block is one of three types and holds a word, as `_split_blocks` drops what is blank; the
target is at most the ceiling) and `SearchAssumption` (finitely many rows, of kinds that are
searched).

Where the form of a definition matters to the prover: it reads `UNION A \cup B` as the
union of `A \cup B`, so such terms carry parentheses; it does not expand `:>` and `@@`, so
`Noted` in `ResearchDesk` is written as a function.

Some properties are proved or stated and not asked of TLC again, as a run shows
something that implies them: `CurrentNeverLost`, `CurrentIsSafeToRead`,
`OneCurrentPerDocument` (in `IndInv` and `ImplementsCorpus`),
`NoHaikuVerdictOnDefinitive`, `DismissalIsFinal`.

**Only model-checked:**

* liveness (`EventuallySettled`, `EvidenceIsAlerted`, `EventuallyExamined`,
  `EventuallyAnswered`): fairness and ENABLED are out of the prover's reach.

Every invariant and every action property of a passing run is stated by a theorem.

No module declares a RECURSIVE operator.

## 5. Where the code and its documentation disagree

Checked by the run `discovery_stored`:

* A filing that was found, resolved and passed by the watermark is never stored: the
  search includes the first day of its window, the ingestion excludes it
  (`services/market_discovery_service.py:390`).

Shown by the instances of section 3 once the property is added:

* `UploadKeyIsFresh`: the key of an artifact is made of the extraction's id, so a
  retried extraction uploads to a key it may have used before
  (`services/document_extraction_service.py:296`), although `storage/base.py:32` says
  that keys are fresh. The Supabase client sends no upsert header: a bucket that refuses
  a taken key fails every further attempt.
* `UnalertedStaysInWindow`: a deferred bundle is no error, so the watermark passes its
  filing (`services/alert_synthesis_service.py:221`); line 290 says it "remains
  reachable by a future call".
* `OneAlertPerBundle` with two runners: the alert is looked up and inserted seconds
  apart, and `alert_event.bundle_key` has no unique index
  (`services/alert_synthesis_service.py:296`); `repositories/alert_repository.py:86`
  says "one alert per evidence bundle, ever". The same holds for docket entries.

Met while modelling, within what the models do but without a run of their own:

* *Extraction.* A document archived between enqueue and processing does get chunks
  (`document_extraction_service.py:81` against 232). A chunk keeps the
  confidentiality the worker read, also when the document was reclassified before
  the commit (`models/document_chunk.py:4`). A slow worker's row is reclaimed and
  processed by two workers (`document_extraction_repository.py:11` against 134);
  the models show that this is harmless to readers.
* *Router.* The module promises exactly one `ai_call_log` row per real API request and
  writes one per call, however often the provider retries (`model_router.py:12`): with
  the SDK's retries, which nothing turns off (`anthropic_provider.py:29`), one row stands
  for up to three requests per attempt; a retry does not ask `can_call` again (line 38); a
  blocked escalation is not a deferral but returns Haiku's answer (line 39).
* *Monitor.* A backfill's end moves the watermark that delta runs start from, past a
  window that had failed. A run across midnight stamps a watermark later than the
  days it read (`filing_monitor_service.py:18`). The router commits in the middle of
  an issuer, so a failure does leave rows of that issuer
  (`filing_monitor_service.py:270`). A filing without a primary document raises on
  every attempt and keeps the watermark where it is
  (`providers/sec_edgar/provider.py:436`).
* *Discovery.* A candidate whose issuer failed is skipped by the next run, which the
  watermark was held back for (`BUILD_LOG.md:4329`). A verification request that fails
  counts as a rejected issuer. A daily run started by hand in the evening can make the
  next night skip; a run that lasts through an afternoon can stamp a watermark past
  filings it did not see. The row of a crashed run stays `running`.
* *Analyst requests.* `is_archived` is read without a lock, so an edit can land on a
  note or document that was archived meanwhile, although archived notes are said to be
  read-only (`research_note_service.py:50`); two archives of one record are both
  recorded in the audit trail. The compensating delete of an upload covers the handler
  and not the commit after it, so a failed commit, or an upload that failed after it
  reached Storage, leaves an object no row names. Acknowledging a dismissed alert runs
  into the CHECK constraint and is answered with a 500.
  `apply_note_fields` speaks of the pre-edit snapshot; the version that is written is
  the text after the edit.
* *Court dockets.* A first walk that was capped or interrupted, or an entry published
  late under a lower number, leaves entries with ids below the largest on file, which
  no later walk asks for (`providers/courtlistener/provider.py:52`, 165, 177;
  `court_docket_entry_repository.py:77` says it "can never re-fetch or skip"). These are
  the `passedOver` of `NoGapBelowCursor`, and there are no others. When the router
  has committed a walk early and the rest fails, or the bundle is deferred, the entries
  are not fetched again and their alerts are never made
  (`court_docket_service.py:119`). A first sync that raises leaves the link without its
  attempt row (`court_docket_service.py:262`, 320). `link_docket` ignores the issuer it
  is given when the docket exists: a verified match of one issuer on a docket that was
  curated for another leaves the link as it is, files the evidence under the other, and is
  recorded as verified and complete.
* *Enrichment.* The order of the providers is that of a frozenset, so CourtListener may
  run before SEC has stored the evidence it asks about, and then is `unsupported`, which
  is not tried again. So is an issuer whose docket was linked without its attempt on
  record when the newest fifty rows hold no relevant evidence any more
  (`enrichment_orchestrator.py:321`, `court_docket_service.py:271`). The retry sweep of
  the module's docstring (lines 10-13) does not exist; `RUNNING` and `PENDING`, and the
  outcomes "retryable" and "unavailable", are never produced. Overlapping visits may move
  `last_success` back.
* *Universes.* `seed_evidence_driven_universes` is called only by the reclassify script: a
  watchlist named "System Chapter 11" can take the slug before, then the seed raises
  (`universe_classification_service.py:203`) and `classify_issuer` writes the system's
  memberships into that list, which the comment at line 56 excludes. A watchlist named
  like a curated universe is healed to `manual_curated` by the seed script
  (`seed_research_universes.py:505`) and stays of type watchlist. A correction writes what
  it computed, also when a classifier has committed between its reads and its write. Two
  correctors that chose the same alert both write their review, and the later may take
  back the yes of the earlier, on which a verified membership rests
  (`alert_repository.py:217`). `list_credit_universe` and `list_alerts` page by a column
  with ties.
* *Reference data.* Aggregate debt has no unique index, so overlapping jobs store it
  twice; a fact, observation or aggregate that exists is never refreshed, while the label
  is; a FIGI stored for another issuer is returned as this issuer's bond; the identity
  job does not look again before its insert.
* *HTTP client.* The ceiling is on one wait and not on a call (`http_client.py:99`);
  after a refusal that is raised, the next call may go before its Retry-After. The
  timeout of httpx is per phase; that one answer takes at most `Timeout` is an
  assumption of the model.
* *Distress rules.* "chapter 11 of the Bankruptcy Code" suppresses the bare mention of
  chapter 11, where the docstring speaks of the Internal Revenue Code only. Evidence of
  one transaction has one `created_at`, so ties for the primary evidence fall to the
  order of the list. Chapter 7 maps to no universe.
* *Chunker.* A heading is flushed alone when the paragraph after it does not fit
  (`chunker.py:20` says otherwise); a word longer than the ceiling is not split (line 28);
  `char_count` leaves out the separators (line 237) that `flush` puts between the pieces
  (line 180), so a chunk of many short paragraphs exceeds the ceiling that lines 28-29 say
  no chunk exceeds: 2000 paragraphs of one character are 5998 characters, the ceiling is
  4000. `ChunksWithinCeiling` states the claim; added to the instance of `support` it is
  refuted by three blocks of one character (7, with a ceiling of 6).
* *Morning brief.* After a missed night the research day is the first of its window, so
  events of its later days are shown as historical and never counted as new. Events that
  are not about the issuer are in the brief and in neither timeline nor watchlist.
  Research days may fall on a weekend and then share a cycle, so that an event is new
  once is claimed for business days only.
* *Synthetic data.* A real security that is committed after the check for it
  (`synthetic_cleanup_service.py:122`) is deleted with its issuer, whatever its role (line
  167), or makes a later statement raise; its source stays. `RealSecuritiesStay` is what
  the module promises (lines 15-20). Deleting the demo issuer leaves the provenance of the
  enterprise value and of layers without a security (`synthetic_cleanup_service.py:14`);
  removing synthetic securities raises when a position refers to one (line 9 says it is
  safe for any issuer); `delete_synthetic_only_issuer` does not count notes, documents and
  link attempts and raises for them. Two overlapping seeds may store an issuer twice.
  These functions are called by tests only.

## 6. Not modelled, and the plan

Not modelled: the web client; sessions, settings, wiring and migrations, whose rules
(no autoflush, one commit at the end of a request, constraints and unique indexes) shape
the steps of all modules; tests and evaluation. Left out of modelled parts: parsing,
wording and names; the regular expressions behind a phrase; how Postgres ranks within a
tier; filters, sorting and paging of lists beyond one page; the PDF library; renaming
and notes of watchlists; the demo note script; the two read views of dockets. They keep
no state the properties are about, or are pure functions of text.

What is worth doing next, in order:

1. Liveness of the orchestrator once a schedule for its visits exists in the code.
2. Permanent failures in the liveness of the monitor and of discovery: what is promised
   of the other issuers while one fails every night.
