--------------------------- MODULE FilingMonitor ---------------------------
(***************************************************************************)
(* The filing monitor and the alerts it raises: run_monitor with its       *)
(* baseline, delta and backfill modes (services/filing_monitor_service.py) *)
(* and the synthesis of one alert per evidence bundle                      *)
(* (services/alert_synthesis_service.py).  A bundle is a filing: the rules *)
(* match it as a whole or not at all.  The nightly job and the manual      *)
(* trigger are runners, which nothing keeps from overlapping.  Days stand  *)
(* for the watermark's date, the only part of it that is compared.         *)
(***************************************************************************)
EXTENDS Naturals, FiniteSets

CONSTANTS
    Issuers,     \* the issuers of the monitored collections
    Filings,     \* filings SEC may publish
    IssuerOf,    \* the issuer of each filing
    Distress,    \* the filings some distress rule matches
    Runners,     \* processes that run the monitor
    Modes,       \* modes used: baseline, delta, backfill
    Lookback,    \* --backfill-days
    LastDay,     \* bound of the model: days that pass
    Faults,      \* source, crash, defer, overnight
    MaxFaults,   \* bound of the model: failures and crashes
    None

Days == 1..LastDay

ASSUME MonitorAssumption ==
    /\ IssuerOf \in [Filings -> Issuers]
    /\ Distress \subseteq Filings
    /\ Modes \subseteq {"baseline", "delta", "backfill"}
    /\ Faults \subseteq {"source", "crash", "defer", "overnight"}
    /\ Lookback \in Nat /\ LastDay \in Nat /\ MaxFaults \in Nat
    /\ None \notin Nat /\ None \notin Issuers /\ None \notin Filings

VARIABLES
    today, filedOn,     \* the calendar, and what SEC has published
    rows,               \* sec_filing rows
    evidence,           \* sets of research_evidence rows per filing
    alerts,             \* alert_event rows per bundle
    watermark,          \* resulting_watermark of the latest successful run
    pc, mode, since,    \* a runner: where it is, its mode, its window
    todo, failed,       \* its issuers left, its issuers that raised
    current, unread,    \* its issuer, and the filings not yet matched
    bundles, bundle,    \* the bundles left, and the one under review
    newRows, newEvidence, newAlerts,  \* its uncommitted writes
    skipDays,           \* history: days a finished run does not cover
    faults              \* history: failures so far

database == <<rows, evidence, alerts, watermark>>
world == <<today, filedOn>>
session == <<newRows, newEvidence, newAlerts>>
run == <<pc, mode, since, todo, failed, current, unread, bundles, bundle>>
history == <<skipDays, faults>>
vars == <<world, database, session, run, history>>

Init ==
    /\ today = 1
    /\ filedOn = [f \in Filings |-> None]
    /\ rows = {}
    /\ evidence = [f \in Filings |-> 0]
    /\ alerts = [f \in Filings |-> 0]
    /\ watermark = None
    /\ pc = [r \in Runners |-> "idle"]
    /\ mode = [r \in Runners |-> "delta"]
    /\ since = [r \in Runners |-> 0]
    /\ todo = [r \in Runners |-> {}]
    /\ failed = [r \in Runners |-> {}]
    /\ current = [r \in Runners |-> None]
    /\ unread = [r \in Runners |-> {}]
    /\ bundles = [r \in Runners |-> {}]
    /\ bundle = [r \in Runners |-> None]
    /\ newRows = [r \in Runners |-> {}]
    /\ newEvidence = [r \in Runners |-> {}]
    /\ newAlerts = [r \in Runners |-> {}]
    /\ skipDays = {}
    /\ faults = 0

-----------------------------------------------------------------------------
(* The world. *)

\* Midnight; a run lasts past it only with the fault "overnight".
NextDay ==
    /\ today < LastDay
    /\ "overnight" \in Faults \/ \A r \in Runners : pc[r] = "idle"
    /\ today' = today + 1
    /\ UNCHANGED <<filedOn, database, session, run, history>>

\* SEC publishes a filing; its filing_date is that day.
Publish(f) ==
    /\ filedOn[f] = None
    /\ filedOn' = [filedOn EXCEPT ![f] = today]
    /\ UNCHANGED <<today, database, session, run, history>>

-----------------------------------------------------------------------------
(* Transactions of a runner. *)

Plus(counts, set) == [f \in Filings |-> IF f \in set THEN counts[f] + 1 ELSE counts[f]]

\* COMMIT of what r has flushed.
CommitRows(r) ==
    /\ rows' = rows \cup newRows[r]
    /\ evidence' = Plus(evidence, newEvidence[r])
    /\ alerts' = Plus(alerts, newAlerts[r])

\* ROLLBACK, and the empty session after a COMMIT.
Discard(r) ==
    /\ newRows' = [newRows EXCEPT ![r] = {}]
    /\ newEvidence' = [newEvidence EXCEPT ![r] = {}]
    /\ newAlerts' = [newAlerts EXCEPT ![r] = {}]

NoWrites == UNCHANGED <<rows, evidence, alerts>>

-----------------------------------------------------------------------------
(* run_monitor. *)

\* Mutant of WindowStart: a first delta run has no watermark to take the date of.
WatermarkExpected(m) ==
    CASE m = "delta" -> watermark
      [] m = "backfill" -> IF today > Lookback THEN today - Lookback ELSE 0
      [] OTHER -> today

WindowStart(m) ==
    CASE m = "delta" -> IF watermark = None THEN 0 ELSE watermark
      [] m = "backfill" -> IF today > Lookback THEN today - Lookback ELSE 0
      [] OTHER -> today

\* The run row is committed, the issuers are listed.
StartRun(r, m) ==
    /\ pc[r] = "idle"
    /\ pc' = [pc EXCEPT ![r] = "issuers"]
    /\ mode' = [mode EXCEPT ![r] = m]
    /\ since' = [since EXCEPT ![r] = WindowStart(m)]
    /\ todo' = [todo EXCEPT ![r] = IF m = "baseline" THEN {} ELSE Issuers]
    /\ failed' = [failed EXCEPT ![r] = {}]
    /\ UNCHANGED <<world, database, session, current, unread, bundles, bundle, history>>

\* ingest_recent_filings keeps entries with filing_date > since.
InWindow(r, i) ==
    {f \in Filings : IssuerOf[f] = i /\ filedOn[f] # None /\ filedOn[f] > since[r]}

\* Rows another runner has inserted and not committed: an insert of the same
\* accession number waits for that transaction.
Contended(r, i) == \E q \in Runners \ {r} : newRows[q] \cap InWindow(r, i) # {}

FetchFilings(r, i) ==
    /\ pc[r] = "issuers" /\ i \in todo[r] /\ ~Contended(r, i)
    /\ pc' = [pc EXCEPT ![r] = "match"]
    /\ current' = [current EXCEPT ![r] = i]
    /\ unread' = [unread EXCEPT ![r] = InWindow(r, i)]
    /\ bundles' = [bundles EXCEPT ![r] = {}]
    /\ newRows' = [newRows EXCEPT ![r] = @ \cup (InWindow(r, i) \ rows)]
    /\ UNCHANGED <<world, database, newEvidence, newAlerts, mode, since, todo, failed, bundle,
                   skipDays, faults>>

HasEvidence(r, f) == evidence[f] > 0 \/ f \in newEvidence[r]

\* Mutant of Bundled: only the filings this attempt inserted go on.
OnlyNewFilings(r, f) == f \in newRows[r] /\ f \in Distress

\* A filing whose evidence exists, or is about to, becomes a bundle.
Bundled(r, f) == HasEvidence(r, f) \/ f \in Distress

\* Mutant of MatchFiling: existing evidence is not looked for.
MatchAgain(r, f) ==
    /\ pc[r] = "match" /\ f \in unread[r]
    /\ unread' = [unread EXCEPT ![r] = @ \ {f}]
    /\ newEvidence' = [newEvidence EXCEPT ![r] = IF f \in Distress THEN @ \cup {f} ELSE @]
    /\ bundles' = [bundles EXCEPT ![r] = IF f \in Distress THEN @ \cup {f} ELSE @]
    /\ UNCHANGED <<world, database, newRows, newAlerts, pc, mode, since, todo, failed, current,
                   bundle, history>>

\* _process_one_filing: evidence that exists is reused.
MatchFiling(r, f) ==
    /\ pc[r] = "match" /\ f \in unread[r]
    /\ unread' = [unread EXCEPT ![r] = @ \ {f}]
    /\ newEvidence' = [newEvidence EXCEPT ![r] =
          IF f \in Distress /\ ~HasEvidence(r, f) THEN @ \cup {f} ELSE @]
    /\ bundles' = [bundles EXCEPT ![r] = IF Bundled(r, f) THEN @ \cup {f} ELSE @]
    /\ UNCHANGED <<world, database, newRows, newAlerts, pc, mode, since, todo, failed, current,
                   bundle, history>>

\* Mutant of HasAlert: the bundle_key is not looked up.
NeverAlerted(r, f) == FALSE

\* get_alert_by_bundle_key
HasAlert(r, f) == alerts[f] > 0 \/ f \in newAlerts[r]

LookUpBundle(r, f) ==
    /\ pc[r] = "match" /\ unread[r] = {} /\ f \in bundles[r]
    /\ bundles' = [bundles EXCEPT ![r] = @ \ {f}]
    /\ IF HasAlert(r, f)
       THEN UNCHANGED <<pc, bundle>>
       ELSE /\ pc' = [pc EXCEPT ![r] = "review"]
            /\ bundle' = [bundle EXCEPT ![r] = f]
    /\ UNCHANGED <<world, database, session, mode, since, todo, failed, current, unread, history>>

Reviewed(r) ==
    /\ pc[r] = "review"
    /\ pc' = [pc EXCEPT ![r] = "match"]
    /\ bundle' = [bundle EXCEPT ![r] = None]
    /\ UNCHANGED <<world, watermark, mode, since, todo, failed, current, unread, bundles,
                   skipDays, faults>>

\* No router, a closed gate or a signal below the floor: no model is asked.
AlertWithoutModel(r) ==
    /\ Reviewed(r)
    /\ newAlerts' = [newAlerts EXCEPT ![r] = @ \cup {bundle[r]}]
    /\ NoWrites
    /\ UNCHANGED <<newRows, newEvidence>>

\* A model was asked, with or without success: its log row was committed, and
\* with it everything the session held.
AlertAfterModel(r) ==
    /\ Reviewed(r)
    /\ CommitRows(r)
    /\ newRows' = [newRows EXCEPT ![r] = {}]
    /\ newEvidence' = [newEvidence EXCEPT ![r] = {}]
    /\ newAlerts' = [newAlerts EXCEPT ![r] = {bundle[r]}]

\* The budget is exhausted: no alert, and no error either.
DeferBundle(r) ==
    /\ "defer" \in Faults
    /\ Reviewed(r)
    /\ NoWrites
    /\ UNCHANGED <<session>>

IssuerDone(r) ==
    /\ pc' = [pc EXCEPT ![r] = "issuers"]
    /\ todo' = [todo EXCEPT ![r] = @ \ {current'[r]}]
    /\ unread' = [unread EXCEPT ![r] = {}]
    /\ bundles' = [bundles EXCEPT ![r] = {}]
    /\ bundle' = [bundle EXCEPT ![r] = None]
    /\ Discard(r)

CommitIssuer(r) ==
    /\ pc[r] = "match" /\ unread[r] = {} /\ bundles[r] = {}
    /\ UNCHANGED current
    /\ IssuerDone(r)
    /\ CommitRows(r)
    /\ UNCHANGED <<world, watermark, mode, since, failed, history>>

\* Any exception while an issuer is processed: rollback and go on.
IssuerRaises(r, i) ==
    /\ \/ pc[r] = "issuers" /\ i \in todo[r]
       \/ pc[r] \in {"match", "review"} /\ i = current[r]
    /\ current' = [current EXCEPT ![r] = i]
    /\ IssuerDone(r)
    /\ failed' = [failed EXCEPT ![r] = @ \cup {i}]
    /\ NoWrites
    /\ UNCHANGED <<world, watermark, mode, since, skipDays>>

\* SEC, the model provider or the database failed.
IssuerFails(r, i) ==
    /\ "source" \in Faults /\ faults < MaxFaults
    /\ faults' = faults + 1
    /\ IssuerRaises(r, i)

\* The insert that waited for another runner's finds its accession number
\* taken; that it fails before the other commits changes nothing either sees.
InsertConflicts(r, i) ==
    /\ pc[r] = "issuers" /\ Contended(r, i)
    /\ IssuerRaises(r, i)
    /\ UNCHANGED faults

\* Mutant of NextWatermark: a run with errors moves it as well.
WatermarkAlways(r) == today

\* Only a run without errors moves the watermark, to the time it ends.
NextWatermark(r) == IF failed[r] = {} THEN today ELSE watermark

CompleteRun(r) ==
    /\ pc[r] = "issuers" /\ todo[r] = {}
    /\ pc' = [pc EXCEPT ![r] = "idle"]
    /\ watermark' = NextWatermark(r)
    /\ skipDays' = skipDays \cup (IF mode[r] = "baseline" THEN 1..today ELSE {today})
    /\ NoWrites
    /\ UNCHANGED <<world, session, mode, since, todo, failed, current, unread, bundles, bundle,
                   faults>>

\* The process ends: its transaction is rolled back, its run stays running.
Crash(r) ==
    /\ "crash" \in Faults /\ faults < MaxFaults
    /\ pc[r] # "idle"
    /\ faults' = faults + 1
    /\ pc' = [pc EXCEPT ![r] = "idle"]
    /\ todo' = [todo EXCEPT ![r] = {}]
    /\ unread' = [unread EXCEPT ![r] = {}]
    /\ bundles' = [bundles EXCEPT ![r] = {}]
    /\ bundle' = [bundle EXCEPT ![r] = None]
    /\ newRows' = [newRows EXCEPT ![r] = {}]
    /\ newEvidence' = [newEvidence EXCEPT ![r] = {}]
    /\ newAlerts' = [newAlerts EXCEPT ![r] = {}]
    /\ UNCHANGED <<world, database, mode, since, failed, current, skipDays>>

RunnerStep(r) ==
    \/ \E i \in Issuers : FetchFilings(r, i) \/ InsertConflicts(r, i)
    \/ \E f \in Filings : MatchFiling(r, f) \/ LookUpBundle(r, f)
    \/ AlertWithoutModel(r) \/ AlertAfterModel(r) \/ DeferBundle(r)
    \/ CommitIssuer(r)
    \/ CompleteRun(r)

Next ==
    \/ NextDay
    \/ \E f \in Filings : Publish(f)
    \/ \E r \in Runners :
          \/ \E m \in Modes : StartRun(r, m)
          \/ RunnerStep(r)
          \/ \E i \in Issuers : IssuerFails(r, i)
          \/ Crash(r)

Spec == Init /\ [][Next]_vars

\* A run that was started goes on, and a delta run is started again and again.
Fairness ==
    \A r \in Runners : WF_vars(RunnerStep(r)) /\ WF_vars(StartRun(r, "delta"))

FairSpec == Spec /\ Fairness

-----------------------------------------------------------------------------
TypeOK ==
    /\ today \in Nat
    /\ filedOn \in [Filings -> Nat \cup {None}]
    /\ rows \subseteq Filings
    /\ evidence \in [Filings -> Nat] /\ alerts \in [Filings -> Nat]
    /\ watermark \in Nat \cup {None}
    /\ pc \in [Runners -> {"idle", "issuers", "match", "review"}]
    /\ mode \in [Runners -> {"baseline", "delta", "backfill"}]
    /\ since \in [Runners -> Nat]
    /\ todo \in [Runners -> SUBSET Issuers] /\ failed \in [Runners -> SUBSET Issuers]
    /\ current \in [Runners -> Issuers \cup {None}]
    /\ unread \in [Runners -> SUBSET Filings] /\ bundles \in [Runners -> SUBSET Filings]
    /\ bundle \in [Runners -> Filings \cup {None}]
    /\ newRows \in [Runners -> SUBSET Filings]
    /\ newEvidence \in [Runners -> SUBSET Filings]
    /\ newAlerts \in [Runners -> SUBSET Filings]
    /\ skipDays \subseteq Nat
    /\ faults \in Nat

\* A filing that is stored has been matched: no failure, crash, early commit of
\* the router or second runner leaves one without its evidence, or with two
\* sets of it.
FilingsCarryEvidence ==
    \A f \in Filings : evidence[f] = IF f \in rows /\ f \in Distress THEN 1 ELSE 0

\* The reason: an inserted row keeps other runners away until it is committed,
\* and is committed only with the evidence of every filing fetched with it.
InsertsAreExclusive ==
    \A r \in Runners :
        /\ newRows[r] \cap rows = {}
        /\ \A q \in Runners \ {r} : newRows[r] \cap newRows[q] = {}

MatchingIsComplete ==
    \A r \in Runners :
        /\ newEvidence[r] \subseteq newRows[r] \cap Distress
        /\ newRows[r] \cap Distress \subseteq newEvidence[r] \cup unread[r]
        /\ unread[r] \subseteq rows \cup newRows[r]
        /\ pc[r] # "match" => unread[r] = {}
        /\ pc[r] = "review" => bundle[r] \in Filings
        /\ pc[r] \in {"idle", "issuers"} => newRows[r] = {} /\ newEvidence[r] = {}

EvidenceInv == TypeOK /\ FilingsCarryEvidence /\ InsertsAreExclusive /\ MatchingIsComplete

\* What the watermark has passed is stored, except on the days the module's
\* docstring gives up: those on which a run ended, and those before a baseline.
NothingSkipped ==
    \A f \in Filings :
        filedOn[f] # None /\ watermark # None =>
            \/ filedOn[f] > watermark
            \/ filedOn[f] \in skipDays
            \/ f \in rows

\* The reason, without runs at midnight and backfills: what a delta run has
\* behind it, that is all filings of earlier days up to the start of its window
\* and those of the issuers it is done with, is stored or given up.
GivenUp(f) == filedOn[f] \in skipDays \/ f \in rows

FiledBefore(f, day) == filedOn[f] # None /\ filedOn[f] <= day

WindowsCovered ==
    \A r \in Runners, f \in Filings :
        pc[r] # "idle" /\ mode[r] = "delta" /\ FiledBefore(f, today - 1) =>
            /\ filedOn[f] <= since[r] => GivenUp(f)
            /\ filedOn[f] > since[r] /\ IssuerOf[f] \notin todo[r] \cup failed[r] => f \in rows
            /\ /\ filedOn[f] > since[r] /\ IssuerOf[f] = current[r]
               /\ pc[r] \in {"match", "review"}
               => f \in rows \cup newRows[r]

DaysAgree ==
    /\ today >= 1
    /\ watermark # None => watermark <= today /\ watermark \in skipDays
    /\ \A f \in Filings : filedOn[f] # None => filedOn[f] \in 1..today
    /\ \A r \in Runners :
          pc[r] # "idle" => mode[r] \in {"baseline", "delta"} /\ since[r] <= today

WatermarkInv == NothingSkipped /\ WindowsCovered /\ DaysAgree

\* Evidence that has no alert yet is still in the window of the next run.
UnalertedStaysInWindow ==
    (\A r \in Runners : pc[r] = "idle") =>
        \A f \in Filings :
            evidence[f] > 0 /\ alerts[f] = 0 =>
                IF watermark = None THEN TRUE ELSE filedOn[f] > watermark

\* repositories/alert_repository.py:86: "one alert per evidence bundle, ever".
OneAlertPerBundle == \A f \in Filings : alerts[f] <= 1

\* Evidence gets its alert, although runs fail and crash.
EvidenceIsAlerted == \A f \in Filings : (evidence[f] > 0) ~> (alerts[f] > 0)
=============================================================================
