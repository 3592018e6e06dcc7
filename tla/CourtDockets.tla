---------------------------- MODULE CourtDockets ----------------------------
(***************************************************************************)
(* Court dockets (services/court_docket_service.py on top of               *)
(* providers/courtlistener): attempt_auto_link searches CourtListener for  *)
(* an issuer and links the one docket whose signals pass, sync_one_docket  *)
(* walks a docket's entries, matches them and raises alerts, and two       *)
(* scripts link curated dockets and sync all linked ones.  An entry is its *)
(* courtlistener_entry_id.  A transaction is what a runner inserted since  *)
(* its last commit; the router's log row commits it early.                 *)
(***************************************************************************)
EXTENDS Naturals, FiniteSets, FiniteSetsExt

CONSTANTS
    Issuers, Dockets,
    Entries,     \* CourtListener's ids of entries, numbers from 1
    DocketOf,    \* the docket of an entry
    NumberOf,    \* the place of an entry in the order of the court's numbers
    Described,   \* the entries whose description some rule matches
    Documents,   \* the RECAP documents of an entry
    Signals,     \* what an issuer's evidence and a search result agree in
    Curated,     \* the candidates of link_court_dockets
    PageSize,    \* entries on a page of the API
    MaxPages,    \* _MAX_ENTRY_PAGES
    Visitors,    \* processes that enrich issuers
    Syncers,     \* processes that run sync_court_dockets
    Faults,      \* source, crash, defer
    MaxFaults,   \* bound of the model: failures and crashes
    None

Runners == Visitors \cup Syncers

\* What evaluate_candidate compares: name, number, court, filing date, chapter.
SignalNames == {"name", "case_number", "court", "date", "case_type"}

\* is_sealed is unknown where the API leaves it out.
DocumentRecords ==
    [is_sealed: {"yes", "no", "unknown"}, distress: BOOLEAN]

Outcomes ==
    {"verified_docket_match", "checked_no_relevant_docket", "ambiguous_manual_review"}

AttemptRows ==
    [issuer: Issuers, outcome: Outcomes, docket: Dockets \cup {None}]

ASSUME DocketAssumption ==
    /\ Entries \subseteq Nat \ {0} /\ IsFiniteSet(Entries)
    /\ IsFiniteSet(Dockets) /\ DocketOf \in [Entries -> Dockets]
    /\ NumberOf \in [Entries -> Nat \ {0}]
    /\ Described \subseteq Entries
    /\ Documents \in [Entries -> SUBSET DocumentRecords]
    /\ Signals \in [Issuers \X Dockets -> SUBSET SignalNames]
    /\ Curated \subseteq Issuers \X Dockets
    /\ PageSize \in Nat \ {0} /\ MaxPages \in Nat \ {0} /\ MaxFaults \in Nat
    /\ None \notin Issuers \cup Dockets \cup Outcomes

VARIABLES
    published,          \* the entries CourtListener has
    link,               \* court_docket rows: the issuer_id of each docket
    entries,            \* court_docket_entry rows
    evidence,           \* research_evidence rows: how many sets of them an entry has
    alerts,             \* the entries with an alert_event row
    about,              \* whom the evidence of an entry is about: its issuer_id
    attempts,           \* court_docket_link_attempt rows
    pc, job,            \* a runner: where it is, and whether it links or syncs
    issuer, docket,     \* whom it links, what it syncs
    outcome,            \* what its search came to
    owner,              \* the issuer_id of the docket row it has loaded
    order, last, pages, \* its walk: sorted by what, up to where, pages so far
    batch, bundles,     \* the entries it got, the bundles left to alert
    newEntries, newEvidence, newAlerts,   \* its uncommitted writes
    walked,             \* history: dockets whose walk was committed to its end
    overlooked,         \* history: issuers of whom a search overlooked a docket on record,
                        \* or a look at the newest evidence all that is on file
    passedOver,         \* history: entries that were there when a first walk of their
                        \* docket ended, and not in it
    faults              \* history: failures so far

tables == <<link, entries, evidence, about, alerts, attempts>>
history == <<walked, overlooked, passedOver, faults>>
session == <<newEntries, newEvidence, newAlerts>>
walk == <<order, last, pages, batch, bundles>>
task == <<job, issuer, docket, outcome, owner>>
docketVars == <<published, tables, pc, task, walk, session, history>>

DocketInit ==
    /\ published = {}
    /\ link = [d \in Dockets |-> None]
    /\ entries = {}
    /\ evidence = [e \in Entries |-> 0]
    /\ about = [e \in Entries |-> None]
    /\ alerts = {}
    /\ attempts = {}
    /\ pc = [r \in Runners |-> "idle"]
    /\ job = [r \in Runners |-> "sync"]
    /\ issuer = [r \in Runners |-> None]
    /\ docket = [r \in Runners |-> None]
    /\ outcome = [r \in Runners |-> None]
    /\ owner = [r \in Runners |-> None]
    /\ order = [r \in Runners |-> "number"]
    /\ last = [r \in Runners |-> 0]
    /\ pages = [r \in Runners |-> 0]
    /\ batch = [r \in Runners |-> {}]
    /\ bundles = [r \in Runners |-> {}]
    /\ newEntries = [r \in Runners |-> {}]
    /\ newEvidence = [r \in Runners |-> {}]
    /\ newAlerts = [r \in Runners |-> {}]
    /\ walked = {} /\ overlooked = {} /\ passedOver = {} /\ faults = 0

-----------------------------------------------------------------------------
(* core/court_docket_matcher.py *)

StrongSignals(i, d) == Signals[i, d] \cap {"name", "case_number", "date"}

Passes(i, d) ==
    /\ "case_type" \in Signals[i, d]
    /\ "case_number" \in Signals[i, d] \/ Cardinality(StrongSignals(i, d)) >= 2

Passing(i, found) == {d \in found : Passes(i, d)}

\* select_best_match: only a candidate that is alone in passing is a match.
MatchOutcome(i, found) ==
    CASE Passing(i, found) = {} -> "checked_no_relevant_docket"
      [] Cardinality(Passing(i, found)) > 1 -> "ambiguous_manual_review"
      [] OTHER -> "verified_docket_match"

-----------------------------------------------------------------------------
(* What an entry says. *)

IsSealedOrUnknown(doc) == doc.is_sealed # "no"

\* The match text is the description and the text of what is not sealed.
Matching(e) ==
    e \in Described \/ \E doc \in Documents[e] : doc.distress /\ ~IsSealedOrUnknown(doc)

-----------------------------------------------------------------------------
(* Transactions of a runner. *)

Plus(counts, set) == [e \in Entries |-> IF e \in set THEN counts[e] + 1 ELSE counts[e]]

\* COMMIT of what r has flushed.
CommitRows(r) ==
    /\ entries' = entries \cup newEntries[r]
    /\ evidence' = Plus(evidence, newEvidence[r])
    /\ about' = [e \in Entries |-> IF e \in newEvidence[r] THEN owner[r] ELSE about[e]]
    /\ alerts' = alerts \cup newAlerts[r]

\* ROLLBACK, and the empty session after a COMMIT.
Discard(r) ==
    /\ newEntries' = [newEntries EXCEPT ![r] = {}]
    /\ newEvidence' = [newEvidence EXCEPT ![r] = {}]
    /\ newAlerts' = [newAlerts EXCEPT ![r] = {}]

NoWrites == UNCHANGED <<entries, evidence, about, alerts>>

Goto(r, place) == pc' = [pc EXCEPT ![r] = place]

\* The locals of sync_one_docket go out of scope.
EndWalk(r) ==
    /\ order' = [order EXCEPT ![r] = "number"]
    /\ last' = [last EXCEPT ![r] = 0]
    /\ pages' = [pages EXCEPT ![r] = 0]
    /\ batch' = [batch EXCEPT ![r] = {}]
    /\ bundles' = [bundles EXCEPT ![r] = {}]

\* And those of a runner that is idle again.
EndTask(r) ==
    /\ job' = [job EXCEPT ![r] = "sync"]
    /\ issuer' = [issuer EXCEPT ![r] = None]
    /\ docket' = [docket EXCEPT ![r] = None]
    /\ outcome' = [outcome EXCEPT ![r] = None]
    /\ owner' = [owner EXCEPT ![r] = None]

-----------------------------------------------------------------------------
(* The source. *)

\* CourtListener's ids grow, whatever number the court gave the entry.
Publish(e) ==
    /\ \A f \in published : f < e
    /\ published' = published \cup {e}
    /\ UNCHANGED <<tables, pc, task, walk, session, history>>

-----------------------------------------------------------------------------
(* Linking. *)

\* Mutant of Linked: a row that exists is given to the issuer.
Relinked(i, d) == [link EXCEPT ![d] = i]

\* get-or-create by courtlistener_docket_id: a row that exists keeps its issuer.
Linked(i, d) == [link EXCEPT ![d] = IF @ = None THEN i ELSE @]

\* link_court_dockets: the expected docket is among the search results.
LinkCurated(i, d) ==
    /\ <<i, d>> \in Curated
    /\ link' = Linked(i, d)
    /\ UNCHANGED <<published, entries, evidence, about, alerts, attempts, pc, task, walk, session, history>>

StartAutoLink(r, i) ==
    /\ r \in Visitors /\ pc[r] = "idle"
    /\ Goto(r, "search")
    /\ job' = [job EXCEPT ![r] = "link"]
    /\ issuer' = [issuer EXCEPT ![r] = i]
    /\ UNCHANGED <<published, tables, docket, outcome, owner, walk, session, history>>

\* A search of i that found only these; history.
Overlook(i, found) ==
    overlooked' = IF \E d \in Dockets \ found : link[d] # None /\ Passes(i, d)
                  THEN overlooked \cup {i} ELSE overlooked

\* What is compared is the latest relevant one of the newest fifty rows of evidence:
\* a docket that has passed need not pass again.  The link is committed before the
\* first sync; the row brings its issuer.
Search(r) ==
    LET i == issuer[r] IN
    /\ pc[r] = "search"
    /\ \E found \in SUBSET Dockets :
          /\ Overlook(i, found)
          /\ outcome' = [outcome EXCEPT ![r] = MatchOutcome(i, found)]
          /\ \/ /\ MatchOutcome(i, found) = "verified_docket_match"
                /\ \E d \in Passing(i, found) :
                      /\ docket' = [docket EXCEPT ![r] = d]
                      /\ link' = Linked(i, d)
                      /\ owner' = [owner EXCEPT ![r] = link'[d]]
                /\ Goto(r, "sync")
             \/ /\ MatchOutcome(i, found) # "verified_docket_match"
                /\ Goto(r, "record")
                /\ UNCHANGED <<docket, link, owner>>
    /\ UNCHANGED <<published, entries, evidence, about, alerts, attempts, job, issuer, walk, session,
                   walked, passedOver, faults>>

\* create_attempt: written and committed after the sync.
RecordAttempt(r) ==
    /\ pc[r] = "record"
    /\ attempts' = attempts \cup
          {[issuer |-> issuer[r], outcome |-> outcome[r], docket |-> docket[r]]}
    /\ Goto(r, "done")
    /\ UNCHANGED <<published, link, entries, evidence, about, alerts, task, walk, session, history>>

\* The caller's own look at the newest fifty shows none and it does not call.
OverlookEvidence(i) ==
    /\ overlooked' = overlooked \cup {i}
    /\ UNCHANGED <<published, tables, pc, task, walk, session, walked, passedOver, faults>>

-----------------------------------------------------------------------------
(* Syncing. *)

\* sync_court_dockets takes the linked dockets in turn.
StartSync(r, d) ==
    /\ r \in Syncers /\ pc[r] = "idle" /\ link[d] # None
    /\ Goto(r, "sync")
    /\ job' = [job EXCEPT ![r] = "sync"]
    /\ docket' = [docket EXCEPT ![r] = d]
    /\ owner' = [owner EXCEPT ![r] = link[d]]
    /\ UNCHANGED <<published, tables, issuer, outcome, walk, session, history>>

RowsOf(d) == {e \in entries : DocketOf[e] = d}

\* get_max_courtlistener_entry_id, 0 for none.
Cursor(d) == IF RowsOf(d) = {} THEN 0 ELSE Max(RowsOf(d))

\* The first sync walks all pages by number, a later one the ids after the cursor.
BeginWalk(r) ==
    /\ pc[r] = "sync"
    /\ Goto(r, "page")
    /\ order' = [order EXCEPT ![r] = IF RowsOf(docket[r]) = {} THEN "number" ELSE "id"]
    /\ last' = [last EXCEPT ![r] = Cursor(docket[r])]
    /\ pages' = [pages EXCEPT ![r] = 0]
    /\ batch' = [batch EXCEPT ![r] = {}]
    /\ bundles' = [bundles EXCEPT ![r] = {}]
    /\ UNCHANGED <<published, tables, task, session, history>>

Place(r, e) == IF order[r] = "number" THEN NumberOf[e] ELSE e

Ahead(r) == {e \in published : DocketOf[e] = docket[r] /\ Place(r, e) > last[r]}

\* Mutant of Page: the newest come first.
NewestPage(r) ==
    {e \in Ahead(r) : Cardinality({f \in Ahead(r) : Place(r, f) > Place(r, e)}) < PageSize}

\* The next page of the API's cursor.
Page(r) == {e \in Ahead(r) : Cardinality({f \in Ahead(r) : Place(r, f) < Place(r, e)}) < PageSize}

\* An insert of an entry id that another open transaction holds waits for it.
Contended(r) == \E q \in Runners \ {r} : newEntries[q] \cap Page(r) # {}

\* The walk ends with this page: the API has no further one, or the cap is met.
LastPage(r) == Page(r) = Ahead(r) \/ pages[r] + 1 = MaxPages

Seen(r) == batch[r] \cup Page(r)

\* The court's numbers need not grow with the ids: what a first walk leaves out may
\* be of any id; history.
LeftOut(r) ==
    IF order[r] = "number" /\ LastPage(r)
    THEN {e \in published : DocketOf[e] = docket[r]} \ Seen(r) ELSE {}

FetchPage(r) ==
    /\ pc[r] = "page" /\ ~Contended(r)
    /\ newEntries' = [newEntries EXCEPT ![r] = @ \cup (Page(r) \ entries)]
    /\ batch' = [batch EXCEPT ![r] = Seen(r)]
    /\ last' = [last EXCEPT ![r] = Max({@} \cup {Place(r, e) : e \in Page(r)})]
    /\ pages' = [pages EXCEPT ![r] = @ + 1]
    /\ Goto(r, IF LastPage(r) THEN "match" ELSE "page")
    /\ passedOver' = passedOver \cup LeftOut(r)
    /\ UNCHANGED <<published, tables, task, order, bundles, newEvidence, newAlerts, walked, overlooked, faults>>

HasEvidence(e) == evidence[e] > 0

\* Mutant of Unmatched: the rules are run on every entry of the walk.
Rematched(r) == {e \in batch[r] : Matching(e)}

\* _process_one_entry: rules run on entries without evidence.
Unmatched(r) == {e \in batch[r] : Matching(e) /\ ~HasEvidence(e)}

MatchBatch(r) ==
    /\ pc[r] = "match"
    /\ newEvidence' = [newEvidence EXCEPT ![r] = Unmatched(r)]
    /\ bundles' = [bundles EXCEPT ![r] = Unmatched(r) \cup {e \in batch[r] : HasEvidence(e)}]
    /\ Goto(r, "alert")
    /\ UNCHANGED <<published, tables, task, order, last, pages, batch, newEntries, newAlerts, history>>

\* The bundle is looked up by its key and taken off the list.
TakeBundle(r, e) ==
    /\ pc[r] = "alert" /\ e \in bundles[r]
    /\ bundles' = [bundles EXCEPT ![r] = @ \ {e}]
    /\ UNCHANGED <<published, link, attempts, pc, task, order, last, pages, batch, history>>

SkipBundle(r, e) ==
    /\ TakeBundle(r, e)
    /\ e \in alerts
    /\ NoWrites
    /\ UNCHANGED session

\* No router, or nothing a model has to be asked.
AlertWithoutModel(r, e) ==
    /\ TakeBundle(r, e)
    /\ e \notin alerts
    /\ newAlerts' = [newAlerts EXCEPT ![r] = @ \cup {e}]
    /\ NoWrites
    /\ UNCHANGED <<newEntries, newEvidence>>

\* The log row of the call is committed, and all that the session held with it.
AlertAfterModel(r, e) ==
    /\ TakeBundle(r, e)
    /\ e \notin alerts
    /\ CommitRows(r)
    /\ newEntries' = [newEntries EXCEPT ![r] = {}]
    /\ newEvidence' = [newEvidence EXCEPT ![r] = {}]
    /\ newAlerts' = [newAlerts EXCEPT ![r] = {e}]

\* The budget is used up: no alert, and no error either.
DeferBundle(r, e) ==
    /\ "defer" \in Faults
    /\ TakeBundle(r, e)
    /\ e \notin alerts
    /\ NoWrites
    /\ UNCHANGED session

CommitSync(r) ==
    /\ pc[r] = "alert" /\ bundles[r] = {}
    /\ CommitRows(r)
    /\ Discard(r)
    /\ EndWalk(r)
    /\ \/ job[r] = "link" /\ Goto(r, "record") /\ UNCHANGED task
       \/ job[r] = "sync" /\ Goto(r, "idle") /\ EndTask(r)
    /\ walked' = walked \cup {docket[r]}
    /\ UNCHANGED <<published, link, attempts, overlooked, passedOver, faults>>

-----------------------------------------------------------------------------
(* Failures. *)

Busy(r) == pc[r] \in {"search", "sync", "page", "match", "alert", "record"}

\* The exception reaches the loop over dockets, or the orchestrator.
Raise(r) ==
    /\ Discard(r)
    /\ EndWalk(r)
    /\ EndTask(r)
    /\ Goto(r, IF job[r] = "link" THEN "raised" ELSE "idle")
    /\ UNCHANGED <<published, tables>>

\* CourtListener, the model provider or the database fails.
SourceFails(r) ==
    /\ "source" \in Faults /\ faults < MaxFaults
    /\ Busy(r)
    /\ Raise(r)
    /\ faults' = faults + 1
    /\ UNCHANGED <<walked, overlooked, passedOver>>

\* The insert that waited for another runner's finds its id taken.
InsertConflicts(r) ==
    /\ pc[r] = "page" /\ Contended(r)
    /\ Raise(r)
    /\ UNCHANGED history

\* None of the newest fifty rows of evidence is relevant any more: ValueError.
EvidenceGone(r) ==
    /\ pc[r] = "search"
    /\ Raise(r)
    /\ UNCHANGED history

\* The process ends; its transaction is rolled back.
Crash(r) ==
    /\ "crash" \in Faults /\ faults < MaxFaults
    /\ pc[r] # "idle"
    /\ Discard(r)
    /\ EndWalk(r)
    /\ EndTask(r)
    /\ Goto(r, "idle")
    /\ faults' = faults + 1
    /\ UNCHANGED <<published, tables, walked, overlooked, passedOver>>

\* The caller takes over from what attempt_auto_link returned or raised.
Return(r) ==
    /\ pc[r] \in {"done", "raised"}
    /\ Goto(r, "idle")
    /\ EndTask(r)
    /\ UNCHANGED <<published, tables, walk, session, history>>

\* What a runner does on its own once it was started.
DocketStep(r) ==
    \/ Search(r) \/ EvidenceGone(r)
    \/ BeginWalk(r) \/ FetchPage(r) \/ InsertConflicts(r) \/ MatchBatch(r)
    \/ \E e \in Entries :
          SkipBundle(r, e) \/ AlertWithoutModel(r, e) \/ AlertAfterModel(r, e) \/ DeferBundle(r, e)
    \/ CommitSync(r) \/ RecordAttempt(r)

DocketNext ==
    \/ \E e \in Entries : Publish(e)
    \/ \E i \in Issuers, d \in Dockets : LinkCurated(i, d)
    \/ \E i \in Issuers : OverlookEvidence(i)
    \/ \E r \in Runners :
          \/ \E i \in Issuers : StartAutoLink(r, i)
          \/ \E d \in Dockets : StartSync(r, d)
          \/ DocketStep(r)
          \/ SourceFails(r) \/ Crash(r) \/ Return(r)

DocketSpec == DocketInit /\ [][DocketNext]_docketVars

-----------------------------------------------------------------------------
(* Properties. *)

DocketTypeOK ==
    /\ published \subseteq Entries
    /\ link \in [Dockets -> Issuers \cup {None}] /\ walked \subseteq Dockets
    /\ entries \subseteq Entries
    /\ evidence \in [Entries -> Nat] /\ alerts \subseteq Entries
    /\ pc \in [Runners -> {"idle", "search", "sync", "page", "match", "alert",
                           "record", "done", "raised"}]
    /\ job \in [Runners -> {"link", "sync"}]
    /\ issuer \in [Runners -> Issuers \cup {None}]
    /\ docket \in [Runners -> Dockets \cup {None}]
    /\ outcome \in [Runners -> Outcomes \cup {None}] /\ attempts \subseteq AttemptRows
    /\ owner \in [Runners -> Issuers \cup {None}] /\ about \in [Entries -> Issuers \cup {None}]
    /\ order \in [Runners -> {"number", "id"}]
    /\ batch \in [Runners -> SUBSET Entries] /\ bundles \in [Runners -> SUBSET Entries]
    /\ newEntries \in [Runners -> SUBSET Entries]
    /\ newEvidence \in [Runners -> SUBSET Entries]
    /\ newAlerts \in [Runners -> SUBSET Entries]

\* An entry that is stored has been matched, once: no failed page, early commit
\* of the router, crash or second runner leaves a row without the evidence its
\* text calls for, and none has two sets of it.
EntriesCarryEvidence ==
    \A e \in Entries : evidence[e] = IF e \in entries /\ Matching(e) THEN 1 ELSE 0

\* The reason: rows wait for the end of the walk, and no runner takes another's.
InsertsAreExclusive ==
    \A r \in Runners :
        /\ newEntries[r] \cap entries = {}
        /\ \A q \in Runners \ {r} : newEntries[r] \cap newEntries[q] = {}

MatchingIsComplete ==
    \A r \in Runners :
        /\ newEntries[r] \subseteq batch[r]
        /\ batch[r] \subseteq entries \cup newEntries[r] \/ newEntries[r] = {}
        /\ newEvidence[r] \subseteq newEntries[r]
        /\ \A e \in newEvidence[r] : Matching(e)
        /\ pc[r] \in {"page", "match"} =>
              newEvidence[r] = {} /\ batch[r] \subseteq entries \cup newEntries[r]
        /\ pc[r] = "alert" => \A e \in newEntries[r] : Matching(e) => e \in newEvidence[r]
        /\ pc[r] \notin {"page", "match", "alert"} => newEntries[r] = {} /\ newEvidence[r] = {}

DocketInv ==
    DocketTypeOK /\ EntriesCarryEvidence /\ InsertsAreExclusive /\ MatchingIsComplete

\* The bar of ADR-020 as the matcher's docstring states it.
StrongMatch(i, d) ==
    /\ "case_type" \in Signals[i, d]
    /\ \/ "case_number" \in Signals[i, d]
       \/ \E s, t \in {"name", "date"} : s # t /\ {s, t} \subseteq Signals[i, d]

\* A docket belongs to an issuer because its signals are strong or a person chose
\* it.  It never changes hands, whoever else finds it or is syncing it: all evidence
\* of a docket, as the runner that committed it took its issuer from the row it had
\* loaded, is about the issuer that the docket belongs to now.  And a verified
\* attempt, the last of a visit's commits, is on record only for a docket whose walk
\* was committed to its end before.
LinksAreJustified ==
    /\ \A d \in Dockets, i \in Issuers :
          link[d] = i => <<i, d>> \in Curated \/ StrongMatch(i, d)
    /\ \A e \in Entries :
          evidence[e] > 0 => about[e] # None /\ about[e] = link[DocketOf[e]]
    /\ \A a \in attempts :
          IF a.outcome = "verified_docket_match"
          THEN a.docket \in walked /\ link[a.docket] # None /\ StrongMatch(a.issuer, a.docket)
          ELSE a.docket = None

\* What is missing below the highest id stored for a docket, and so is never asked
\* for again, was there and left out when a first walk ended, by the cap or by a
\* number the walk had passed; later walks, the early commits of the router, two
\* runners on one docket and walks that fail in the middle leave no gap.
NoGapBelowCursor ==
    \A e \in published : e < Cursor(DocketOf[e]) => e \in entries \cup passedOver
=============================================================================
