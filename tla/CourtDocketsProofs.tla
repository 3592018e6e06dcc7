-------------------------- MODULE CourtDocketsProofs --------------------------
(* Court dockets for any number of visitors, syncers, dockets and entries, with *)
(* any failures: an entry carries its evidence once (DocketInv), and a link or  *)
(* a verified attempt has its reason (LinksAreJustified).  Then the             *)
(* orchestrator over them: every visit behaves as the dockets may               *)
(* (VisitsImplementDockets), and the status it leaves for CourtListener is      *)
(* backed by the tables (StatusIsBacked).  Last the cursor of a docket, below   *)
(* which nothing is missing that no first walk left out (NothingMissed).        *)
EXTENDS Enrichment, FiniteSetTheorems, FunctionTheorems, WellFoundedInduction, TLAPS

\* What a runner that links has found.
Matched(r) ==
    /\ issuer[r] \in Issuers /\ docket[r] \in Dockets
    /\ outcome[r] = "verified_docket_match"
    /\ link[docket[r]] # None /\ StrongMatch(issuer[r], docket[r])

\* The row of the docket it syncs, as it was when it was loaded and still is.
Loaded(r) == docket[r] \in Dockets /\ owner[r] # None /\ owner[r] = link[docket[r]]

\* What it knows at each place: a walk is over a docket whose row is loaded, for a
\* link that of a match, and an attempt is recorded as it came out.
TasksInHand ==
    \A r \in Runners :
        /\ pc[r] = "idle" => docket[r] = None
        /\ pc[r] = "search" => job[r] = "link" /\ issuer[r] \in Issuers /\ docket[r] = None
        /\ pc[r] \in {"sync", "page", "match", "alert"} => Loaded(r) /\ (job[r] = "link" => Matched(r))
        /\ pc[r] \in {"page", "match", "alert"} => \A e \in batch[r] : DocketOf[e] = docket[r]
        /\ pc[r] = "record" =>
              /\ issuer[r] \in Issuers /\ outcome[r] \in Outcomes
              /\ IF outcome[r] = "verified_docket_match" THEN Matched(r) /\ docket[r] \in walked
                 ELSE docket[r] = None

LinkInv == TasksInHand /\ LinksAreJustified

-----------------------------------------------------------------------------
(* Helpers. *)

\* One strong signal next to the case type is not enough, two are.
LEMMA PassesIsStrong ==
    ASSUME NEW i \in Issuers, NEW d \in Dockets, Passes(i, d)
    PROVE  StrongMatch(i, d)
<1>1. "case_type" \in Signals[i, d]  BY DEF Passes
<1>2. CASE "case_number" \in Signals[i, d]
  BY <1>1, <1>2 DEF StrongMatch
<1>3. CASE "case_number" \notin Signals[i, d]
  <2>1. Cardinality(StrongSignals(i, d)) >= 2  BY <1>3 DEF Passes
  <2>2. ASSUME NEW s, StrongSignals(i, d) \subseteq {s} PROVE FALSE
    <3>1. IsFiniteSet({s}) /\ Cardinality({s}) = 1  BY FS_Singleton
    <3>2. Cardinality(StrongSignals(i, d)) <= 1 /\ Cardinality(StrongSignals(i, d)) \in Nat
      BY <2>2, <3>1, FS_Subset, FS_CardinalityType
    <3> QED  BY <2>1, <3>2
  <2>3. StrongSignals(i, d) \subseteq {"name", "date"}  BY <1>3 DEF StrongSignals
  <2>4. "name" \in Signals[i, d] /\ "date" \in Signals[i, d]
    BY <2>2, <2>3 DEF StrongSignals
  <2> QED  BY <1>1, <2>4 DEF StrongMatch
<1> QED  BY <1>2, <1>3

LEMMA PageIsPublished ==
    ASSUME DocketTypeOK, NEW r \in Runners
    PROVE  Page(r) \subseteq Entries
BY DEF DocketTypeOK, Page, Ahead

\* A commit at the end of the matching keeps evidence in step with the entries.
LEMMA CommitKeepsStep ==
    ASSUME DocketInv, NEW r \in Runners, pc[r] = "alert", CommitRows(r)
    PROVE  /\ entries' = entries \cup newEntries[r] /\ entries' \subseteq Entries
           /\ evidence' \in [Entries -> Nat] /\ alerts' \subseteq Entries
           /\ about' \in [Entries -> Issuers \cup {None}] /\ EntriesCarryEvidence'
<1> USE DEF DocketInv, DocketTypeOK
<1>1. /\ entries' = entries \cup newEntries[r]
      /\ evidence' = [e \in Entries |-> IF e \in newEvidence[r] THEN evidence[e] + 1 ELSE evidence[e]]
      /\ alerts' = alerts \cup newAlerts[r]
      /\ about' = [e \in Entries |-> IF e \in newEvidence[r] THEN owner[r] ELSE about[e]]
  BY DEF CommitRows, Plus
<1>2. /\ entries' \subseteq Entries /\ evidence' \in [Entries -> Nat] /\ alerts' \subseteq Entries
      /\ about' \in [Entries -> Issuers \cup {None}]
  BY <1>1
<1>3. newEntries[r] \cap entries = {}  BY DEF InsertsAreExclusive
<1>4. /\ newEvidence[r] \subseteq newEntries[r]
      /\ \A e \in newEvidence[r] : Matching(e)
      /\ \A e \in newEntries[r] : Matching(e) => e \in newEvidence[r]
  BY DEF MatchingIsComplete
<1>5. ASSUME NEW e \in Entries
      PROVE  evidence'[e] = IF e \in entries' /\ Matching(e)' THEN 1 ELSE 0
  <2>1. Matching(e)' = Matching(e)  BY DEF Matching, IsSealedOrUnknown
  <2>2. evidence[e] = IF e \in entries /\ Matching(e) THEN 1 ELSE 0  BY DEF EntriesCarryEvidence
  <2>3. CASE e \in newEvidence[r]
    BY <1>1, <1>3, <1>4, <2>1, <2>2, <2>3
  <2>4. CASE e \notin newEvidence[r]
    BY <1>1, <1>3, <1>4, <2>1, <2>2, <2>4
  <2> QED  BY <2>3, <2>4
<1> QED  BY <1>1, <1>2, <1>5 DEF EntriesCarryEvidence

\* A search by what it found.
Links(r, d) ==
    /\ docket' = [docket EXCEPT ![r] = d]
    /\ link' = Linked(issuer[r], d)
    /\ owner' = [owner EXCEPT ![r] = link'[d]]

Finds(r, found) ==
    LET i == issuer[r] IN
    /\ pc[r] = "search" /\ Overlook(i, found)
    /\ outcome' = [outcome EXCEPT ![r] = MatchOutcome(i, found)]
    /\ \/ /\ MatchOutcome(i, found) = "verified_docket_match" /\ Goto(r, "sync")
          /\ \E d \in Passing(i, found) : Links(r, d)
       \/ /\ MatchOutcome(i, found) # "verified_docket_match" /\ Goto(r, "record")
          /\ UNCHANGED <<docket, link, owner>>
    /\ UNCHANGED <<published, entries, evidence, about, alerts, attempts, job, issuer, walk, session,
                   walked, passedOver, faults>>

LEMMA SearchFinds ==
    ASSUME NEW r \in Runners, Search(r)
    PROVE  \E found \in SUBSET Dockets : Finds(r, found)
BY DEF Search, Finds, Links

-----------------------------------------------------------------------------
(* Types. *)

LEMMA InitTypeOK == DocketInit => DocketTypeOK
BY DEF DocketInit, DocketTypeOK

LEMMA TypeStep == DocketInv /\ LinkInv /\ [DocketNext]_docketVars => DocketTypeOK'
<1> SUFFICES ASSUME DocketInv, LinkInv, [DocketNext]_docketVars PROVE DocketTypeOK'
  OBVIOUS
<1>0. DocketTypeOK  BY DEF DocketInv
<1> USE DEF Goto, tables, session, walk, task, history, NoWrites
<1>1. ASSUME NEW e \in Entries, Publish(e) PROVE DocketTypeOK'
  BY <1>0, <1>1 DEF Publish, DocketTypeOK
<1>2. ASSUME NEW i \in Issuers, OverlookEvidence(i) PROVE DocketTypeOK'
  BY <1>0, <1>2 DEF OverlookEvidence, DocketTypeOK
<1>3. ASSUME NEW i \in Issuers, NEW d \in Dockets, LinkCurated(i, d) PROVE DocketTypeOK'
  BY <1>0, <1>3 DEF LinkCurated, Linked, DocketTypeOK
<1>4. ASSUME NEW r \in Runners, NEW i \in Issuers, StartAutoLink(r, i) PROVE DocketTypeOK'
  BY <1>0, <1>4 DEF StartAutoLink, DocketTypeOK
<1>5. ASSUME NEW r \in Runners, NEW d \in Dockets, StartSync(r, d) PROVE DocketTypeOK'
  BY <1>0, <1>5 DEF StartSync, DocketTypeOK
<1>6. ASSUME NEW r \in Runners, Search(r) PROVE DocketTypeOK'
  <2>1. issuer[r] \in Issuers  BY <1>6 DEF Search, LinkInv, TasksInHand
  <2> HIDE DEF Goto
  <2>2. PICK found \in SUBSET Dockets : Finds(r, found)  BY <1>6, SearchFinds
  <2>3. MatchOutcome(issuer[r], found) \in Outcomes  BY DEF MatchOutcome, Outcomes
  <2>4. /\ outcome' = [outcome EXCEPT ![r] = MatchOutcome(issuer[r], found)]
        /\ pc' \in [Runners -> {"idle", "search", "sync", "page", "match", "alert",
                           "record", "done", "raised"}]
    BY <1>0, <2>2 DEF Finds, Goto, DocketTypeOK
  <2>5. /\ link' \in [Dockets -> Issuers \cup {None}] /\ docket' \in [Runners -> Dockets \cup {None}]
        /\ owner' \in [Runners -> Issuers \cup {None}]
    <3>1. CASE UNCHANGED <<docket, link, owner>>
      BY <1>0, <3>1 DEF DocketTypeOK
    <3>2. ASSUME NEW d \in Passing(issuer[r], found), Links(r, d)
          PROVE  /\ link' \in [Dockets -> Issuers \cup {None}] /\ docket' \in [Runners -> Dockets \cup {None}]
                 /\ owner' \in [Runners -> Issuers \cup {None}]
      <4>1. d \in Dockets  BY <2>2 DEF Passing
      <4>2. link' \in [Dockets -> Issuers \cup {None}]
        BY <1>0, <2>1, <3>2, <4>1 DEF Links, Linked, DocketTypeOK
      <4> QED  BY <1>0, <3>2, <4>1, <4>2 DEF Links, DocketTypeOK
    <3> QED  BY <2>2, <3>1, <3>2 DEF Finds
  <2>6. UNCHANGED <<published, entries, evidence, about, alerts, attempts, job, issuer, walk, session, walked>>
    BY <2>2 DEF Finds
  <2> QED  BY <1>0, <2>3, <2>4, <2>5, <2>6 DEF DocketTypeOK
<1>7. ASSUME NEW r \in Runners, BeginWalk(r) PROVE DocketTypeOK'
  BY <1>0, <1>7 DEF BeginWalk, DocketTypeOK
<1>8. ASSUME NEW r \in Runners, FetchPage(r) PROVE DocketTypeOK'
  <2>1. Page(r) \subseteq Entries  BY <1>0, PageIsPublished
  <2> QED  BY <1>0, <1>8, <2>1 DEF FetchPage, Seen, DocketTypeOK
<1>9. ASSUME NEW r \in Runners, MatchBatch(r) PROVE DocketTypeOK'
  BY <1>0, <1>9 DEF MatchBatch, Unmatched, DocketTypeOK
<1>10. ASSUME NEW r \in Runners, NEW e \in Entries, SkipBundle(r, e) PROVE DocketTypeOK'
  BY <1>0, <1>10 DEF SkipBundle, TakeBundle, DocketTypeOK
<1>11. ASSUME NEW r \in Runners, NEW e \in Entries, AlertWithoutModel(r, e) PROVE DocketTypeOK'
  BY <1>0, <1>11 DEF AlertWithoutModel, TakeBundle, DocketTypeOK
<1>12. ASSUME NEW r \in Runners, NEW e \in Entries, AlertAfterModel(r, e) PROVE DocketTypeOK'
  <2>1. pc[r] = "alert" /\ CommitRows(r)  BY <1>12 DEF AlertAfterModel, TakeBundle
  <2>2. /\ entries' \subseteq Entries /\ evidence' \in [Entries -> Nat] /\ alerts' \subseteq Entries
        /\ about' \in [Entries -> Issuers \cup {None}]
    BY <2>1, CommitKeepsStep
  <2> QED  BY <1>0, <1>12, <2>2 DEF AlertAfterModel, TakeBundle, DocketTypeOK
<1>13. ASSUME NEW r \in Runners, NEW e \in Entries, DeferBundle(r, e) PROVE DocketTypeOK'
  BY <1>0, <1>13 DEF DeferBundle, TakeBundle, DocketTypeOK
<1>14. ASSUME NEW r \in Runners, CommitSync(r) PROVE DocketTypeOK'
  <2>1. pc[r] = "alert" /\ CommitRows(r)  BY <1>14 DEF CommitSync
  <2>2. /\ entries' \subseteq Entries /\ evidence' \in [Entries -> Nat] /\ alerts' \subseteq Entries
        /\ about' \in [Entries -> Issuers \cup {None}]
    BY <2>1, CommitKeepsStep
  <2>3. /\ pc' \in [Runners -> {"idle", "search", "sync", "page", "match", "alert",
                           "record", "done", "raised"}]
        /\ job' \in [Runners -> {"link", "sync"}] /\ issuer' \in [Runners -> Issuers \cup {None}]
        /\ docket' \in [Runners -> Dockets \cup {None}] /\ outcome' \in [Runners -> Outcomes \cup {None}]
        /\ owner' \in [Runners -> Issuers \cup {None}]
    BY <1>0, <1>14 DEF CommitSync, EndTask, DocketTypeOK
  <2>4. /\ order' \in [Runners -> {"number", "id"}]
        /\ batch' \in [Runners -> SUBSET Entries] /\ bundles' \in [Runners -> SUBSET Entries]
        /\ newEntries' \in [Runners -> SUBSET Entries]
        /\ newEvidence' \in [Runners -> SUBSET Entries]
        /\ newAlerts' \in [Runners -> SUBSET Entries]
    BY <1>0, <1>14 DEF CommitSync, Discard, EndWalk, DocketTypeOK
  <2>5. UNCHANGED <<published, link, attempts>>  BY <1>14 DEF CommitSync
  <2>6. walked' \subseteq Dockets
    BY <1>0, <1>14, <2>1 DEF CommitSync, LinkInv, TasksInHand, Loaded, DocketTypeOK
  <2> QED  BY <1>0, <2>2, <2>3, <2>4, <2>5, <2>6 DEF DocketTypeOK
<1>15. ASSUME NEW r \in Runners, RecordAttempt(r) PROVE DocketTypeOK'
  <2>1. /\ issuer[r] \in Issuers /\ outcome[r] \in Outcomes /\ docket[r] \in Dockets \cup {None}
    BY <1>0, <1>15 DEF RecordAttempt, LinkInv, TasksInHand, DocketTypeOK
  <2> QED  BY <1>0, <1>15, <2>1 DEF RecordAttempt, AttemptRows, DocketTypeOK
<1>16. ASSUME NEW r \in Runners, SourceFails(r) PROVE DocketTypeOK'
  BY <1>0, <1>16 DEF SourceFails, Raise, Discard, EndWalk, EndTask, DocketTypeOK
<1>17. ASSUME NEW r \in Runners, InsertConflicts(r) PROVE DocketTypeOK'
  BY <1>0, <1>17 DEF InsertConflicts, Raise, Discard, EndWalk, EndTask, DocketTypeOK
<1>21. ASSUME NEW r \in Runners, EvidenceGone(r) PROVE DocketTypeOK'
  BY <1>0, <1>21 DEF EvidenceGone, Raise, Discard, EndWalk, EndTask, DocketTypeOK
<1>18. ASSUME NEW r \in Runners, Crash(r) PROVE DocketTypeOK'
  BY <1>0, <1>18 DEF Crash, Discard, EndWalk, EndTask, DocketTypeOK
<1>19. ASSUME NEW r \in Runners, Return(r) PROVE DocketTypeOK'
  BY <1>0, <1>19 DEF Return, EndTask, DocketTypeOK
<1>20. CASE UNCHANGED docketVars
  BY <1>0, <1>20 DEF docketVars, DocketTypeOK
<1> QED
  BY <1>1, <1>2, <1>3, <1>4, <1>5, <1>6, <1>7, <1>8, <1>9, <1>10, <1>11, <1>12, <1>13, <1>14,
     <1>15, <1>16, <1>17, <1>18, <1>19, <1>20, <1>21 DEF DocketNext, DocketStep

-----------------------------------------------------------------------------
(* An entry carries its evidence. *)

WalkPlaces == {"page", "match", "alert"}

SessionInv == EntriesCarryEvidence /\ InsertsAreExclusive /\ MatchingIsComplete

\* The part of it that is about one runner.
Complete(r) ==
    /\ newEntries[r] \subseteq batch[r]
    /\ batch[r] \subseteq entries \cup newEntries[r] \/ newEntries[r] = {}
    /\ newEvidence[r] \subseteq newEntries[r]
    /\ \A e \in newEvidence[r] : Matching(e)
    /\ pc[r] \in {"page", "match"} =>
          newEvidence[r] = {} /\ batch[r] \subseteq entries \cup newEntries[r]
    /\ pc[r] = "alert" => \A e \in newEntries[r] : Matching(e) => e \in newEvidence[r]
    /\ pc[r] \notin WalkPlaces => newEntries[r] = {} /\ newEvidence[r] = {}

LEMMA CompleteIsPerRunner == MatchingIsComplete <=> \A r \in Runners : Complete(r)
BY DEF MatchingIsComplete, Complete, WalkPlaces

LEMMA MatchingIsConstant == \A e : Matching(e)' = Matching(e)
BY DEF Matching, IsSealedOrUnknown

LEMMA SessionInit == DocketInit => SessionInv
BY DEF DocketInit, SessionInv, EntriesCarryEvidence, InsertsAreExclusive, MatchingIsComplete

NothingWritten == UNCHANGED <<entries, evidence, newEntries, newEvidence, batch>>

SamePlaces ==
    \A q \in Runners :
        pc'[q] = pc[q] \/ (pc[q] \notin WalkPlaces /\ pc'[q] \notin WalkPlaces)

\* A step that writes nothing and moves a runner only outside its walk.
LEMMA QuietStep ==
    ASSUME DocketTypeOK, SessionInv, NothingWritten, SamePlaces
    PROVE  SessionInv'
<1> USE DEF NothingWritten
<1>1. EntriesCarryEvidence'  BY MatchingIsConstant DEF SessionInv, EntriesCarryEvidence
<1>2. InsertsAreExclusive'  BY DEF SessionInv, InsertsAreExclusive
<1>3. ASSUME NEW q \in Runners PROVE Complete(q)'
  <2>1. Complete(q)  BY CompleteIsPerRunner DEF SessionInv
  <2>0. pc'[q] = pc[q] \/ (pc[q] \notin WalkPlaces /\ pc'[q] \notin WalkPlaces)
    BY DEF SamePlaces
  <2>2. CASE pc'[q] = pc[q]
    BY <2>1, <2>2, MatchingIsConstant DEF Complete
  <2>3. CASE pc[q] \notin WalkPlaces /\ pc'[q] \notin WalkPlaces
    BY <2>1, <2>3, MatchingIsConstant DEF Complete, WalkPlaces
  <2> QED  BY <2>0, <2>2, <2>3
<1>4. MatchingIsComplete'
  BY <1>3 DEF Complete, MatchingIsComplete, WalkPlaces
<1> QED  BY <1>1, <1>2, <1>4 DEF SessionInv

\* A rollback, wherever the runner goes then.
LEMMA DiscardStep ==
    ASSUME DocketTypeOK, SessionInv, NEW r \in Runners, NEW place,
           UNCHANGED <<entries, evidence>>, Discard(r), EndWalk(r), Goto(r, place),
           place \notin WalkPlaces
    PROVE  SessionInv'
<1>1. EntriesCarryEvidence'  BY MatchingIsConstant DEF SessionInv, EntriesCarryEvidence
<1>2. /\ newEntries'[r] = {} /\ newEvidence'[r] = {} /\ batch'[r] = {} /\ pc'[r] = place
      /\ \A q \in Runners \ {r} :
            /\ newEntries'[q] = newEntries[q] /\ newEvidence'[q] = newEvidence[q]
            /\ batch'[q] = batch[q] /\ pc'[q] = pc[q]
  BY DEF Discard, EndWalk, Goto, DocketTypeOK
<1>3. InsertsAreExclusive'  BY <1>2 DEF SessionInv, InsertsAreExclusive
<1>4. ASSUME NEW q \in Runners PROVE Complete(q)'
  <2>1. Complete(q)  BY CompleteIsPerRunner DEF SessionInv
  <2>2. CASE q = r
    BY <1>2, <2>2 DEF Complete, WalkPlaces
  <2>3. CASE q # r
    BY <1>2, <2>1, <2>3, MatchingIsConstant DEF Complete
  <2> QED  BY <2>2, <2>3
<1>5. MatchingIsComplete'  BY <1>4 DEF Complete, MatchingIsComplete, WalkPlaces
<1> QED  BY <1>1, <1>3, <1>5 DEF SessionInv

\* A commit at the end of the matching.
LEMMA CommitStep ==
    ASSUME DocketInv, NEW r \in Runners, pc[r] = "alert", CommitRows(r),
           newEntries' = [newEntries EXCEPT ![r] = {}],
           newEvidence' = [newEvidence EXCEPT ![r] = {}],
           pc'[r] \in {"alert", "record", "idle"}, \A q \in Runners \ {r} : pc'[q] = pc[q],
           \A q \in Runners \ {r} : batch'[q] = batch[q]
    PROVE  SessionInv'
<1>0. DocketTypeOK /\ SessionInv  BY DEF DocketInv, SessionInv
<1>1. EntriesCarryEvidence' /\ entries' = entries \cup newEntries[r]  BY CommitKeepsStep
<1>2. /\ newEntries'[r] = {} /\ newEvidence'[r] = {}
      /\ \A q \in Runners \ {r} : newEntries'[q] = newEntries[q] /\ newEvidence'[q] = newEvidence[q]
  BY <1>0 DEF DocketTypeOK
<1>3. InsertsAreExclusive'  BY <1>0, <1>1, <1>2 DEF SessionInv, InsertsAreExclusive
<1>4. ASSUME NEW q \in Runners PROVE Complete(q)'
  <2>1. Complete(q)  BY <1>0, CompleteIsPerRunner DEF SessionInv
  <2>2. CASE q = r
    BY <1>2, <2>2 DEF Complete, WalkPlaces
  <2>3. CASE q # r
    BY <1>1, <1>2, <2>1, <2>3, MatchingIsConstant DEF Complete
  <2> QED  BY <2>2, <2>3
<1>5. MatchingIsComplete'  BY <1>4 DEF Complete, MatchingIsComplete, WalkPlaces
<1> QED  BY <1>1, <1>3, <1>5 DEF SessionInv

\* A page of the walk: rows that no other runner is inserting.
LEMMA PageStep ==
    ASSUME DocketTypeOK, SessionInv, NEW r \in Runners, FetchPage(r)
    PROVE  SessionInv'
<1> DEFINE page == Page(r)
<1>1. /\ pc[r] = "page" /\ UNCHANGED <<entries, evidence, newEvidence>>
      /\ \A q \in Runners \ {r} : newEntries[q] \cap page = {}
      /\ newEntries' = [newEntries EXCEPT ![r] = @ \cup (page \ entries)]
      /\ batch' = [batch EXCEPT ![r] = @ \cup page]
  BY DEF FetchPage, Contended, Seen, tables
<1>2. pc'[r] \in {"match", "page"} /\ \A q \in Runners \ {r} : pc'[q] = pc[q]
  BY DEF FetchPage, Goto, DocketTypeOK
<1> HIDE DEF page
<1>3. /\ newEntries'[r] = newEntries[r] \cup (page \ entries) /\ batch'[r] = batch[r] \cup page
      /\ \A q \in Runners \ {r} : newEntries'[q] = newEntries[q] /\ batch'[q] = batch[q]
  BY <1>1 DEF DocketTypeOK
<1>4. EntriesCarryEvidence'  BY <1>1, MatchingIsConstant DEF SessionInv, EntriesCarryEvidence
<1>5. InsertsAreExclusive'
  <2>1. ASSUME NEW p \in Runners PROVE newEntries'[p] \cap entries' = {}
    BY <1>1, <1>3 DEF SessionInv, InsertsAreExclusive
  <2>2. ASSUME NEW p \in Runners, NEW q \in Runners \ {p} PROVE newEntries'[p] \cap newEntries'[q] = {}
    <3>1. newEntries[p] \cap newEntries[q] = {}  BY DEF SessionInv, InsertsAreExclusive
    <3> QED  BY <1>1, <1>3, <3>1
  <2> QED  BY <2>1, <2>2 DEF InsertsAreExclusive
<1>6. ASSUME NEW q \in Runners PROVE Complete(q)'
  <2>1. Complete(q)  BY CompleteIsPerRunner DEF SessionInv
  <2>2. CASE q = r
    BY <1>1, <1>2, <1>3, <2>1, <2>2, MatchingIsConstant DEF Complete, WalkPlaces
  <2>3. CASE q # r
    BY <1>1, <1>2, <1>3, <2>1, <2>3, MatchingIsConstant DEF Complete
  <2> QED  BY <2>2, <2>3
<1>7. MatchingIsComplete'  BY <1>6 DEF Complete, MatchingIsComplete, WalkPlaces
<1> QED  BY <1>4, <1>5, <1>7 DEF SessionInv

\* The matching: a row that is new has no evidence yet, one that is stored has it.
LEMMA MatchStep ==
    ASSUME DocketTypeOK, SessionInv, NEW r \in Runners, MatchBatch(r)
    PROVE  SessionInv'
<1>1. /\ pc[r] = "match" /\ UNCHANGED <<entries, evidence, newEntries, batch>>
      /\ newEvidence' = [newEvidence EXCEPT ![r] = Unmatched(r)]
  BY DEF MatchBatch, tables
<1>2. pc'[r] = "alert" /\ \A q \in Runners \ {r} : pc'[q] = pc[q]
  BY DEF MatchBatch, Goto, DocketTypeOK
<1>3. newEvidence'[r] = Unmatched(r) /\ \A q \in Runners \ {r} : newEvidence'[q] = newEvidence[q]
  BY <1>1 DEF DocketTypeOK
<1>4. EntriesCarryEvidence'  BY <1>1, MatchingIsConstant DEF SessionInv, EntriesCarryEvidence
<1>5. InsertsAreExclusive'  BY <1>1 DEF SessionInv, InsertsAreExclusive
<1>6. Complete(r)  BY CompleteIsPerRunner DEF SessionInv
<1>7. batch[r] \subseteq Entries  BY DEF DocketTypeOK
<1>8. ASSUME NEW e \in batch[r], Matching(e)
      PROVE  e \in newEntries[r] <=> ~HasEvidence(e)
  <2>1. e \in Entries /\ (e \in entries \/ e \in newEntries[r])  BY <1>1, <1>6, <1>7 DEF Complete
  <2>2. e \in newEntries[r] => e \notin entries  BY DEF SessionInv, InsertsAreExclusive
  <2>3. evidence[e] = IF e \in entries /\ Matching(e) THEN 1 ELSE 0
    BY <2>1 DEF SessionInv, EntriesCarryEvidence
  <2> QED  BY <1>8, <2>1, <2>2, <2>3 DEF HasEvidence
<1>9. /\ Unmatched(r) \subseteq newEntries[r] /\ \A e \in Unmatched(r) : Matching(e)
      /\ \A e \in newEntries[r] : Matching(e) => e \in Unmatched(r)
  BY <1>6, <1>8 DEF Unmatched, Complete
<1>10. ASSUME NEW q \in Runners PROVE Complete(q)'
  <2>1. Complete(q)  BY CompleteIsPerRunner DEF SessionInv
  <2>2. CASE q = r
    BY <1>1, <1>2, <1>3, <1>9, <2>1, <2>2, MatchingIsConstant DEF Complete, WalkPlaces
  <2>3. CASE q # r
    BY <1>1, <1>2, <1>3, <2>1, <2>3, MatchingIsConstant DEF Complete
  <2> QED  BY <2>2, <2>3
<1>11. MatchingIsComplete'  BY <1>10 DEF Complete, MatchingIsComplete, WalkPlaces
<1> QED  BY <1>4, <1>5, <1>11 DEF SessionInv

LEMMA SessionStep == DocketInv /\ [DocketNext]_docketVars => SessionInv'
<1> SUFFICES ASSUME DocketInv, [DocketNext]_docketVars PROVE SessionInv'
  OBVIOUS
<1>0. DocketTypeOK /\ SessionInv  BY DEF DocketInv, SessionInv
<1> USE DEF tables, session, walk, task, NoWrites
<1>1. ASSUME NEW e \in Entries, Publish(e) PROVE SessionInv'
  <2>1. NothingWritten  BY <1>1 DEF Publish, NothingWritten
  <2>2. SamePlaces  BY <1>1 DEF Publish, SamePlaces
  <2> QED  BY <1>0, <2>1, <2>2, QuietStep
<1>2. ASSUME NEW i \in Issuers, OverlookEvidence(i) PROVE SessionInv'
  <2>1. NothingWritten  BY <1>2 DEF OverlookEvidence, NothingWritten
  <2>2. SamePlaces  BY <1>2 DEF OverlookEvidence, SamePlaces
  <2> QED  BY <1>0, <2>1, <2>2, QuietStep
<1>3. ASSUME NEW i \in Issuers, NEW d \in Dockets, LinkCurated(i, d) PROVE SessionInv'
  <2>1. NothingWritten  BY <1>3 DEF LinkCurated, NothingWritten
  <2>2. SamePlaces  BY <1>3 DEF LinkCurated, SamePlaces
  <2> QED  BY <1>0, <2>1, <2>2, QuietStep
<1>4. ASSUME NEW r \in Runners, NEW i \in Issuers, StartAutoLink(r, i) PROVE SessionInv'
  <2>1. NothingWritten  BY <1>4 DEF StartAutoLink, NothingWritten
  <2>2. SamePlaces  BY <1>0, <1>4 DEF StartAutoLink, Goto, SamePlaces, WalkPlaces, DocketTypeOK
  <2> QED  BY <1>0, <2>1, <2>2, QuietStep
<1>5. ASSUME NEW r \in Runners, NEW d \in Dockets, StartSync(r, d) PROVE SessionInv'
  <2>1. NothingWritten  BY <1>5 DEF StartSync, NothingWritten
  <2>2. SamePlaces  BY <1>0, <1>5 DEF StartSync, Goto, SamePlaces, WalkPlaces, DocketTypeOK
  <2> QED  BY <1>0, <2>1, <2>2, QuietStep
<1>6. ASSUME NEW r \in Runners, Search(r) PROVE SessionInv'
  <2>1. pc[r] = "search" /\ (pc' = [pc EXCEPT ![r] = "sync"] \/ pc' = [pc EXCEPT ![r] = "record"])
    BY <1>6 DEF Search, Goto
  <2>2. SamePlaces  BY <1>0, <2>1 DEF SamePlaces, WalkPlaces, DocketTypeOK
  <2>3. NothingWritten  BY <1>6 DEF Search, NothingWritten
  <2> QED  BY <1>0, <2>2, <2>3, QuietStep
<1>7. ASSUME NEW r \in Runners, BeginWalk(r) PROVE SessionInv'
  <2>1. /\ pc[r] = "sync" /\ UNCHANGED <<entries, evidence, newEntries, newEvidence>>
        /\ batch'[r] = {} /\ pc'[r] = "page"
        /\ \A q \in Runners \ {r} : batch'[q] = batch[q] /\ pc'[q] = pc[q]
    BY <1>0, <1>7 DEF BeginWalk, Goto, DocketTypeOK
  <2>2. EntriesCarryEvidence' /\ InsertsAreExclusive'
    BY <1>0, <2>1, MatchingIsConstant DEF SessionInv, EntriesCarryEvidence, InsertsAreExclusive
  <2>3. ASSUME NEW q \in Runners PROVE Complete(q)'
    <3>1. Complete(q)  BY <1>0, CompleteIsPerRunner DEF SessionInv
    <3>2. CASE q = r  BY <2>1, <3>1, <3>2 DEF Complete, WalkPlaces
    <3>3. CASE q # r  BY <2>1, <3>1, <3>3, MatchingIsConstant DEF Complete
    <3> QED  BY <3>2, <3>3
  <2>4. MatchingIsComplete'  BY <2>3 DEF Complete, MatchingIsComplete, WalkPlaces
  <2> QED  BY <2>2, <2>4 DEF SessionInv
<1>8. ASSUME NEW r \in Runners, FetchPage(r) PROVE SessionInv'
  BY <1>0, <1>8, PageStep
<1>9. ASSUME NEW r \in Runners, MatchBatch(r) PROVE SessionInv'
  BY <1>0, <1>9, MatchStep
<1>10. ASSUME NEW r \in Runners, NEW e \in Entries, SkipBundle(r, e) PROVE SessionInv'
  <2>1. NothingWritten  BY <1>10 DEF SkipBundle, TakeBundle, NothingWritten
  <2>2. SamePlaces  BY <1>10 DEF SkipBundle, TakeBundle, SamePlaces
  <2> QED  BY <1>0, <2>1, <2>2, QuietStep
<1>11. ASSUME NEW r \in Runners, NEW e \in Entries, AlertWithoutModel(r, e) PROVE SessionInv'
  <2>1. NothingWritten  BY <1>11 DEF AlertWithoutModel, TakeBundle, NothingWritten
  <2>2. SamePlaces  BY <1>11 DEF AlertWithoutModel, TakeBundle, SamePlaces
  <2> QED  BY <1>0, <2>1, <2>2, QuietStep
<1>12. ASSUME NEW r \in Runners, NEW e \in Entries, AlertAfterModel(r, e) PROVE SessionInv'
  <2>1. /\ pc[r] = "alert" /\ CommitRows(r) /\ UNCHANGED <<pc, batch>>
        /\ newEntries' = [newEntries EXCEPT ![r] = {}]
        /\ newEvidence' = [newEvidence EXCEPT ![r] = {}]
    BY <1>12 DEF AlertAfterModel, TakeBundle
  <2> QED  BY <2>1, CommitStep
<1>13. ASSUME NEW r \in Runners, NEW e \in Entries, DeferBundle(r, e) PROVE SessionInv'
  <2>1. NothingWritten  BY <1>13 DEF DeferBundle, TakeBundle, NothingWritten
  <2>2. SamePlaces  BY <1>13 DEF DeferBundle, TakeBundle, SamePlaces
  <2> QED  BY <1>0, <2>1, <2>2, QuietStep
<1>14. ASSUME NEW r \in Runners, CommitSync(r) PROVE SessionInv'
  <2>1. /\ pc[r] = "alert" /\ CommitRows(r)
        /\ newEntries' = [newEntries EXCEPT ![r] = {}]
        /\ newEvidence' = [newEvidence EXCEPT ![r] = {}]
        /\ batch' = [batch EXCEPT ![r] = {}]
        /\ pc' = [pc EXCEPT ![r] = "record"] \/ pc' = [pc EXCEPT ![r] = "idle"]
    BY <1>14 DEF CommitSync, Discard, EndWalk, Goto
  <2>2. /\ pc'[r] \in {"alert", "record", "idle"} /\ \A q \in Runners \ {r} : pc'[q] = pc[q]
        /\ \A q \in Runners \ {r} : batch'[q] = batch[q]
    BY <1>0, <2>1 DEF DocketTypeOK
  <2> QED  BY <2>1, <2>2, CommitStep
<1>15. ASSUME NEW r \in Runners, RecordAttempt(r) PROVE SessionInv'
  <2>1. NothingWritten  BY <1>15 DEF RecordAttempt, NothingWritten
  <2>2. SamePlaces  BY <1>0, <1>15 DEF RecordAttempt, Goto, SamePlaces, WalkPlaces, DocketTypeOK
  <2> QED  BY <1>0, <2>1, <2>2, QuietStep
<1>16. ASSUME NEW r \in Runners, Raise(r) PROVE SessionInv'
  <2>1. Goto(r, IF job[r] = "link" THEN "raised" ELSE "idle")  BY <1>16 DEF Raise
  <2>2. (IF job[r] = "link" THEN "raised" ELSE "idle") \notin WalkPlaces  BY DEF WalkPlaces
  <2>3. Discard(r) /\ EndWalk(r) /\ UNCHANGED <<entries, evidence>>  BY <1>16 DEF Raise
  <2> QED  BY <1>0, <2>1, <2>2, <2>3, DiscardStep
<1>17. ASSUME NEW r \in Runners, Crash(r) PROVE SessionInv'
  <2>1. Discard(r) /\ EndWalk(r) /\ Goto(r, "idle") /\ UNCHANGED <<entries, evidence>>
    BY <1>17 DEF Crash
  <2>2. "idle" \notin WalkPlaces  BY DEF WalkPlaces
  <2> QED  BY <1>0, <2>1, <2>2, DiscardStep
<1>18. ASSUME NEW r \in Runners, Return(r) PROVE SessionInv'
  <2>1. NothingWritten  BY <1>18 DEF Return, NothingWritten
  <2>2. SamePlaces  BY <1>0, <1>18 DEF Return, Goto, SamePlaces, WalkPlaces, DocketTypeOK
  <2> QED  BY <1>0, <2>1, <2>2, QuietStep
<1>19. CASE UNCHANGED docketVars
  <2>1. NothingWritten  BY <1>19 DEF docketVars, NothingWritten
  <2>2. SamePlaces  BY <1>19 DEF docketVars, SamePlaces
  <2> QED  BY <1>0, <2>1, <2>2, QuietStep
<1> QED
  BY <1>1, <1>2, <1>3, <1>4, <1>5, <1>6, <1>7, <1>8, <1>9, <1>10, <1>11, <1>12, <1>13, <1>14,
     <1>15, <1>16, <1>17, <1>18, <1>19
  DEF DocketNext, DocketStep, SourceFails, InsertConflicts, EvidenceGone

-----------------------------------------------------------------------------
(* A link has its reason. *)

\* TasksInHand of one runner, and LinksAreJustified in its three parts.
InHand(r) ==
    /\ pc[r] = "idle" => docket[r] = None
    /\ pc[r] = "search" => job[r] = "link" /\ issuer[r] \in Issuers /\ docket[r] = None
    /\ pc[r] \in {"sync", "page", "match", "alert"} => Loaded(r) /\ (job[r] = "link" => Matched(r))
    /\ pc[r] \in {"page", "match", "alert"} => \A e \in batch[r] : DocketOf[e] = docket[r]
    /\ pc[r] = "record" =>
          /\ issuer[r] \in Issuers /\ outcome[r] \in Outcomes
          /\ IF outcome[r] = "verified_docket_match" THEN Matched(r) /\ docket[r] \in walked
             ELSE docket[r] = None

Reasoned(d, i) == link[d] = i => <<i, d>> \in Curated \/ StrongMatch(i, d)

Told(e) == evidence[e] > 0 => about[e] # None /\ about[e] = link[DocketOf[e]]

Founded(a) ==
    IF a.outcome = "verified_docket_match"
    THEN a.docket \in walked /\ link[a.docket] # None /\ StrongMatch(a.issuer, a.docket)
    ELSE a.docket = None

LEMMA LinkInvByParts ==
    LinkInv <=> /\ \A r \in Runners : InHand(r)
                /\ \A d \in Dockets, i \in Issuers : Reasoned(d, i)
                /\ \A e \in Entries : Told(e)
                /\ \A a \in attempts : Founded(a)
BY DEF LinkInv, TasksInHand, LinksAreJustified, InHand, Reasoned, Told, Founded

LEMMA LinkInvByPartsNext ==
    ASSUME \A r \in Runners : InHand(r)',
           \A d \in Dockets, i \in Issuers : Reasoned(d, i)',
           \A e \in Entries : Told(e)',
           \A a \in attempts' : Founded(a)'
    PROVE  LinkInv'
BY DEF LinkInv, TasksInHand, LinksAreJustified, InHand, Reasoned, Told, Founded

LEMMA StrongIsConstant == \A i, d : StrongMatch(i, d)' = StrongMatch(i, d)
BY DEF StrongMatch

LEMMA LinkInit == DocketInit => LinkInv
<1> SUFFICES ASSUME DocketInit PROVE LinkInv
  OBVIOUS
<1>1. \A r \in Runners : InHand(r)  BY DEF DocketInit, InHand
<1>2. \A d \in Dockets, i \in Issuers : Reasoned(d, i)
  BY DocketAssumption DEF DocketInit, Reasoned
<1>3. \A a \in attempts : Founded(a)  BY DEF DocketInit
<1>4. \A e \in Entries : Told(e)  BY DEF DocketInit, Told
<1> QED  BY <1>1, <1>2, <1>3, <1>4, LinkInvByParts

\* A link that is there stays.
LinksStay == \A d \in Dockets : link[d] # None => link'[d] = link[d]

LEMMA LinkingKeepsLinks ==
    ASSUME DocketTypeOK, NEW i \in Issuers, NEW d \in Dockets, link' = Linked(i, d)
    PROVE  /\ LinksStay /\ link'[d] # None
           /\ \A c \in Dockets : link'[c] = link[c] \/ (c = d /\ link'[c] = i)
<1>1. link' = [link EXCEPT ![d] = IF link[d] = None THEN i ELSE link[d]]  BY DEF Linked
<1>2. link'[d] = IF link[d] = None THEN i ELSE link[d]  BY <1>1 DEF DocketTypeOK
<1>3. \A c \in Dockets : c # d => link'[c] = link[c]  BY <1>1 DEF DocketTypeOK
<1>4. i # None  BY DocketAssumption
<1> QED  BY <1>2, <1>3, <1>4 DEF LinksStay

\* What a runner has in hand is left alone.
AtRestIn(q) ==
    /\ pc'[q] = pc[q] /\ job'[q] = job[q] /\ issuer'[q] = issuer[q] /\ docket'[q] = docket[q]
    /\ outcome'[q] = outcome[q] /\ owner'[q] = owner[q] /\ batch'[q] = batch[q]

\* What one runner knows is not lost by what another one does.
LEMMA OthersKeepInHand ==
    ASSUME LinkInv, LinksStay, walked \subseteq walked', NEW q \in Runners, AtRestIn(q)
    PROVE  InHand(q)'
<1>1. InHand(q)  BY LinkInvByParts
<1>2. Matched(q) => Matched(q)'  BY StrongIsConstant DEF Matched, LinksStay, AtRestIn
<1>3. Loaded(q) => Loaded(q)'  BY DEF Loaded, LinksStay, AtRestIn
<1> QED  BY <1>1, <1>2, <1>3 DEF InHand, AtRestIn

\* Nor does a step lose a reason that keeps the links and the attempts.
LEMMA ReasonsStay ==
    ASSUME LinkInv, UNCHANGED <<link, attempts>>, walked \subseteq walked'
    PROVE  /\ \A d \in Dockets, i \in Issuers : Reasoned(d, i)'
           /\ \A a \in attempts' : Founded(a)'
           /\ LinksStay
BY LinkInvByParts, StrongIsConstant DEF Reasoned, Founded, LinksStay

\* Evidence stays about whom it is about, while links stay.
LEMMA ToldStays ==
    ASSUME LinkInv, LinksStay, UNCHANGED <<evidence, about>>
    PROVE  \A e \in Entries : Told(e)'
<1> SUFFICES ASSUME NEW e \in Entries PROVE Told(e)'
  OBVIOUS
<1>1. Told(e)  BY LinkInvByParts
<1>2. DocketOf[e] \in Dockets  BY DocketAssumption
<1> QED  BY <1>1, <1>2 DEF Told, LinksStay

\* New evidence is about the issuer of the row that was loaded, whose link stayed.
LEMMA CommitTells ==
    ASSUME DocketInv, LinkInv, NEW r \in Runners, pc[r] = "alert", CommitRows(r), UNCHANGED link
    PROVE  \A e \in Entries : Told(e)'
<1>1. /\ evidence' = [e \in Entries |-> IF e \in newEvidence[r] THEN evidence[e] + 1 ELSE evidence[e]]
      /\ about' = [e \in Entries |-> IF e \in newEvidence[r] THEN owner[r] ELSE about[e]]
  BY DEF CommitRows, Plus
<1>2. /\ Loaded(r) /\ \A e \in batch[r] : DocketOf[e] = docket[r]
  BY LinkInvByParts DEF InHand
<1>3. newEvidence[r] \subseteq batch[r]  BY DEF DocketInv, MatchingIsComplete
<1> SUFFICES ASSUME NEW e \in Entries PROVE Told(e)'
  OBVIOUS
<1>4. Told(e)  BY LinkInvByParts
<1>5. CASE e \in newEvidence[r]
  <2>1. about'[e] = owner[r] /\ DocketOf[e] = docket[r]  BY <1>1, <1>2, <1>3, <1>5
  <2>2. link'[docket[r]] = owner[r] /\ owner[r] # None  BY <1>2 DEF Loaded
  <2> QED  BY <2>1, <2>2 DEF Told
<1>6. CASE e \notin newEvidence[r]
  <2>1. about'[e] = about[e] /\ evidence'[e] = evidence[e]  BY <1>1, <1>6
  <2> QED  BY <1>4, <2>1 DEF Told
<1> QED  BY <1>5, <1>6

\* A step of r that links nothing, after which r knows what it should.
OthersRest(r) == \A q \in Runners \ {r} : AtRestIn(q)

LEMMA RunnerKeepsReasons ==
    ASSUME LinkInv, UNCHANGED <<link, attempts>>, walked \subseteq walked',
           \A e \in Entries : Told(e)', NEW r \in Runners, OthersRest(r), InHand(r)'
    PROVE  LinkInv'
<1>1. ASSUME NEW q \in Runners PROVE InHand(q)'
  <2>1. CASE q = r
    BY <2>1
  <2>2. CASE q # r
    BY <2>2, ReasonsStay, OthersKeepInHand DEF OthersRest
  <2> QED  BY <2>1, <2>2
<1> QED  BY <1>1, ReasonsStay, LinkInvByPartsNext

\* The same where no evidence is committed.
LEMMA RunnerWritesNothing ==
    ASSUME LinkInv, UNCHANGED <<link, attempts, evidence, about, walked>>,
           NEW r \in Runners, OthersRest(r), InHand(r)'
    PROVE  LinkInv'
<1>1. \A e \in Entries : Told(e)'  BY ReasonsStay, ToldStays
<1> QED  BY <1>1, RunnerKeepsReasons

\* A step that moves a runner on in its walk, over entries of its docket, or nobody.
MovesOn(q) ==
    \/ pc'[q] = pc[q] /\ batch'[q] = batch[q]
    \/ /\ pc[q] \in {"sync", "page", "match", "alert"}
       /\ pc'[q] \in {"page", "match", "alert"}
       /\ \A e \in batch'[q] : DocketOf[e] = docket[q]

LEMMA WalkStep ==
    ASSUME LinkInv, UNCHANGED <<link, attempts, job, issuer, docket, outcome, owner, walked>>,
           \A e \in Entries : Told(e)', \A q \in Runners : MovesOn(q)
    PROVE  LinkInv'
<1>1. ASSUME NEW q \in Runners PROVE InHand(q)'
  <2>1. InHand(q)  BY LinkInvByParts
  <2>2. Matched(q) => Matched(q)'  BY StrongIsConstant DEF Matched
  <2>3. Loaded(q) => Loaded(q)'  BY DEF Loaded
  <2>4. CASE pc'[q] = pc[q] /\ batch'[q] = batch[q]
    BY <2>1, <2>2, <2>3, <2>4 DEF InHand
  <2>5. CASE /\ pc[q] \in {"sync", "page", "match", "alert"}
             /\ pc'[q] \in {"page", "match", "alert"}
             /\ \A e \in batch'[q] : DocketOf[e] = docket[q]
    BY <2>1, <2>2, <2>3, <2>5 DEF InHand
  <2> QED  BY <2>4, <2>5 DEF MovesOn
<1>2. walked \subseteq walked'  OBVIOUS
<1> QED  BY <1>1, <1>2, ReasonsStay, LinkInvByPartsNext

\* The same where no evidence is committed.
LEMMA QuietWalkStep ==
    ASSUME LinkInv, UNCHANGED <<link, evidence, about, attempts, job, issuer, docket, outcome, owner, walked>>,
           \A q \in Runners : MovesOn(q)
    PROVE  LinkInv'
<1>1. \A e \in Entries : Told(e)'  BY ToldStays DEF LinksStay
<1> QED  BY <1>1, WalkStep

LEMMA SearchStep ==
    ASSUME DocketTypeOK, LinkInv, NEW r \in Runners, Search(r)
    PROVE  LinkInv'
<1>0. PICK found \in SUBSET Dockets : Finds(r, found)  BY SearchFinds
<1> DEFINE i == issuer[r]
           verdict == MatchOutcome(issuer[r], found)
<1>1. /\ pc[r] = "search" /\ outcome' = [outcome EXCEPT ![r] = verdict]
      /\ UNCHANGED <<evidence, about, attempts, job, issuer, batch, walked>>
  BY <1>0 DEF Finds, walk
<1>2. job[r] = "link" /\ i \in Issuers /\ docket[r] = None
  BY <1>1, LinkInvByParts DEF InHand
<1>3. verdict \in Outcomes  BY DEF MatchOutcome, Outcomes
<1> HIDE DEF i, verdict
<1>4. outcome'[r] = verdict /\ \A q \in Runners \ {r} : outcome'[q] = outcome[q]
  BY <1>1 DEF DocketTypeOK
<1>5. issuer[r] = i  BY DEF i
<1>6. CASE verdict # "verified_docket_match"
  <2>1. docket' = docket /\ link' = link /\ owner' = owner /\ pc' = [pc EXCEPT ![r] = "record"]
    BY <1>0, <1>6 DEF Finds, Goto, verdict
  <2>2. OthersRest(r)  BY <1>1, <1>4, <2>1 DEF OthersRest, AtRestIn, DocketTypeOK
  <2>3. pc'[r] = "record"  BY <2>1 DEF DocketTypeOK
  <2>4. InHand(r)'  BY <1>1, <1>2, <1>3, <1>4, <1>5, <1>6, <2>1, <2>3 DEF InHand
  <2>5. UNCHANGED <<link, attempts, evidence, about, walked>>  BY <1>1, <2>1
  <2> QED  BY <2>2, <2>4, <2>5, RunnerWritesNothing
<1>7. CASE verdict = "verified_docket_match"
  <2>1. PICK d \in Passing(i, found) : Links(r, d)
    BY <1>0, <1>7 DEF Finds, i, verdict
  <2>2. pc' = [pc EXCEPT ![r] = "sync"]  BY <1>0, <1>7 DEF Finds, Goto, verdict
  <2>3. d \in Dockets /\ Passes(i, d)  BY <2>1 DEF Passing
  <2>4. StrongMatch(i, d)  BY <1>2, <2>3, PassesIsStrong
  <2>5. link' = Linked(i, d)  BY <1>5, <2>1 DEF Links
  <2>6. /\ LinksStay /\ link'[d] # None
        /\ \A c \in Dockets : link'[c] = link[c] \/ (c = d /\ link'[c] = i)
    BY <1>2, <2>3, <2>5, LinkingKeepsLinks
  <2>7. docket'[r] = d /\ pc'[r] = "sync" /\ owner'[r] = link'[d] /\ OthersRest(r)
    BY <1>1, <1>4, <2>1, <2>2 DEF Links, OthersRest, AtRestIn, DocketTypeOK
  <2>8. Matched(r)'
    BY <1>1, <1>2, <1>4, <1>5, <1>7, <2>3, <2>4, <2>6, <2>7, StrongIsConstant DEF Matched
  <2>9. Loaded(r)'  BY <2>3, <2>6, <2>7 DEF Loaded
  <2>10. InHand(r)'  BY <2>7, <2>8, <2>9 DEF InHand
  <2>11. ASSUME NEW q \in Runners PROVE InHand(q)'
    <3>1. CASE q = r
      BY <2>10, <3>1
    <3>2. CASE q # r
      BY <1>1, <2>6, <2>7, <3>2, OthersKeepInHand DEF OthersRest
    <3> QED  BY <3>1, <3>2
  <2>12. ASSUME NEW c \in Dockets, NEW j \in Issuers PROVE Reasoned(c, j)'
    <3>1. Reasoned(c, j)  BY LinkInvByParts
    <3>2. CASE link'[c] = link[c]
      BY <3>1, <3>2, StrongIsConstant DEF Reasoned
    <3>3. CASE c = d /\ link'[c] = i
      BY <2>4, <3>3, StrongIsConstant DEF Reasoned
    <3> QED  BY <2>6, <3>2, <3>3
  <2>13. ASSUME NEW a \in attempts' PROVE Founded(a)'
    <3>1. Founded(a)  BY <1>1, LinkInvByParts
    <3>2. walked' = walked /\ walked \subseteq Dockets  BY <1>1 DEF DocketTypeOK
    <3> QED  BY <2>6, <3>1, <3>2, StrongIsConstant DEF Founded, LinksStay
  <2>14. \A e \in Entries : Told(e)'  BY <1>1, <2>6, ToldStays
  <2> QED  BY <2>11, <2>12, <2>13, <2>14, LinkInvByPartsNext
<1> QED  BY <1>6, <1>7

LEMMA CuratedStep ==
    ASSUME DocketTypeOK, LinkInv, NEW i \in Issuers, NEW d \in Dockets, LinkCurated(i, d)
    PROVE  LinkInv'
<1>1. <<i, d>> \in Curated /\ link' = Linked(i, d)
      /\ UNCHANGED <<attempts, evidence, about, pc, job, issuer, docket, outcome, owner, batch, walked>>
  BY DEF LinkCurated, task, walk, history
<1>2. /\ LinksStay
      /\ \A c \in Dockets : link'[c] = link[c] \/ (c = d /\ link'[c] = i)
  BY <1>1, LinkingKeepsLinks
<1>3. ASSUME NEW q \in Runners PROVE InHand(q)'
  BY <1>1, <1>2, OthersKeepInHand DEF AtRestIn
<1>4. ASSUME NEW c \in Dockets, NEW j \in Issuers PROVE Reasoned(c, j)'
  <2>1. Reasoned(c, j)  BY LinkInvByParts
  <2>2. CASE link'[c] = link[c]
    BY <2>1, <2>2, StrongIsConstant DEF Reasoned
  <2>3. CASE c = d /\ link'[c] = i
    BY <1>1, <2>3 DEF Reasoned
  <2> QED  BY <1>2, <2>2, <2>3
<1>5. ASSUME NEW a \in attempts' PROVE Founded(a)'
  <2>1. Founded(a)  BY <1>1, LinkInvByParts
  <2>2. walked' = walked /\ walked \subseteq Dockets  BY <1>1 DEF DocketTypeOK
  <2> QED  BY <1>2, <2>1, <2>2, StrongIsConstant DEF Founded, LinksStay
<1>6. \A e \in Entries : Told(e)'  BY <1>1, <1>2, ToldStays
<1> QED  BY <1>3, <1>4, <1>5, <1>6, LinkInvByPartsNext

LEMMA RecordStep ==
    ASSUME DocketTypeOK, LinkInv, NEW r \in Runners, RecordAttempt(r)
    PROVE  LinkInv'
<1> DEFINE row == [issuer |-> issuer[r], outcome |-> outcome[r], docket |-> docket[r]]
<1>1. /\ pc[r] = "record" /\ attempts' = attempts \cup {row}
      /\ pc' = [pc EXCEPT ![r] = "done"]
      /\ UNCHANGED <<link, evidence, about, job, issuer, docket, outcome, owner, batch, walked>>
  BY DEF RecordAttempt, Goto, task, walk, history
<1>2. LinksStay  BY <1>1 DEF LinksStay
<1>3. pc'[r] = "done" /\ OthersRest(r)  BY <1>1 DEF OthersRest, AtRestIn, DocketTypeOK
<1>4. ASSUME NEW q \in Runners PROVE InHand(q)'
  <2>1. CASE q = r
    BY <1>3, <2>1 DEF InHand
  <2>2. CASE q # r
    BY <1>1, <1>2, <1>3, <2>2, OthersKeepInHand DEF OthersRest
  <2> QED  BY <2>1, <2>2
<1>5. \A d \in Dockets, i \in Issuers : Reasoned(d, i)'
  BY <1>1, LinkInvByParts, StrongIsConstant DEF Reasoned
<1>6. Founded(row)
  <2>1. InHand(r)  BY LinkInvByParts
  <2> QED  BY <1>1, <2>1 DEF InHand, Founded, Matched
<1>7. ASSUME NEW a \in attempts' PROVE Founded(a)'
  <2>1. Founded(a)  BY <1>1, <1>6, LinkInvByParts
  <2> QED  BY <1>1, <2>1, StrongIsConstant DEF Founded
<1>8. \A e \in Entries : Told(e)'  BY <1>1, <1>2, ToldStays
<1> QED  BY <1>4, <1>5, <1>7, <1>8, LinkInvByPartsNext

LEMMA LinkStep == DocketInv /\ LinkInv /\ [DocketNext]_docketVars => LinkInv'
<1> SUFFICES ASSUME DocketInv, LinkInv, [DocketNext]_docketVars PROVE LinkInv'
  OBVIOUS
<1>0. DocketTypeOK  BY DEF DocketInv
<1> USE DEF tables, session, walk, task, history
<1> DEFINE Idling ==
        UNCHANGED <<link, evidence, about, attempts, pc, job, issuer, docket, outcome, owner, batch, walked>>
<1>1. ASSUME Idling PROVE LinkInv'
  <2>1. \A q \in Runners : MovesOn(q)  BY <1>1 DEF MovesOn
  <2> QED  BY <1>1, <2>1, QuietWalkStep
<1> HIDE DEF Idling
<1>2. ASSUME NEW e \in Entries, Publish(e) PROVE LinkInv'
  BY <1>1, <1>2 DEF Publish, Idling
<1>3. ASSUME NEW i \in Issuers, OverlookEvidence(i) PROVE LinkInv'
  BY <1>1, <1>3 DEF OverlookEvidence, Idling
<1>4. ASSUME NEW i \in Issuers, NEW d \in Dockets, LinkCurated(i, d) PROVE LinkInv'
  BY <1>0, <1>4, CuratedStep
<1>5. ASSUME NEW r \in Runners, NEW i \in Issuers, StartAutoLink(r, i) PROVE LinkInv'
  <2>1. /\ pc[r] = "idle" /\ pc'[r] = "search" /\ job'[r] = "link" /\ issuer'[r] = i
        /\ docket' = docket /\ UNCHANGED <<link, attempts, evidence, about, walked>>
    BY <1>0, <1>5 DEF StartAutoLink, Goto, DocketTypeOK
  <2>2. OthersRest(r)  BY <1>0, <1>5 DEF StartAutoLink, Goto, OthersRest, AtRestIn, DocketTypeOK
  <2>3. docket[r] = None  BY <2>1, LinkInvByParts DEF InHand
  <2>4. InHand(r)'  BY <2>1, <2>3 DEF InHand
  <2>5. UNCHANGED <<link, attempts, evidence, about, walked>>  BY <2>1
  <2> QED  BY <2>2, <2>4, <2>5, RunnerWritesNothing
<1>6. ASSUME NEW r \in Runners, NEW d \in Dockets, StartSync(r, d) PROVE LinkInv'
  <2>1. /\ pc'[r] = "sync" /\ job'[r] = "sync" /\ docket'[r] = d /\ owner'[r] = link[d] /\ link[d] # None
        /\ UNCHANGED <<link, attempts, evidence, about, walked>>
    BY <1>0, <1>6 DEF StartSync, Goto, DocketTypeOK
  <2>2. OthersRest(r)  BY <1>0, <1>6 DEF StartSync, Goto, OthersRest, AtRestIn, DocketTypeOK
  <2>3. InHand(r)'  BY <2>1 DEF InHand, Loaded
  <2>4. UNCHANGED <<link, attempts, evidence, about, walked>>  BY <2>1
  <2> QED  BY <2>2, <2>3, <2>4, RunnerWritesNothing
<1>7. ASSUME NEW r \in Runners, Search(r) PROVE LinkInv'
  BY <1>0, <1>7, SearchStep
<1>9. ASSUME NEW r \in Runners, BeginWalk(r) PROVE LinkInv'
  <2>1. UNCHANGED <<link, evidence, about, attempts, job, issuer, docket, outcome, owner, walked>>
    BY <1>9 DEF BeginWalk
  <2>2. \A q \in Runners : MovesOn(q)  BY <1>0, <1>9 DEF BeginWalk, Goto, MovesOn, DocketTypeOK
  <2> QED  BY <2>1, <2>2, QuietWalkStep
<1>10. ASSUME NEW r \in Runners, FetchPage(r) PROVE LinkInv'
  <2>1. UNCHANGED <<link, evidence, about, attempts, job, issuer, docket, outcome, owner, walked>>
    BY <1>10 DEF FetchPage
  <2>2. /\ pc[r] = "page" /\ (pc' = [pc EXCEPT ![r] = "match"] \/ pc' = [pc EXCEPT ![r] = "page"])
        /\ batch' = [batch EXCEPT ![r] = batch[r] \cup Page(r)]
    BY <1>10 DEF FetchPage, Seen, Goto
  <2>3. \A e \in Page(r) : DocketOf[e] = docket[r]  BY DEF Page, Ahead
  <2>4. \A e \in batch[r] : DocketOf[e] = docket[r]  BY <2>2, LinkInvByParts DEF InHand
  <2>5. batch'[r] = batch[r] \cup Page(r) /\ pc'[r] \in {"page", "match"}
    BY <1>0, <2>2 DEF DocketTypeOK
  <2>6. \A q \in Runners \ {r} : batch'[q] = batch[q] /\ pc'[q] = pc[q]
    BY <1>0, <2>2 DEF DocketTypeOK
  <2>7. \A q \in Runners : MovesOn(q)  BY <2>2, <2>3, <2>4, <2>5, <2>6 DEF MovesOn
  <2> QED  BY <2>1, <2>7, QuietWalkStep
<1>11. ASSUME NEW r \in Runners, MatchBatch(r) PROVE LinkInv'
  <2>1. UNCHANGED <<link, evidence, about, attempts, job, issuer, docket, outcome, owner, walked>>
    BY <1>11 DEF MatchBatch
  <2>2. /\ pc[r] = "match" /\ pc' = [pc EXCEPT ![r] = "alert"] /\ batch' = batch
    BY <1>11 DEF MatchBatch, Goto
  <2>3. \A e \in batch[r] : DocketOf[e] = docket[r]  BY <2>2, LinkInvByParts DEF InHand
  <2>4. \A q \in Runners : MovesOn(q)  BY <1>0, <2>2, <2>3 DEF MovesOn, DocketTypeOK
  <2> QED  BY <2>1, <2>4, QuietWalkStep
<1>12. ASSUME NEW r \in Runners, NEW e \in Entries, TakeBundle(r, e), NoWrites PROVE LinkInv'
  BY <1>1, <1>12 DEF TakeBundle, NoWrites, Idling
<1>20. ASSUME NEW r \in Runners, NEW e \in Entries, AlertAfterModel(r, e) PROVE LinkInv'
  <2>1. /\ UNCHANGED <<link, attempts, job, issuer, docket, outcome, owner, walked, pc, batch>>
        /\ pc[r] = "alert" /\ CommitRows(r)
    BY <1>20 DEF AlertAfterModel, TakeBundle
  <2>2. \A x \in Entries : Told(x)'  BY <2>1, CommitTells
  <2>3. \A q \in Runners : MovesOn(q)  BY <2>1 DEF MovesOn
  <2> QED  BY <2>1, <2>2, <2>3, WalkStep
<1>13. ASSUME NEW r \in Runners, CommitSync(r) PROVE LinkInv'
  <2>1. /\ pc[r] = "alert" /\ UNCHANGED <<link, attempts>> /\ CommitRows(r) /\ EndWalk(r)
        /\ walked' = walked \cup {docket[r]}
    BY <1>13 DEF CommitSync
  <2>2. \A x \in Entries : Told(x)'  BY <2>1, CommitTells
  <2>3. walked \subseteq walked' /\ UNCHANGED <<link, attempts>>  BY <2>1
  <2>4. CASE job[r] = "link" /\ Goto(r, "record") /\ UNCHANGED <<job, issuer, docket, outcome, owner>>
    <3>1. pc'[r] = "record" /\ OthersRest(r)
      BY <1>0, <2>1, <2>4 DEF Goto, EndWalk, OthersRest, AtRestIn, DocketTypeOK
    <3>2. Matched(r)  BY <2>1, <2>4, LinkInvByParts DEF InHand
    <3>3. Matched(r)'  BY <2>1, <2>4, <3>2, StrongIsConstant DEF Matched
    <3>4. InHand(r)'
      BY <2>1, <2>4, <3>1, <3>2, <3>3 DEF InHand, Matched, Outcomes
    <3> QED  BY <2>2, <2>3, <3>1, <3>4, RunnerKeepsReasons
  <2>5. CASE Goto(r, "idle") /\ EndTask(r)
    <3>1. pc'[r] = "idle" /\ docket'[r] = None /\ OthersRest(r)
      BY <1>0, <2>1, <2>5 DEF Goto, EndTask, EndWalk, OthersRest, AtRestIn, DocketTypeOK
    <3>2. InHand(r)'  BY <3>1 DEF InHand
    <3> QED  BY <2>2, <2>3, <3>1, <3>2, RunnerKeepsReasons
  <2> QED  BY <1>13, <2>4, <2>5 DEF CommitSync
<1>14. ASSUME NEW r \in Runners, RecordAttempt(r) PROVE LinkInv'
  BY <1>0, <1>14, RecordStep
<1>15. ASSUME NEW r \in Runners, NEW place \in {"idle", "raised"},
              UNCHANGED <<link, attempts, evidence, about, walked>>,
              Goto(r, place), EndTask(r), EndWalk(r) \/ UNCHANGED batch
       PROVE  LinkInv'
  <2>1. pc'[r] \in {"idle", "raised"} /\ docket'[r] = None
    BY <1>0, <1>15 DEF Goto, EndTask, DocketTypeOK
  <2>2. \A q \in Runners \ {r} : batch'[q] = batch[q]
    BY <1>0, <1>15 DEF EndWalk, DocketTypeOK
  <2>3. OthersRest(r)
    BY <1>0, <1>15, <2>2 DEF Goto, EndTask, OthersRest, AtRestIn, DocketTypeOK
  <2>4. InHand(r)'  BY <2>1 DEF InHand
  <2> QED  BY <1>15, <2>3, <2>4, RunnerWritesNothing
<1>16. ASSUME NEW r \in Runners, Raise(r), UNCHANGED walked PROVE LinkInv'
  <2>1. (IF job[r] = "link" THEN "raised" ELSE "idle") \in {"idle", "raised"}  OBVIOUS
  <2>2. /\ UNCHANGED <<link, attempts, evidence, about, walked>> /\ EndTask(r) /\ EndWalk(r)
        /\ Goto(r, IF job[r] = "link" THEN "raised" ELSE "idle")
    BY <1>16 DEF Raise
  <2> QED  BY <1>15, <2>1, <2>2
<1>17. ASSUME NEW r \in Runners, Crash(r) PROVE LinkInv'
  <2>1. /\ UNCHANGED <<link, attempts, evidence, about, walked>>
        /\ Goto(r, "idle") /\ EndTask(r) /\ EndWalk(r)
    BY <1>17 DEF Crash
  <2> QED  BY <1>15, <2>1
<1>18. ASSUME NEW r \in Runners, Return(r) PROVE LinkInv'
  <2>1. /\ UNCHANGED <<link, attempts, evidence, about, walked, batch>>
        /\ Goto(r, "idle") /\ EndTask(r)
    BY <1>18 DEF Return
  <2> QED  BY <1>15, <2>1
<1>19. CASE UNCHANGED docketVars
  BY <1>1, <1>19 DEF docketVars, Idling
<1>21. ASSUME NEW r \in Runners, SourceFails(r) \/ InsertConflicts(r) \/ EvidenceGone(r) PROVE LinkInv'
  BY <1>16, <1>21 DEF SourceFails, InsertConflicts, EvidenceGone
<1>22. ASSUME NEW r \in Runners, NEW e \in Entries,
              SkipBundle(r, e) \/ AlertWithoutModel(r, e) \/ DeferBundle(r, e)
       PROVE  LinkInv'
  BY <1>12, <1>22 DEF SkipBundle, AlertWithoutModel, DeferBundle
<1>23. ASSUME NEW r \in Runners, DocketStep(r) PROVE LinkInv'
  BY <1>7, <1>9, <1>10, <1>11, <1>13, <1>14, <1>20, <1>21, <1>22, <1>23 DEF DocketStep
<1> QED
  BY <1>2, <1>3, <1>4, <1>5, <1>6, <1>17, <1>18, <1>19, <1>21, <1>23 DEF DocketNext

-----------------------------------------------------------------------------
LEMMA DocketInvHolds == DocketSpec => [](DocketInv /\ LinkInv)
<1>1. DocketInit => DocketInv /\ LinkInv
  BY InitTypeOK, SessionInit, LinkInit DEF SessionInv, DocketInv
<1>2. DocketInv /\ LinkInv /\ [DocketNext]_docketVars => (DocketInv /\ LinkInv)'
  BY TypeStep, SessionStep, LinkStep DEF SessionInv, DocketInv
<1> QED  BY <1>1, <1>2, PTL DEF DocketSpec

(* Whatever visitors and syncers do at once, and wherever they fail, a stored *)
(* entry carries the evidence its text calls for exactly once: the three       *)
(* commits of attempt_auto_link and the early one of the router leave none     *)
(* without it, and no second runner adds another.                              *)
THEOREM EntriesAreMatchedOnce == DocketSpec => []DocketInv
BY DocketInvHolds, PTL

(* A docket is linked to an issuer by strong signals or by a person, and an    *)
(* attempt is recorded as verified only of a docket that is linked.            *)
THEOREM LinksHaveReasons == DocketSpec => []LinksAreJustified
<1>1. LinkInv => LinksAreJustified  BY DEF LinkInv
<1> QED  BY <1>1, DocketInvHolds, PTL

-----------------------------------------------------------------------------
(* The orchestrator on top of them: what a visit knows. *)

Walking == {"sync", "page", "match", "alert"}

\* One runner goes on, the others stay where they are.
OneMoves(r) ==
    \A q \in Runners \ {r} :
        /\ pc'[q] = pc[q] /\ job'[q] = job[q] /\ issuer'[q] = issuer[q]
        /\ docket'[q] = docket[q] /\ outcome'[q] = outcome[q]

\* A visit that has called attempt_auto_link.
InVisit(r) == visit[r] \in Issuers /\ visit[r] \in onFile /\ "courtlistener" \in Configured

VisitKnown(r) ==
    /\ pc[r] \in {"search", "record", "done"} => InVisit(r) /\ visit[r] = issuer[r] /\ job[r] = "link"
    /\ pc[r] \in Walking => IF job[r] = "link" THEN InVisit(r) /\ visit[r] = issuer[r]
                            ELSE visit[r] = None
    /\ pc[r] = "raised" => InVisit(r)
    /\ pc[r] = "done" => \E a \in attempts : a.issuer = issuer[r] /\ a.outcome = outcome[r]

\* A docket that was linked by the matcher, is about to be on record as such, or is.
AutoLinked(d, i) == link[d] = i /\ <<i, d>> \notin Curated

InFlight(r) ==
    job[r] = "link" /\ outcome[r] = "verified_docket_match" /\ pc[r] \in Walking \cup {"record"}

TiedTo(d, i) ==
    \/ AutoLinked(d, i)
    \/ \E r \in Runners : InFlight(r) /\ issuer[r] = i /\ docket[r] = d
    \/ \E a \in attempts : a.outcome = "verified_docket_match" /\ a.issuer = i /\ a.docket = d

\* Unless a search overlooked a docket on record, an issuer is tied to one at most,
\* and that one passes.
TiesAgree ==
    \A i \in Issuers \ overlooked : \A d \in Dockets : TiedTo(d, i) =>
        /\ Passes(i, d)
        /\ \A c \in Dockets : TiedTo(c, i) => c = d

LinkedAfterSec ==
    \A d \in Dockets, i \in Issuers : AutoLinked(d, i) => i \in onFile /\ "courtlistener" \in Configured

StatusKnown(i) ==
    LET s == status[i]["courtlistener"] IN
    /\ s \in {"complete", "no_data", "manual_review_required"} =>
          i \in onFile /\ \E a \in attempts : a.issuer = i /\ StatusOf(a.outcome) = s
    /\ s = "unavailable" => "courtlistener" \notin Configured
    /\ s = "unsupported" /\ i \notin overlooked =>
          /\ \A d \in Dockets : ~AutoLinked(d, i)
          /\ \A r \in Runners : visit[r] = i => pc[r] = "idle"

EnrichInv ==
    /\ TypeOK /\ DocketInv /\ LinkInv
    /\ TiesAgree /\ LinkedAfterSec
    /\ \A r \in Runners : VisitKnown(r)
    /\ \A i \in Issuers : StatusKnown(i)

LEMMA EnrichInit == Init => EnrichInv
<1> SUFFICES ASSUME Init PROVE EnrichInv
  OBVIOUS
<1>1. DocketInit  BY DEF Init
<1>2. TypeOK  BY <1>1, InitTypeOK, EnrichmentAssumption DEF Init, TypeOK
<1>3. DocketInv /\ LinkInv  BY <1>1, InitTypeOK, SessionInit, LinkInit DEF DocketInv, SessionInv
<1>5. ASSUME NEW d \in Dockets, NEW i \in Issuers PROVE ~TiedTo(d, i) /\ ~AutoLinked(d, i)
  <2>1. link[d] = None /\ attempts = {} /\ \A r \in Runners : pc[r] = "idle"
    BY <1>1 DEF DocketInit
  <2>2. i # None  BY DocketAssumption
  <2> QED  BY <2>1, <2>2 DEF TiedTo, AutoLinked, InFlight, Walking
<1>6. TiesAgree /\ LinkedAfterSec  BY <1>5 DEF TiesAgree, LinkedAfterSec
<1>7. ASSUME NEW r \in Runners PROVE VisitKnown(r)
  BY <1>1 DEF DocketInit, VisitKnown, Walking
<1>8. ASSUME NEW i \in Issuers PROVE StatusKnown(i)
  <2>1. status[i]["courtlistener"] = None  BY DEF Init, Providers
  <2>2. None \notin Statuses  BY EnrichmentAssumption
  <2> QED  BY <2>1, <2>2 DEF StatusKnown, Statuses
<1> QED  BY <1>2, <1>3, <1>6, <1>7, <1>8 DEF EnrichInv

-----------------------------------------------------------------------------
(* Steps of the dockets. *)

\* A runner goes on in its walk, or gives up.
Walks(r) ==
    /\ OneMoves(r) /\ UNCHANGED <<link, attempts, overlooked>>
    /\ pc[r] \in Walking /\ pc'[r] \in Walking \cup {"record"}
    /\ pc'[r] = "record" => job[r] = "link"
    /\ job'[r] = job[r] /\ issuer'[r] = issuer[r] /\ docket'[r] = docket[r] /\ outcome'[r] = outcome[r]

Drops(r) ==
    /\ OneMoves(r) /\ UNCHANGED <<link, attempts, overlooked>>
    /\ \/ pc'[r] = "idle"
       \/ pc'[r] = "raised" /\ job[r] = "link" /\ pc[r] \in Walking \cup {"search", "record"}

LEMMA RaiseDrops ==
    ASSUME DocketTypeOK, NEW r \in Runners, Busy(r), Raise(r), UNCHANGED overlooked
    PROVE  Drops(r)
<1>1. /\ UNCHANGED <<link, attempts, overlooked>>
      /\ \/ job[r] = "link" /\ pc' = [pc EXCEPT ![r] = "raised"]
         \/ pc' = [pc EXCEPT ![r] = "idle"]
  BY DEF Raise, Goto, tables
<1>2. OneMoves(r)  BY <1>1 DEF Raise, EndTask, OneMoves, DocketTypeOK
<1>3. \/ pc'[r] = "idle"
      \/ pc'[r] = "raised" /\ job[r] = "link" /\ pc[r] \in Walking \cup {"search", "record"}
  BY <1>1 DEF Busy, Walking, DocketTypeOK
<1> QED  BY <1>1, <1>2, <1>3 DEF Drops

LEMMA StepShapes ==
    ASSUME DocketTypeOK, NEW r \in Runners, DocketStep(r) \/ SourceFails(r)
    PROVE  Search(r) \/ RecordAttempt(r) \/ Walks(r) \/ Drops(r)
<1> USE DEF Goto, tables, session, walk, task, history, Walking
<1>1. CASE SourceFails(r)
  BY <1>1, RaiseDrops DEF SourceFails
<1>2. CASE InsertConflicts(r)
  <2>1. Busy(r) /\ Raise(r) /\ UNCHANGED overlooked  BY <1>2 DEF InsertConflicts, Busy
  <2> QED  BY <2>1, RaiseDrops
<1>8. CASE EvidenceGone(r)
  <2>1. Busy(r) /\ Raise(r) /\ UNCHANGED overlooked  BY <1>8 DEF EvidenceGone, Busy
  <2> QED  BY <2>1, RaiseDrops
<1>3. CASE BeginWalk(r)
  BY <1>3 DEF BeginWalk, Walks, OneMoves, DocketTypeOK
<1>4. CASE FetchPage(r)
  BY <1>4 DEF FetchPage, Walks, OneMoves, DocketTypeOK
<1>5. CASE MatchBatch(r)
  BY <1>5 DEF MatchBatch, Walks, OneMoves, DocketTypeOK
<1>6. ASSUME NEW e \in Entries,
             SkipBundle(r, e) \/ AlertWithoutModel(r, e) \/ AlertAfterModel(r, e) \/ DeferBundle(r, e)
      PROVE  Walks(r)
  <2>1. TakeBundle(r, e)  BY <1>6 DEF SkipBundle, AlertWithoutModel, AlertAfterModel, DeferBundle
  <2> QED  BY <2>1 DEF TakeBundle, Walks, OneMoves, DocketTypeOK
<1>7. CASE CommitSync(r)
  <2>1. UNCHANGED <<link, attempts, overlooked>> /\ pc[r] = "alert"  BY <1>7 DEF CommitSync
  <2>2. CASE job[r] = "link" /\ Goto(r, "record") /\ UNCHANGED task
    BY <2>1, <2>2 DEF Walks, OneMoves, DocketTypeOK
  <2>3. CASE Goto(r, "idle") /\ EndTask(r)
    BY <2>1, <2>3 DEF EndTask, Drops, OneMoves, DocketTypeOK
  <2> QED  BY <1>7, <2>2, <2>3 DEF CommitSync
<1> QED  BY <1>1, <1>2, <1>3, <1>4, <1>5, <1>6, <1>7, <1>8 DEF DocketStep

-----------------------------------------------------------------------------
(* Steps of the orchestrator. *)

\* Where a step leaves the runners' places and the tables of links alone.
DocketsRest ==
    /\ UNCHANGED <<link, attempts, pc, job, issuer, docket, outcome>>
    /\ overlooked \subseteq overlooked'

\* What no step but those of a visit's end takes away.
EnrichRests ==
    /\ onFile \subseteq onFile'
    /\ \A r \in Runners : visit'[r] = visit[r] \/ pc[r] = "idle"
    /\ \A i \in Issuers :
          \/ status'[i]["courtlistener"] = status[i]["courtlistener"]
          \/ status'[i]["courtlistener"] = "unavailable" /\ "courtlistener" \notin Configured
          \/ status'[i]["courtlistener"] = "unsupported" /\ (i \notin onFile' \/ i \in overlooked')

StartsLink(r) ==
    LET i == visit[r] IN
    /\ i \in onFile /\ "courtlistener" \in Configured /\ ShouldRun(i, "courtlistener")
    /\ StartAutoLink(r, i)
    /\ UNCHANGED enrichVars

StepKinds ==
    \/ DocketsRest /\ EnrichRests /\ (UNCHANGED docketVars \/ \E i \in Issuers : OverlookEvidence(i))
    \/ \E e \in Entries : Publish(e) /\ UNCHANGED enrichVars
    \/ \E i \in Issuers, d \in Dockets : LinkCurated(i, d) /\ UNCHANGED enrichVars
    \/ \E r \in Runners :
          \/ StartsLink(r) /\ visit[r] \in Issuers
          \/ \E d \in Dockets : visit[r] = None /\ StartSync(r, d) /\ UNCHANGED enrichVars
          \/ (DocketStep(r) \/ SourceFails(r)) /\ UNCHANGED enrichVars
          \/ AutoLinkReturns(r)
          \/ ProcessDies(r)

\* Only a step for CourtListener writes its status.
LEMMA RecordsOther ==
    ASSUME TypeOK, NEW r \in Runners, visit[r] # None, NEW p \in Providers, NEW s,
           Record(r, p, s), p # "courtlistener"
    PROVE  \A i \in Issuers : status'[i]["courtlistener"] = status[i]["courtlistener"]
<1>1. "courtlistener" \in Providers /\ status \in [Issuers -> [Providers -> Statuses \cup {None}]]
  BY DEF TypeOK, Providers
<1>2. visit[r] \in Issuers  BY DEF TypeOK
<1> QED  BY <1>1, <1>2 DEF Record

LEMMA RecordsItsOwn ==
    ASSUME TypeOK, NEW r \in Runners, visit[r] # None, NEW s, Record(r, "courtlistener", s)
    PROVE  /\ visit[r] \in Issuers /\ UNCHANGED visit
           /\ \A i \in Issuers :
                 status'[i]["courtlistener"] =
                     IF i = visit[r] THEN s ELSE status[i]["courtlistener"]
<1>1. "courtlistener" \in Providers /\ status \in [Issuers -> [Providers -> Statuses \cup {None}]]
  BY DEF TypeOK, Providers
<1>2. visit[r] \in Issuers  BY DEF TypeOK
<1> QED  BY <1>1, <1>2 DEF Record

LEMMA NextKinds == EnrichInv /\ [Next]_vars => StepKinds
<1> SUFFICES ASSUME EnrichInv, [Next]_vars PROVE StepKinds
  OBVIOUS
<1>0. TypeOK /\ Enriched \subseteq Issuers  BY EnrichmentAssumption DEF EnrichInv
<1>1. ASSUME UNCHANGED docketVars, EnrichRests PROVE StepKinds
  <2>1. DocketsRest  BY <1>0, <1>1 DEF docketVars, tables, task, history, DocketsRest
  <2> QED  BY <1>1, <2>1 DEF StepKinds
<1>2. ASSUME UNCHANGED docketVars, UNCHANGED <<onFile, status>>,
             \A r \in Runners : visit'[r] = visit[r] \/ pc[r] = "idle"
      PROVE  StepKinds
  BY <1>1, <1>2 DEF EnrichRests
<1>3. ASSUME UNCHANGED docketVars, onFile \subseteq onFile', UNCHANGED visit,
             \A i \in Issuers : status'[i]["courtlistener"] = status[i]["courtlistener"]
      PROVE  StepKinds
  BY <1>1, <1>3 DEF EnrichRests
<1>4. ASSUME NEW i \in Issuers, MonitorStores(i) PROVE StepKinds
  BY <1>3, <1>4 DEF MonitorStores
<1>5. ASSUME Tick PROVE StepKinds
  BY <1>3, <1>5 DEF Tick
<1>6. ASSUME NEW r \in Runners, NEW i \in Issuers, StartVisit(r, i) PROVE StepKinds
  <2>1. \A q \in Runners : visit'[q] = visit[q] \/ pc[q] = "idle"
    BY <1>0, <1>6 DEF StartVisit, TypeOK
  <2> QED  BY <1>2, <1>6, <2>1 DEF StartVisit
<1>7. ASSUME NEW r \in Runners, EndVisit(r) PROVE StepKinds
  <2>1. \A q \in Runners : visit'[q] = visit[q] \/ pc[q] = "idle"
    BY <1>0, <1>7 DEF EndVisit, TypeOK
  <2> QED  BY <1>2, <1>7, <2>1 DEF EndVisit
<1>8. ASSUME NEW r \in Runners, NEW p \in Providers, SkipProvider(r, p) PROVE StepKinds
  BY <1>3, <1>8 DEF SkipProvider
<1>9. ASSUME NEW r \in Runners, EnrichSec(r) PROVE StepKinds
  <2>1. visit[r] # None /\ UNCHANGED docketVars /\ onFile \subseteq onFile'
    BY <1>9 DEF EnrichSec, Turn
  <2>2. PICK s : Record(r, "sec_edgar", s)  BY <1>9 DEF EnrichSec
  <2>3. "sec_edgar" \in Providers /\ "sec_edgar" # "courtlistener"  BY DEF Providers
  <2>4. \A i \in Issuers : status'[i]["courtlistener"] = status[i]["courtlistener"]
    BY <1>0, <2>1, <2>2, <2>3, RecordsOther
  <2> QED  BY <1>3, <2>1, <2>2, <2>4 DEF Record
<1>10. ASSUME NEW r \in Runners, EnrichFigi(r) PROVE StepKinds
  <2>1. visit[r] # None /\ UNCHANGED <<docketVars, onFile>>
    BY <1>10 DEF EnrichFigi, Turn
  <2>2. PICK s : Record(r, "openfigi", s)  BY <1>10 DEF EnrichFigi
  <2>3. "openfigi" \in Providers /\ "openfigi" # "courtlistener"  BY DEF Providers
  <2>4. \A i \in Issuers : status'[i]["courtlistener"] = status[i]["courtlistener"]
    BY <1>0, <2>1, <2>2, <2>3, RecordsOther
  <2> QED  BY <1>3, <2>1, <2>2, <2>4 DEF Record
<1>11. ASSUME NEW r \in Runners, NEW p \in Providers, ProviderFails(r, p) PROVE StepKinds
  <2>1. visit[r] # None /\ UNCHANGED docketVars /\ onFile \subseteq onFile'
    BY <1>11 DEF ProviderFails, Turn
  <2>2. Record(r, p, "failed_retryable") /\ p # "courtlistener"  BY <1>11 DEF ProviderFails
  <2>4. \A i \in Issuers : status'[i]["courtlistener"] = status[i]["courtlistener"]
    BY <1>0, <2>1, <2>2, RecordsOther
  <2> QED  BY <1>3, <2>1, <2>2, <2>4 DEF Record
<1>12. ASSUME NEW r \in Runners, EnrichCourtListener(r) PROVE StepKinds
  <2>1. visit[r] # None /\ ShouldRun(visit[r], "courtlistener") /\ UNCHANGED onFile
    BY <1>12 DEF EnrichCourtListener, Turn
  <2>2. visit[r] \in Issuers  BY <1>0, <2>1 DEF TypeOK
  <2>3. CASE /\ "courtlistener" \notin Configured
             /\ Record(r, "courtlistener", "unavailable") /\ UNCHANGED docketVars
    BY <1>0, <1>1, <2>1, <2>3, RecordsItsOwn DEF EnrichRests
  <2>4. CASE /\ visit[r] \notin onFile
             /\ Record(r, "courtlistener", "unsupported") /\ UNCHANGED docketVars
    BY <1>0, <1>1, <2>1, <2>4, RecordsItsOwn DEF EnrichRests
  <2>6. CASE Record(r, "courtlistener", "unsupported") /\ OverlookEvidence(visit[r])
    <3>1. DocketsRest /\ visit[r] \in overlooked'
      BY <2>6 DEF OverlookEvidence, DocketsRest, tables, task
    <3>2. EnrichRests  BY <1>0, <2>1, <2>6, <3>1, RecordsItsOwn DEF EnrichRests
    <3> QED  BY <2>2, <2>6, <3>1, <3>2 DEF StepKinds
  <2>5. CASE /\ "courtlistener" \in Configured /\ visit[r] \in onFile
             /\ StartAutoLink(r, visit[r]) /\ UNCHANGED <<status, age, visit, left>>
    <3>1. UNCHANGED enrichVars  BY <2>1, <2>5 DEF enrichVars
    <3>2. StartsLink(r)  BY <2>1, <2>5, <3>1 DEF StartsLink
    <3> QED  BY <2>2, <3>2 DEF StepKinds
  <2> QED  BY <1>12, <2>3, <2>4, <2>5, <2>6 DEF EnrichCourtListener
<1>13. CASE UNCHANGED vars
  BY <1>3, <1>13 DEF vars, enrichVars
<1>14. CASE Next
  <2>1. ASSUME NEW r \in Runners, RunnerStep(r) PROVE StepKinds
    <3>1. CASE DocketStep(r) /\ UNCHANGED enrichVars  BY <3>1 DEF StepKinds
    <3>2. CASE AutoLinkReturns(r)  BY <3>2 DEF StepKinds
    <3> QED  BY <2>1, <3>1, <3>2, <1>7, <1>8, <1>9, <1>10, <1>12 DEF RunnerStep
  <2>2. ASSUME NEW r \in Runners, ProcessDies(r) PROVE StepKinds
    BY <2>2 DEF StepKinds
  <2>3. ASSUME NEW r \in Runners, NEW d \in Dockets,
               visit[r] = None, StartSync(r, d), UNCHANGED enrichVars
        PROVE  StepKinds
    BY <2>3 DEF StepKinds
  <2>4. CASE \/ \E e \in Entries : Publish(e) /\ UNCHANGED enrichVars
             \/ \E i \in Issuers, d \in Dockets : LinkCurated(i, d) /\ UNCHANGED enrichVars
    BY <2>4 DEF StepKinds
  <2>5. CASE (\E i \in Enriched : MonitorStores(i)) \/ Tick
    BY <2>5, <1>0, <1>4, <1>5
  <2>6. CASE \E r \in Runners :
                \/ \E i \in Enriched : StartVisit(r, i)
                \/ \E d \in Dockets : visit[r] = None /\ StartSync(r, d) /\ UNCHANGED enrichVars
                \/ RunnerStep(r)
                \/ \E p \in Providers : ProviderFails(r, p)
                \/ SourceFails(r) /\ UNCHANGED enrichVars
                \/ ProcessDies(r)
    <3>1. PICK r \in Runners :
             \/ \E i \in Enriched : StartVisit(r, i)
             \/ \E d \in Dockets : visit[r] = None /\ StartSync(r, d) /\ UNCHANGED enrichVars
             \/ RunnerStep(r)
             \/ \E p \in Providers : ProviderFails(r, p)
             \/ SourceFails(r) /\ UNCHANGED enrichVars
             \/ ProcessDies(r)
      BY <2>6
    <3>2. CASE \E i \in Enriched : StartVisit(r, i)  BY <1>0, <3>2, <1>6
    <3>3. CASE \E d \in Dockets : visit[r] = None /\ StartSync(r, d) /\ UNCHANGED enrichVars
      BY <3>3, <2>3
    <3>4. CASE \E p \in Providers : ProviderFails(r, p)  BY <3>4, <1>11
    <3>5. CASE SourceFails(r) /\ UNCHANGED enrichVars  BY <3>5 DEF StepKinds
    <3>6. CASE RunnerStep(r)  BY <3>6, <2>1
    <3>7. CASE ProcessDies(r)  BY <3>7, <2>2
    <3> QED  BY <3>1, <3>2, <3>3, <3>4, <3>5, <3>6, <3>7
  <2> QED  BY <1>14, <2>4, <2>5, <2>6 DEF Next
<1> QED  BY <1>13, <1>14

LEMMA KindsAreDocketSteps == StepKinds => [DocketNext]_docketVars
<1> SUFFICES ASSUME StepKinds PROVE [DocketNext]_docketVars
  OBVIOUS
<1>1. ASSUME NEW r \in Runners, AutoLinkReturns(r) PROVE DocketNext
  BY <1>1 DEF AutoLinkReturns, DocketNext
<1>2. ASSUME NEW r \in Runners, ProcessDies(r) PROVE DocketNext
  BY <1>2 DEF ProcessDies, DocketNext
<1>3. ASSUME NEW r \in Runners, StartsLink(r), visit[r] \in Issuers PROVE DocketNext
  BY <1>3 DEF StartsLink, DocketNext
<1>4. ASSUME NEW r \in Runners, NEW d \in Dockets, StartSync(r, d) PROVE DocketNext
  BY <1>4 DEF DocketNext
<1>5. ASSUME NEW r \in Runners, DocketStep(r) \/ SourceFails(r) PROVE DocketNext
  BY <1>5 DEF DocketNext
<1>6. ASSUME NEW e \in Entries, Publish(e) PROVE DocketNext
  BY <1>6 DEF DocketNext
<1>7. ASSUME NEW i \in Issuers, OverlookEvidence(i) PROVE DocketNext
  BY <1>7 DEF DocketNext
<1>8. ASSUME NEW i \in Issuers, NEW d \in Dockets, LinkCurated(i, d) PROVE DocketNext
  BY <1>8 DEF DocketNext
<1> QED  BY <1>1, <1>2, <1>3, <1>4, <1>5, <1>6, <1>7, <1>8 DEF StepKinds

-----------------------------------------------------------------------------
(* Ties. *)

LinksAsBefore ==
    \A i \in Issuers : \A d \in Dockets : AutoLinked(d, i)' => AutoLinked(d, i)

FlightsAsBefore ==
    \A q \in Runners : InFlight(q)' => InFlight(q) /\ issuer'[q] = issuer[q] /\ docket'[q] = docket[q]

TiesAsBefore ==
    \A i \in Issuers : \A d \in Dockets : TiedTo(d, i)' => TiedTo(d, i)

LEMMA FlightsTie ==
    ASSUME UNCHANGED attempts, LinksAsBefore, FlightsAsBefore
    PROVE  TiesAsBefore
BY DEF TiesAsBefore, LinksAsBefore, FlightsAsBefore, TiedTo

LEMMA PassesIsConstant == \A i, d : Passes(i, d)' = Passes(i, d)
BY DEF Passes, StrongSignals

\* What an issuer is tied to is linked, to whomever.
LEMMA TiesAreLinked ==
    ASSUME LinkInv, NEW i \in Issuers, NEW d \in Dockets, TiedTo(d, i)
    PROVE  link[d] # None
<1>1. CASE AutoLinked(d, i)
  BY <1>1, DocketAssumption DEF AutoLinked
<1>2. ASSUME NEW r \in Runners, InFlight(r), docket[r] = d PROVE link[d] # None
  <2>1. InHand(r)  BY LinkInvByParts
  <2> QED  BY <1>2, <2>1 DEF InFlight, InHand, Matched, Walking
<1>3. ASSUME NEW a \in attempts, a.outcome = "verified_docket_match", a.docket = d
      PROVE  link[d] # None
  <2>1. Founded(a)  BY LinkInvByParts
  <2> QED  BY <1>3, <2>1 DEF Founded
<1> QED  BY <1>1, <1>2, <1>3 DEF TiedTo

LEMMA TiesStay ==
    ASSUME TiesAgree, TiesAsBefore, overlooked \subseteq overlooked'
    PROVE  TiesAgree'
<1> SUFFICES ASSUME NEW i \in Issuers, i \notin overlooked', NEW d \in Dockets, TiedTo(d, i)'
             PROVE  /\ Passes(i, d)
                    /\ \A c \in Dockets : TiedTo(c, i)' => c = d
  BY PassesIsConstant DEF TiesAgree
<1>1. TiedTo(d, i) /\ i \in Issuers \ overlooked  BY DEF TiesAsBefore
<1>2. Passes(i, d) /\ \A c \in Dockets : TiedTo(c, i) => c = d
  BY <1>1 DEF TiesAgree
<1> QED  BY <1>2 DEF TiesAsBefore

\* A step of r alone whose link, if it had one in hand, is the one it had.
LEMMA LoneFlight ==
    ASSUME NEW r \in Runners, OneMoves(r),
           InFlight(r)' => InFlight(r) /\ issuer'[r] = issuer[r] /\ docket'[r] = docket[r]
    PROVE  FlightsAsBefore
<1> SUFFICES ASSUME NEW q \in Runners, InFlight(q)'
             PROVE  InFlight(q) /\ issuer'[q] = issuer[q] /\ docket'[q] = docket[q]
  BY DEF FlightsAsBefore
<1>1. CASE q = r  BY <1>1
<1>2. CASE q # r  BY <1>2 DEF OneMoves, InFlight
<1> QED  BY <1>1, <1>2

LEMMA CuratedTies ==
    ASSUME TypeOK, NEW i \in Issuers, NEW d \in Dockets, LinkCurated(i, d)
    PROVE  LinksAsBefore
<1> SUFFICES ASSUME NEW j \in Issuers, NEW c \in Dockets, AutoLinked(c, j)' PROVE AutoLinked(c, j)
  BY DEF LinksAsBefore
<1>1. link \in [Dockets -> Issuers \cup {None}]  BY DEF TypeOK, DocketTypeOK
<1>2. link'[c] = IF c = d /\ link[d] = None THEN i ELSE link[c]
  BY <1>1 DEF LinkCurated, Linked
<1>3. <<i, d>> \in Curated  BY DEF LinkCurated
<1>4. CASE c = d /\ link[d] = None
  BY <1>2, <1>3, <1>4 DEF AutoLinked
<1>5. CASE ~(c = d /\ link[d] = None)
  BY <1>2, <1>5 DEF AutoLinked
<1> QED  BY <1>4, <1>5

\* A search that matches found the only docket that passes.
LEMMA MatchIsAlone ==
    ASSUME NEW i \in Issuers, NEW found \in SUBSET Dockets,
           MatchOutcome(i, found) = "verified_docket_match",
           NEW c \in Passing(i, found), NEW d \in Passing(i, found)
    PROVE  c = d
<1> DEFINE P == Passing(i, found)
<1>1. IsFiniteSet(P)
  <2>1. IsFiniteSet(Dockets) /\ P \subseteq Dockets  BY DocketAssumption DEF Passing
  <2> QED  BY <2>1, FS_Subset
<1>2. P # {} /\ ~(Cardinality(P) > 1)  BY DEF MatchOutcome
<1>3. Cardinality(P) \in Nat /\ Cardinality(P) # 0  BY <1>1, <1>2, FS_CardinalityType, FS_EmptySet
<1>4. Cardinality(P) = 1  BY <1>2, <1>3
<1> HIDE DEF P
<1>5. \E x : P = {x}  BY <1>1, <1>4, FS_Singleton
<1> QED  BY <1>5 DEF P

LEMMA SearchTies ==
    ASSUME EnrichInv, NEW r \in Runners, Search(r)
    PROVE  TiesAgree'
<1>0. DocketTypeOK /\ TypeOK /\ TiesAgree /\ VisitKnown(r) /\ LinkInv
  BY DEF EnrichInv, TypeOK
<1>1. PICK found \in SUBSET Dockets : Finds(r, found)  BY SearchFinds
<1>2. PICK i : i = issuer[r]  OBVIOUS
<1>3. pc[r] = "search" /\ UNCHANGED <<attempts, job, issuer>> /\ Overlook(i, found)
      /\ outcome' = [outcome EXCEPT ![r] = MatchOutcome(i, found)]
  BY <1>1, <1>2 DEF Finds
<1>4. i \in Issuers  BY <1>0, <1>2, <1>3, LinkInvByParts DEF InHand
<1>5. overlooked \subseteq overlooked'  BY <1>3 DEF Overlook
<1>6. CASE MatchOutcome(i, found) # "verified_docket_match"
  <2>1. pc' = [pc EXCEPT ![r] = "record"] /\ UNCHANGED <<docket, link>>
    BY <1>1, <1>2, <1>6 DEF Finds, Goto
  <2>2. OneMoves(r) /\ outcome'[r] # "verified_docket_match"
    BY <1>0, <1>3, <1>6, <2>1 DEF OneMoves, DocketTypeOK
  <2>3. FlightsAsBefore  BY <2>2, LoneFlight DEF InFlight
  <2>4. LinksAsBefore  BY <2>1 DEF LinksAsBefore, AutoLinked
  <2> QED  BY <1>0, <1>3, <1>5, <2>3, <2>4, FlightsTie, TiesStay
<1>7. CASE MatchOutcome(i, found) = "verified_docket_match"
  <2>1. PICK d \in Passing(i, found) : Links(r, d)
    BY <1>1, <1>2, <1>7 DEF Finds
  <2>2. d \in Dockets /\ Passes(i, d)  BY <2>1 DEF Passing
  <2>3. docket' = [docket EXCEPT ![r] = d] /\ link' = Linked(i, d)  BY <1>2, <2>1 DEF Links
  <2>4. pc' = [pc EXCEPT ![r] = "sync"]  BY <1>1, <1>2, <1>7 DEF Finds, Goto
  <2>5. OneMoves(r) /\ docket'[r] = d
    BY <1>0, <1>3, <2>3, <2>4 DEF OneMoves, DocketTypeOK
  <2>6. ASSUME NEW j \in Issuers, NEW c \in Dockets, AutoLinked(c, j)'
        PROVE  AutoLinked(c, j) \/ (j = i /\ c = d)
    <3>1. link'[c] = IF c = d /\ link[d] = None THEN i ELSE link[c]
      BY <1>0, <2>2, <2>3 DEF Linked, DocketTypeOK
    <3>2. link'[c] = j /\ <<j, c>> \notin Curated  BY <2>6 DEF AutoLinked
    <3>3. CASE c = d /\ link[d] = None  BY <3>1, <3>2, <3>3
    <3>4. CASE ~(c = d /\ link[d] = None)  BY <3>1, <3>2, <3>4 DEF AutoLinked
    <3> QED  BY <3>3, <3>4
  <2>7. ASSUME NEW j \in Issuers, NEW c \in Dockets, TiedTo(c, j)'
        PROVE  TiedTo(c, j) \/ (j = i /\ c = d)
    <3>1. CASE AutoLinked(c, j)'  BY <2>6, <3>1 DEF TiedTo
    <3>2. ASSUME NEW a \in attempts', a.outcome = "verified_docket_match", a.issuer = j, a.docket = c
          PROVE  TiedTo(c, j) \/ (j = i /\ c = d)
      <4>1. a \in attempts  BY <1>3
      <4> QED  BY <3>2, <4>1 DEF TiedTo
    <3>3. ASSUME NEW q \in Runners, InFlight(q)', issuer'[q] = j, docket'[q] = c
          PROVE  TiedTo(c, j) \/ (j = i /\ c = d)
      <4>1. CASE q = r  BY <1>2, <1>3, <2>5, <3>3, <4>1
      <4>2. CASE q # r
        <5>1. InFlight(q) /\ issuer[q] = j /\ docket[q] = c
          BY <2>5, <3>3, <4>2 DEF OneMoves, InFlight
        <5> QED  BY <5>1 DEF TiedTo
      <4> QED  BY <4>1, <4>2
    <3> QED  BY <2>7, <3>1, <3>2, <3>3 DEF TiedTo
  <2> SUFFICES ASSUME NEW j \in Issuers, j \notin overlooked', NEW c \in Dockets, TiedTo(c, j)'
               PROVE  /\ Passes(j, c)
                      /\ \A b \in Dockets : TiedTo(b, j)' => b = c
    BY PassesIsConstant DEF TiesAgree
  <2>8. j \in Issuers \ overlooked  BY <1>5
  <2>9. CASE j = i
    <3>1. ASSUME NEW b \in Dockets, TiedTo(b, j)' PROVE b = d
      <4>1. CASE TiedTo(b, i)
        <5>1. Passes(i, b) /\ link[b] # None
          BY <1>0, <1>4, <2>8, <2>9, <4>1, TiesAreLinked DEF TiesAgree
        <5>2. b \in found  BY <1>3, <1>4, <2>9, <5>1 DEF Overlook
        <5>3. b \in Passing(i, found)  BY <5>1, <5>2 DEF Passing
        <5> QED  BY <1>4, <1>7, <5>3, MatchIsAlone
      <4> QED  BY <2>7, <2>9, <3>1, <4>1
    <3> QED  BY <2>2, <2>9, <3>1
  <2>10. CASE j # i
    BY <1>0, <2>7, <2>8, <2>10 DEF TiesAgree
  <2> QED  BY <2>9, <2>10
<1> QED  BY <1>6, <1>7

LEMMA RecordTies ==
    ASSUME EnrichInv, NEW r \in Runners, RecordAttempt(r)
    PROVE  TiesAgree'
<1>0. DocketTypeOK /\ TiesAgree /\ VisitKnown(r)  BY DEF EnrichInv, TypeOK
<1>1. /\ pc[r] = "record" /\ pc'[r] = "done" /\ OneMoves(r) /\ job[r] = "link"
      /\ UNCHANGED <<link, overlooked, issuer, docket, outcome>>
  BY <1>0 DEF RecordAttempt, Goto, OneMoves, task, history, VisitKnown, DocketTypeOK
<1>2. FlightsAsBefore  BY <1>1, LoneFlight DEF InFlight, Walking
<1>3. ASSUME NEW i \in Issuers, NEW d \in Dockets, TiedTo(d, i)' PROVE TiedTo(d, i)
  <2>1. CASE AutoLinked(d, i)'  BY <1>1, <2>1 DEF TiedTo, AutoLinked
  <2>2. ASSUME NEW q \in Runners, InFlight(q)', issuer'[q] = i, docket'[q] = d PROVE TiedTo(d, i)
    BY <1>2, <2>2 DEF FlightsAsBefore, TiedTo
  <2>3. ASSUME NEW a \in attempts', a.outcome = "verified_docket_match", a.issuer = i, a.docket = d
        PROVE  TiedTo(d, i)
    <3>1. CASE a \in attempts  BY <2>3, <3>1 DEF TiedTo
    <3>2. CASE a = [issuer |-> issuer[r], outcome |-> outcome[r], docket |-> docket[r]]
      <4>1. issuer[r] = i /\ docket[r] = d /\ outcome[r] = "verified_docket_match"  BY <2>3, <3>2
      <4>2. InFlight(r)  BY <1>1, <4>1 DEF InFlight
      <4> QED  BY <4>1, <4>2 DEF TiedTo
    <3> QED  BY <2>3, <3>1, <3>2 DEF RecordAttempt
  <2> QED  BY <1>3, <2>1, <2>2, <2>3 DEF TiedTo
<1>4. TiesAsBefore  BY <1>3 DEF TiesAsBefore
<1> QED  BY <1>0, <1>1, <1>4, TiesStay

\* Where a step of r leaves links and attempts, and what r holds is what it held or nothing.
LEMMA LoneTies ==
    ASSUME TiesAgree, NEW r \in Runners, OneMoves(r), UNCHANGED <<link, attempts, overlooked>>,
           InFlight(r)' => InFlight(r) /\ issuer'[r] = issuer[r] /\ docket'[r] = docket[r]
    PROVE  TiesAgree'
<1>1. LinksAsBefore  BY DEF LinksAsBefore, AutoLinked
<1>2. FlightsAsBefore  BY LoneFlight
<1> QED  BY <1>1, <1>2, FlightsTie, TiesStay

LEMMA TiesStep == EnrichInv /\ StepKinds => TiesAgree'
<1> SUFFICES ASSUME EnrichInv, StepKinds PROVE TiesAgree'
  OBVIOUS
<1>0. TypeOK /\ DocketTypeOK /\ TiesAgree  BY DEF EnrichInv, TypeOK
<1>1. ASSUME UNCHANGED <<link, attempts, pc, job, issuer, docket, outcome>>, overlooked \subseteq overlooked'
      PROVE  TiesAgree'
  <2>1. LinksAsBefore /\ FlightsAsBefore  BY <1>1 DEF LinksAsBefore, AutoLinked, FlightsAsBefore, InFlight
  <2> QED  BY <1>0, <1>1, <2>1, FlightsTie, TiesStay
<1>2. CASE DocketsRest
  BY <1>1, <1>2 DEF DocketsRest
<1>3. ASSUME NEW e \in Entries, Publish(e) PROVE TiesAgree'
  BY <1>1, <1>3 DEF Publish, tables, task, history
<1>5. ASSUME NEW i \in Issuers, NEW d \in Dockets, LinkCurated(i, d) PROVE TiesAgree'
  <2>1. UNCHANGED <<attempts, overlooked, pc, job, issuer, docket, outcome>>
    BY <1>5 DEF LinkCurated, history, task
  <2>2. LinksAsBefore  BY <1>0, <1>5, CuratedTies
  <2>3. FlightsAsBefore  BY <2>1 DEF FlightsAsBefore, InFlight
  <2> QED  BY <1>0, <2>1, <2>2, <2>3, FlightsTie, TiesStay
<1>6. ASSUME NEW r \in Runners, StartsLink(r) PROVE TiesAgree'
  <2>1. OneMoves(r) /\ UNCHANGED <<link, attempts, overlooked>> /\ pc'[r] = "search"
    BY <1>0, <1>6 DEF StartsLink, StartAutoLink, Goto, OneMoves, history, tables, DocketTypeOK
  <2>2. ~InFlight(r)'  BY <2>1 DEF InFlight, Walking
  <2> QED  BY <1>0, <2>1, <2>2, LoneTies
<1>7. ASSUME NEW r \in Runners, NEW d \in Dockets, StartSync(r, d) PROVE TiesAgree'
  <2>1. OneMoves(r) /\ UNCHANGED <<link, attempts, overlooked>> /\ job'[r] = "sync"
    BY <1>0, <1>7 DEF StartSync, Goto, OneMoves, history, tables, DocketTypeOK
  <2>2. ~InFlight(r)'  BY <2>1 DEF InFlight
  <2> QED  BY <1>0, <2>1, <2>2, LoneTies
<1>8. ASSUME NEW r \in Runners, DocketStep(r) \/ SourceFails(r) PROVE TiesAgree'
  <2>1. CASE Walks(r)
    BY <1>0, <2>1, LoneTies DEF Walks, InFlight
  <2>2. CASE Drops(r)
    <3>1. ~InFlight(r)'  BY <2>2 DEF Drops, InFlight, Walking
    <3> QED  BY <1>0, <2>2, <3>1, LoneTies DEF Drops
  <2> QED  BY <1>0, <1>8, <2>1, <2>2, StepShapes, SearchTies, RecordTies
<1>9. ASSUME NEW r \in Runners, AutoLinkReturns(r) \/ ProcessDies(r) PROVE TiesAgree'
  <2>1. OneMoves(r) /\ UNCHANGED <<link, attempts, overlooked>> /\ pc'[r] = "idle"
    BY <1>0, <1>9 DEF AutoLinkReturns, ProcessDies, Return, Crash, EndTask, Goto, OneMoves,
                      history, tables, DocketTypeOK
  <2>2. ~InFlight(r)'  BY <2>1 DEF InFlight, Walking
  <2> QED  BY <1>0, <2>1, <2>2, LoneTies
<1> QED  BY <1>2, <1>3, <1>5, <1>6, <1>7, <1>8, <1>9 DEF StepKinds

-----------------------------------------------------------------------------
(* Visits. *)

\* What a runner knows does not depend on the others.
LEMMA VisitStays ==
    ASSUME NEW q \in Runners, VisitKnown(q), onFile \subseteq onFile', attempts \subseteq attempts',
           visit'[q] = visit[q] \/ pc[q] = "idle",
           pc'[q] = pc[q], job'[q] = job[q], issuer'[q] = issuer[q], outcome'[q] = outcome[q]
    PROVE  VisitKnown(q)'
<1>1. CASE pc[q] = "idle"  BY <1>1 DEF VisitKnown, Walking
<1>2. CASE pc[q] # "idle"
  <2>1. InVisit(q) => InVisit(q)'  BY <1>2 DEF InVisit
  <2> QED  BY <1>2, <2>1 DEF VisitKnown
<1> QED  BY <1>1, <1>2

LEMMA LoneVisit ==
    ASSUME \A q \in Runners : VisitKnown(q), onFile \subseteq onFile', attempts \subseteq attempts',
           NEW r \in Runners, \A q \in Runners \ {r} : visit'[q] = visit[q],
           OneMoves(r), VisitKnown(r)'
    PROVE  \A q \in Runners : VisitKnown(q)'
<1> SUFFICES ASSUME NEW q \in Runners PROVE VisitKnown(q)'
  OBVIOUS
<1>1. CASE q = r  BY <1>1
<1>2. CASE q # r  BY <1>2, VisitStays DEF OneMoves
<1> QED  BY <1>1, <1>2

LEMMA ShapesKeepVisit ==
    ASSUME EnrichInv, NEW r \in Runners, UNCHANGED enrichVars,
           Search(r) \/ RecordAttempt(r) \/ Walks(r) \/ Drops(r)
    PROVE  /\ OneMoves(r) /\ attempts \subseteq attempts' /\ VisitKnown(r)'
           /\ pc[r] # "idle" \/ pc'[r] = "idle"
<1>0. DocketTypeOK /\ VisitKnown(r)  BY DEF EnrichInv, TypeOK
<1>1. UNCHANGED <<visit, onFile>>  BY DEF enrichVars
<1>2. InVisit(r) => InVisit(r)'  BY <1>1 DEF InVisit
<1>3. CASE Search(r)
  <2>1. /\ pc[r] = "search" /\ pc'[r] \in {"sync", "record"} /\ OneMoves(r)
        /\ UNCHANGED <<attempts, job, issuer>>
    BY <1>0, <1>3 DEF Search, Goto, OneMoves, DocketTypeOK
  <2>2. InVisit(r) /\ visit[r] = issuer[r] /\ job[r] = "link"  BY <1>0, <2>1 DEF VisitKnown
  <2> QED  BY <1>1, <1>2, <2>1, <2>2 DEF VisitKnown, Walking
<1>4. CASE RecordAttempt(r)
  <2>1. /\ pc[r] = "record" /\ pc'[r] = "done" /\ OneMoves(r) /\ attempts \subseteq attempts'
        /\ UNCHANGED <<job, issuer, outcome>>
    BY <1>0, <1>4 DEF RecordAttempt, Goto, OneMoves, history, task, DocketTypeOK
  <2>2. InVisit(r) /\ visit[r] = issuer[r] /\ job[r] = "link"  BY <1>0, <2>1 DEF VisitKnown
  <2>3. \E a \in attempts' : a.issuer = issuer'[r] /\ a.outcome = outcome'[r]
    <3>1. [issuer |-> issuer[r], outcome |-> outcome[r], docket |-> docket[r]] \in attempts'
      BY <1>4 DEF RecordAttempt
    <3> QED  BY <2>1, <3>1
  <2> QED  BY <1>1, <1>2, <2>1, <2>2, <2>3 DEF VisitKnown, Walking
<1>5. CASE Walks(r)
  <2>1. /\ pc[r] \in Walking /\ pc'[r] \in Walking \cup {"record"} /\ job'[r] = job[r]
        /\ issuer'[r] = issuer[r]
        /\ pc'[r] = "record" => job[r] = "link"
    BY <1>5 DEF Walks
  <2>2. IF job[r] = "link" THEN InVisit(r) /\ visit[r] = issuer[r] ELSE visit[r] = None
    BY <1>0, <2>1 DEF VisitKnown
  <2> QED  BY <1>1, <1>2, <1>5, <2>1, <2>2 DEF VisitKnown, Walking, Walks
<1>6. CASE Drops(r)
  <2>1. CASE pc'[r] = "idle"  BY <1>6, <2>1 DEF Drops, VisitKnown, Walking
  <2>2. CASE pc'[r] = "raised" /\ job[r] = "link" /\ pc[r] \in Walking \cup {"search", "record"}
    <3>1. InVisit(r)  BY <1>0, <2>2 DEF VisitKnown
    <3> QED  BY <1>2, <1>6, <2>2, <3>1 DEF Drops, VisitKnown, Walking
  <2> QED  BY <1>6, <2>1, <2>2 DEF Drops
<1> QED  BY <1>3, <1>4, <1>5, <1>6

LEMMA VisitStep == EnrichInv /\ StepKinds => \A r \in Runners : VisitKnown(r)'
<1> SUFFICES ASSUME EnrichInv, StepKinds PROVE \A r \in Runners : VisitKnown(r)'
  OBVIOUS
<1>0. TypeOK /\ DocketTypeOK /\ \A r \in Runners : VisitKnown(r)  BY DEF EnrichInv, TypeOK
<1> DEFINE Goal == \A r \in Runners : VisitKnown(r)'
<1>1. ASSUME UNCHANGED <<attempts, pc, job, issuer, outcome>>, onFile \subseteq onFile',
             \A r \in Runners : visit'[r] = visit[r] \/ pc[r] = "idle"
      PROVE  Goal
  BY <1>0, <1>1, VisitStays
<1> HIDE DEF Goal
<1>2. ASSUME DocketsRest, EnrichRests PROVE Goal
  BY <1>1, <1>2 DEF DocketsRest, EnrichRests
<1>3. ASSUME NEW e \in Entries, Publish(e), UNCHANGED enrichVars PROVE Goal
  BY <1>1, <1>3 DEF Publish, tables, task, enrichVars
<1>5. ASSUME NEW i \in Issuers, NEW d \in Dockets, LinkCurated(i, d), UNCHANGED enrichVars PROVE Goal
  BY <1>1, <1>5 DEF LinkCurated, task, enrichVars
<1>6. ASSUME NEW r \in Runners, StartsLink(r), visit[r] \in Issuers PROVE Goal
  <2>1. /\ OneMoves(r) /\ UNCHANGED <<attempts, visit, onFile>>
        /\ pc'[r] = "search" /\ job'[r] = "link" /\ issuer'[r] = visit[r]
        /\ visit[r] \in onFile /\ "courtlistener" \in Configured
    BY <1>0, <1>6 DEF StartsLink, StartAutoLink, Goto, OneMoves, tables, enrichVars, DocketTypeOK
  <2>2. VisitKnown(r)'  BY <1>6, <2>1 DEF VisitKnown, InVisit, Walking
  <2> QED  BY <1>0, <2>1, <2>2, LoneVisit DEF Goal
<1>7. ASSUME NEW r \in Runners, NEW d \in Dockets, visit[r] = None, StartSync(r, d), UNCHANGED enrichVars
      PROVE  Goal
  <2>1. /\ OneMoves(r) /\ UNCHANGED <<attempts, visit, onFile>> /\ pc'[r] = "sync" /\ job'[r] = "sync"
    BY <1>0, <1>7 DEF StartSync, Goto, OneMoves, tables, enrichVars, DocketTypeOK
  <2>2. VisitKnown(r)'  BY <1>7, <2>1 DEF VisitKnown, Walking
  <2> QED  BY <1>0, <2>1, <2>2, LoneVisit DEF Goal
<1>8. ASSUME NEW r \in Runners, DocketStep(r) \/ SourceFails(r), UNCHANGED enrichVars PROVE Goal
  <2>1. OneMoves(r) /\ attempts \subseteq attempts' /\ VisitKnown(r)'
    BY <1>0, <1>8, StepShapes, ShapesKeepVisit
  <2>2. UNCHANGED <<visit, onFile>>  BY <1>8 DEF enrichVars
  <2> QED  BY <1>0, <2>1, <2>2, LoneVisit DEF Goal
<1>9. ASSUME NEW r \in Runners, AutoLinkReturns(r) \/ ProcessDies(r) PROVE Goal
  <2>1. OneMoves(r) /\ UNCHANGED attempts /\ pc'[r] = "idle"
    BY <1>0, <1>9 DEF AutoLinkReturns, ProcessDies, Return, Crash, EndTask, Goto, OneMoves,
                      tables, DocketTypeOK
  <2>2. onFile' = onFile /\ \A q \in Runners \ {r} : visit'[q] = visit[q]
    BY <1>0, <1>9 DEF AutoLinkReturns, ProcessDies, Record, TypeOK
  <2>3. VisitKnown(r)'  BY <2>1 DEF VisitKnown, Walking
  <2> QED  BY <1>0, <2>1, <2>2, <2>3, LoneVisit DEF Goal
<1>10. Goal  BY <1>2, <1>3, <1>5, <1>6, <1>7, <1>8, <1>9 DEF StepKinds
<1> QED  BY <1>10 DEF Goal

-----------------------------------------------------------------------------
(* Links and statuses. *)

\* Only a visit of the issuer links a docket to it, without being told to.
LEMMA NewLinks ==
    ASSUME EnrichInv, StepKinds, NEW i \in Issuers, NEW d \in Dockets, AutoLinked(d, i)'
    PROVE  \/ AutoLinked(d, i)
           \/ \E r \in Runners : pc[r] = "search" /\ visit[r] = i /\ InVisit(r)
<1>0. TypeOK /\ DocketTypeOK /\ \A r \in Runners : VisitKnown(r)  BY DEF EnrichInv, TypeOK
<1> DEFINE Goal == \/ AutoLinked(d, i)
                   \/ \E r \in Runners : pc[r] = "search" /\ visit[r] = i /\ InVisit(r)
<1>1. ASSUME UNCHANGED link PROVE Goal
  BY <1>1 DEF AutoLinked
<1>2. ASSUME NEW r \in Runners, Search(r) PROVE Goal
  <2>1. pc[r] = "search" /\ InVisit(r) /\ visit[r] = issuer[r]
    BY <1>0, <1>2 DEF Search, VisitKnown
  <2>2. CASE UNCHANGED link  BY <1>1, <2>2
  <2>3. CASE \E c \in Dockets : link' = Linked(issuer[r], c)
    <3>1. link'[d] = link[d] \/ link'[d] = issuer[r]
      BY <1>0, <2>3 DEF Linked, DocketTypeOK
    <3>2. CASE link'[d] = link[d]  BY <3>2 DEF AutoLinked
    <3>3. CASE link'[d] = issuer[r]
      <4>1. issuer[r] = i  BY <3>3 DEF AutoLinked
      <4> QED  BY <2>1, <4>1
    <3> QED  BY <3>1, <3>2, <3>3
  <2> QED  BY <1>2, <2>2, <2>3 DEF Search, Passing
<1>3. ASSUME NEW j \in Issuers, NEW c \in Dockets, LinkCurated(j, c) PROVE Goal
  BY <1>0, <1>3, CuratedTies DEF LinksAsBefore
<1> HIDE DEF Goal
<1>4. ASSUME NEW r \in Runners, DocketStep(r) \/ SourceFails(r) PROVE Goal
  BY <1>0, <1>1, <1>2, <1>4, StepShapes DEF Walks, Drops, RecordAttempt
<1>5. ASSUME DocketsRest PROVE Goal  BY <1>1, <1>5 DEF DocketsRest
<1>6. ASSUME NEW e \in Entries, Publish(e) PROVE Goal  BY <1>1, <1>6 DEF Publish, tables
<1>8. ASSUME NEW r \in Runners, StartsLink(r) PROVE Goal
  BY <1>1, <1>8 DEF StartsLink, StartAutoLink, tables
<1>9. ASSUME NEW r \in Runners, NEW c \in Dockets, StartSync(r, c) PROVE Goal
  BY <1>1, <1>9 DEF StartSync, tables
<1>10. ASSUME NEW r \in Runners, AutoLinkReturns(r) \/ ProcessDies(r) PROVE Goal
  BY <1>1, <1>10 DEF AutoLinkReturns, ProcessDies, Return, Crash, tables
<1>11. Goal  BY <1>3, <1>4, <1>5, <1>6, <1>8, <1>9, <1>10 DEF StepKinds
<1> QED  BY <1>11 DEF Goal

\* Nothing that was found is lost.
LEMMA TablesGrow ==
    ASSUME EnrichInv, StepKinds
    PROVE  onFile \subseteq onFile' /\ attempts \subseteq attempts' /\ overlooked \subseteq overlooked'
<1>0. DocketTypeOK  BY DEF EnrichInv, TypeOK
<1> USE DEF history, tables, enrichVars
<1> DEFINE Goal == onFile \subseteq onFile' /\ attempts \subseteq attempts' /\ overlooked \subseteq overlooked'
<1>1. ASSUME DocketsRest, EnrichRests PROVE Goal  BY <1>1 DEF DocketsRest, EnrichRests
<1>2. ASSUME NEW e \in Entries, Publish(e), UNCHANGED enrichVars PROVE Goal
  BY <1>0, <1>2 DEF Publish
<1>4. ASSUME NEW i \in Issuers, NEW d \in Dockets, LinkCurated(i, d), UNCHANGED enrichVars PROVE Goal
  BY <1>0, <1>4 DEF LinkCurated
<1>5. ASSUME NEW r \in Runners, StartsLink(r) PROVE Goal
  BY <1>0, <1>5 DEF StartsLink, StartAutoLink
<1>6. ASSUME NEW r \in Runners, NEW d \in Dockets, StartSync(r, d), UNCHANGED enrichVars PROVE Goal
  BY <1>0, <1>6 DEF StartSync
<1>7. ASSUME NEW r \in Runners, DocketStep(r) \/ SourceFails(r), UNCHANGED enrichVars PROVE Goal
  BY <1>0, <1>7, StepShapes DEF Walks, Drops, RecordAttempt, Search, Overlook
<1>8. ASSUME NEW r \in Runners, AutoLinkReturns(r) \/ ProcessDies(r) PROVE Goal
  BY <1>0, <1>8 DEF AutoLinkReturns, ProcessDies, Return, Crash
<1> HIDE DEF Goal
<1>9. Goal  BY <1>1, <1>2, <1>4, <1>5, <1>6, <1>7, <1>8 DEF StepKinds
<1> QED  BY <1>9 DEF Goal

LEMMA LinkedStep == EnrichInv /\ StepKinds => LinkedAfterSec'
<1> SUFFICES ASSUME EnrichInv, StepKinds, NEW i \in Issuers, NEW d \in Dockets, AutoLinked(d, i)'
             PROVE  i \in onFile' /\ "courtlistener" \in Configured
  BY DEF LinkedAfterSec
<1>1. LinkedAfterSec /\ onFile \subseteq onFile'  BY TablesGrow DEF EnrichInv
<1>2. CASE AutoLinked(d, i)  BY <1>1, <1>2 DEF LinkedAfterSec
<1>3. CASE \E r \in Runners : visit[r] = i /\ InVisit(r)  BY <1>1, <1>3 DEF InVisit
<1> QED  BY <1>2, <1>3, NewLinks

\* A runner that leaves its place was started on the issuer it visits, or had left it.
LEMMA NewPlaces ==
    ASSUME EnrichInv, StepKinds, NEW r \in Runners, visit'[r] \in Issuers, pc'[r] # "idle"
    PROVE  /\ visit[r] = visit'[r]
           /\ pc[r] # "idle" \/ StartsLink(r)
<1>0. TypeOK /\ DocketTypeOK  BY DEF EnrichInv, TypeOK
<1>00. None \notin Issuers  BY DocketAssumption
<1> DEFINE Goal == visit[r] = visit'[r] /\ (pc[r] # "idle" \/ StartsLink(r))
<1>1. ASSUME UNCHANGED pc, visit'[r] = visit[r] \/ pc[r] = "idle" PROVE Goal
  BY <1>1
<1>2. ASSUME DocketsRest, EnrichRests PROVE Goal  BY <1>1, <1>2 DEF DocketsRest, EnrichRests
<1>3. ASSUME NEW e \in Entries, Publish(e), UNCHANGED enrichVars PROVE Goal
  BY <1>1, <1>3 DEF Publish, enrichVars
<1>5. ASSUME NEW i \in Issuers, NEW d \in Dockets, LinkCurated(i, d), UNCHANGED enrichVars PROVE Goal
  BY <1>1, <1>5 DEF LinkCurated, enrichVars
<1>6. ASSUME NEW q \in Runners, StartsLink(q) PROVE Goal
  <2>1. UNCHANGED visit /\ OneMoves(q)
    BY <1>0, <1>6 DEF StartsLink, StartAutoLink, Goto, OneMoves, enrichVars, DocketTypeOK
  <2> QED  BY <1>6, <2>1 DEF OneMoves
<1>7. ASSUME NEW q \in Runners, NEW d \in Dockets, visit[q] = None, StartSync(q, d), UNCHANGED enrichVars
      PROVE  Goal
  <2>1. UNCHANGED visit /\ OneMoves(q)
    BY <1>0, <1>7 DEF StartSync, Goto, OneMoves, enrichVars, DocketTypeOK
  <2>2. q # r  BY <1>00, <1>7, <2>1
  <2> QED  BY <2>1, <2>2 DEF OneMoves
<1>8. ASSUME NEW q \in Runners, DocketStep(q) \/ SourceFails(q), UNCHANGED enrichVars PROVE Goal
  <2>1. OneMoves(q) /\ (pc[q] # "idle" \/ pc'[q] = "idle")
    BY <1>0, <1>8, StepShapes, ShapesKeepVisit
  <2>2. UNCHANGED visit  BY <1>8 DEF enrichVars
  <2> QED  BY <2>1, <2>2 DEF OneMoves
<1>9. ASSUME NEW q \in Runners, AutoLinkReturns(q) \/ ProcessDies(q) PROVE Goal
  <2>1. OneMoves(q) /\ pc'[q] = "idle"
    BY <1>0, <1>9 DEF AutoLinkReturns, ProcessDies, Return, Crash, EndTask, Goto, OneMoves, DocketTypeOK
  <2>2. \A p \in Runners \ {q} : visit'[p] = visit[p]
    BY <1>0, <1>9 DEF AutoLinkReturns, ProcessDies, Record, TypeOK
  <2> QED  BY <2>1, <2>2 DEF OneMoves
<1> HIDE DEF Goal
<1>10. Goal  BY <1>2, <1>3, <1>5, <1>6, <1>7, <1>8, <1>9 DEF StepKinds
<1> QED  BY <1>10 DEF Goal

\* The ways a status of CourtListener comes about.
StatusNow(i) == status'[i]["courtlistener"]

LEMMA NewStatus ==
    ASSUME EnrichInv, StepKinds, NEW i \in Issuers
    PROVE  \/ StatusNow(i) = status[i]["courtlistener"]
           \/ StatusNow(i) = "unavailable" /\ "courtlistener" \notin Configured
           \/ StatusNow(i) = "unsupported" /\ (i \notin onFile' \/ i \in overlooked')
           \/ StatusNow(i) = "failed_retryable"
           \/ \E r \in Runners :
                 pc[r] = "done" /\ visit[r] = i /\ StatusNow(i) = StatusOf(outcome[r])
<1>0. TypeOK  BY DEF EnrichInv
<1>1. CASE UNCHANGED status  BY <1>1 DEF StatusNow
<1>2. CASE EnrichRests  BY <1>2 DEF EnrichRests, StatusNow
<1>3. CASE \E r \in Runners : AutoLinkReturns(r)
  <2>1. PICK r \in Runners : AutoLinkReturns(r)  BY <1>3
  <2>2. PICK s : /\ s = IF pc[r] = "done" THEN StatusOf(outcome[r]) ELSE "failed_retryable"
                 /\ Record(r, "courtlistener", s) /\ visit[r] # None
    BY <2>1 DEF AutoLinkReturns
  <2>3. StatusNow(i) = IF i = visit[r] THEN s ELSE status[i]["courtlistener"]
    BY <1>0, <2>2, RecordsItsOwn DEF StatusNow
  <2> QED  BY <2>2, <2>3
<1>4. CASE \E r \in Runners : ProcessDies(r)  BY <1>1, <1>4 DEF ProcessDies
<1>5. CASE UNCHANGED enrichVars  BY <1>1, <1>5 DEF enrichVars
<1>6. CASE \E r \in Runners : StartsLink(r)  BY <1>5, <1>6 DEF StartsLink
<1> QED  BY <1>2, <1>3, <1>4, <1>5, <1>6 DEF StepKinds

LEMMA StatusStep ==
    ASSUME EnrichInv, StepKinds, DocketTypeOK', LinkedAfterSec', \A r \in Runners : VisitKnown(r)'
    PROVE  \A i \in Issuers : StatusKnown(i)'
<1> SUFFICES ASSUME NEW i \in Issuers PROVE StatusKnown(i)'
  OBVIOUS
<1>0. StatusKnown(i) /\ \A r \in Runners : VisitKnown(r)  BY DEF EnrichInv
<1>00. None \notin Issuers /\ None \notin Statuses  BY DocketAssumption, EnrichmentAssumption
<1>1. onFile \subseteq onFile' /\ attempts \subseteq attempts' /\ overlooked \subseteq overlooked'
  BY TablesGrow
<1>2. CASE StatusNow(i) = status[i]["courtlistener"]
  <2>1. ASSUME status[i]["courtlistener"] = "unsupported", i \notin overlooked'
        PROVE  /\ \A d \in Dockets : ~AutoLinked(d, i)'
               /\ \A r \in Runners : visit'[r] = i => pc'[r] = "idle"
    <3>1. /\ \A d \in Dockets : ~AutoLinked(d, i)
          /\ \A r \in Runners : visit[r] = i => pc[r] = "idle"
      BY <1>0, <1>1, <2>1 DEF StatusKnown
    <3>2. \A d \in Dockets : ~AutoLinked(d, i)'  BY <3>1, NewLinks
    <3>3. ASSUME NEW r \in Runners, visit'[r] = i, pc'[r] # "idle" PROVE FALSE
      <4>1. visit[r] = i /\ StartsLink(r)  BY <3>1, <3>3, NewPlaces
      <4>2. ShouldRun(i, "courtlistener")  BY <4>1 DEF StartsLink
      <4> QED  BY <1>00, <2>1, <4>2 DEF ShouldRun, Statuses
    <3> QED  BY <3>2, <3>3
  <2> QED  BY <1>0, <1>1, <1>2, <2>1 DEF StatusKnown, StatusNow
<1>3. CASE StatusNow(i) = "unavailable" /\ "courtlistener" \notin Configured
  BY <1>3 DEF StatusKnown, StatusNow
<1>7. CASE StatusNow(i) = "unsupported" /\ i \in overlooked'
  BY <1>7 DEF StatusKnown, StatusNow
<1>4. CASE StatusNow(i) = "unsupported" /\ i \notin onFile'
  <2>1. \A d \in Dockets : ~AutoLinked(d, i)'  BY <1>4 DEF LinkedAfterSec
  <2>2. ASSUME NEW r \in Runners, visit'[r] = i, pc'[r] # "idle" PROVE FALSE
    <3>1. pc'[r] \in Walking \cup {"search", "record", "done", "raised"}
      BY <2>2 DEF DocketTypeOK, Walking
    <3>2. VisitKnown(r)'  OBVIOUS
    <3> QED  BY <1>00, <1>4, <2>2, <3>1, <3>2 DEF VisitKnown, InVisit
  <2> QED  BY <1>4, <2>1, <2>2 DEF StatusKnown, StatusNow
<1>5. CASE StatusNow(i) = "failed_retryable"
  BY <1>5 DEF StatusKnown, StatusNow
<1>6. CASE \E r \in Runners :
              pc[r] = "done" /\ visit[r] = i /\ StatusNow(i) = StatusOf(outcome[r])
  <2>1. PICK r \in Runners :
              pc[r] = "done" /\ visit[r] = i /\ StatusNow(i) = StatusOf(outcome[r])
    BY <1>6
  <2>2. /\ i \in onFile'
        /\ \E a \in attempts' : a.issuer = i /\ StatusOf(a.outcome) = StatusNow(i)
    BY <1>0, <1>1, <2>1 DEF VisitKnown, InVisit
  <2>3. StatusNow(i) \in {"complete", "no_data", "manual_review_required"}
    BY <2>1 DEF StatusOf
  <2>4. \A t : StatusOf(t)' = StatusOf(t)  BY DEF StatusOf
  <2> QED  BY <2>2, <2>3, <2>4 DEF StatusKnown, StatusNow
<1> QED  BY <1>2, <1>3, <1>4, <1>5, <1>6, <1>7, NewStatus

LEMMA EnrichTypeStep == TypeOK /\ [Next]_vars /\ DocketTypeOK' => TypeOK'
<1> SUFFICES ASSUME TypeOK, [Next]_vars, DocketTypeOK' PROVE TypeOK'
  OBVIOUS
<1> DEFINE Goal == /\ onFile' \subseteq Issuers
                   /\ status' \in [Issuers -> [Providers -> Statuses \cup {None}]]
                   /\ age' \in [Issuers -> [Providers -> 0..MaxAge]]
                   /\ visit' \in [Runners -> Issuers \cup {None}]
                   /\ left' \in [Runners -> SUBSET Providers]
<1>0. Goal => TypeOK'  BY DEF TypeOK
<1>00. MaxAge \in Nat /\ Enriched \subseteq Issuers  BY EnrichmentAssumption
<1>1. ASSUME UNCHANGED enrichVars PROVE Goal  BY <1>1 DEF TypeOK, enrichVars
<1>2. ASSUME NEW r \in Runners, NEW p \in Providers, NEW s \in Statuses, visit[r] # None,
             Record(r, p, s), onFile' \subseteq Issuers
      PROVE  Goal
  <2>1. visit[r] \in Issuers  BY <1>2 DEF TypeOK
  <2>2. status' \in [Issuers -> [Providers -> Statuses \cup {None}]]
    BY <1>2, <2>1 DEF TypeOK, Record
  <2>3. age' \in [Issuers -> [Providers -> 0..MaxAge]]  BY <1>00, <1>2, <2>1 DEF TypeOK, Record
  <2> QED  BY <1>2, <2>2, <2>3 DEF TypeOK, Record
<1>3. ASSUME NEW i \in Issuers, MonitorStores(i) PROVE Goal
  BY <1>3 DEF MonitorStores, TypeOK
<1>4. ASSUME Tick PROVE Goal
  <2>1. ASSUME NEW n \in 0..MaxAge PROVE Min({n + 1, MaxAge}) \in 0..MaxAge
    <3>1. \E x \in {n + 1, MaxAge} : \A y \in {n + 1, MaxAge} : x <= y  BY <1>00
    <3>2. /\ Min({n + 1, MaxAge}) \in {n + 1, MaxAge}
          /\ \A y \in {n + 1, MaxAge} : Min({n + 1, MaxAge}) <= y
      BY <3>1 DEF Min
    <3> QED  BY <1>00, <3>2
  <2>3. ASSUME NEW i \in Issuers, NEW p \in Providers
        PROVE  (IF status[i][p] = None THEN 0 ELSE Min({age[i][p] + 1, MaxAge})) \in 0..MaxAge
    <3>1. age[i][p] \in 0..MaxAge  BY DEF TypeOK
    <3>2. Min({age[i][p] + 1, MaxAge}) \in 0..MaxAge  BY <2>1, <3>1
    <3> QED  BY <1>00, <3>2
  <2>2. age' \in [Issuers -> [Providers -> 0..MaxAge]]  BY <1>4, <2>3 DEF Tick
  <2> QED  BY <1>4, <2>2 DEF Tick, TypeOK
<1>5. ASSUME NEW r \in Runners, NEW i \in Issuers, StartVisit(r, i) PROVE Goal
  BY <1>5 DEF StartVisit, TypeOK
<1>6. ASSUME NEW r \in Runners, EndVisit(r) PROVE Goal
  BY <1>6 DEF EndVisit, TypeOK
<1>7. ASSUME NEW r \in Runners, NEW p \in Providers, SkipProvider(r, p) PROVE Goal
  BY <1>7 DEF SkipProvider, TypeOK
<1>8. ASSUME NEW r \in Runners, ProcessDies(r) PROVE Goal
  BY <1>8 DEF ProcessDies, TypeOK
<1>9. ASSUME NEW r \in Runners, EnrichSec(r) PROVE Goal
  <2>1. "sec_edgar" \in Providers /\ visit[r] # None
    BY <1>9 DEF EnrichSec, Turn, Providers
  <2>2. PICK s \in Statuses : Record(r, "sec_edgar", s)  BY <1>9 DEF EnrichSec, Statuses
  <2>4. visit[r] \in Issuers /\ onFile \subseteq Issuers  BY <2>1 DEF TypeOK
  <2>3. onFile' \subseteq Issuers  BY <1>9, <2>4 DEF EnrichSec
  <2> QED  BY <1>2, <2>1, <2>2, <2>3
<1>10. ASSUME NEW r \in Runners, EnrichFigi(r) PROVE Goal
  <2>1. "openfigi" \in Providers /\ visit[r] # None /\ UNCHANGED onFile
    BY <1>10 DEF EnrichFigi, Turn, Providers
  <2>2. PICK s \in Statuses : Record(r, "openfigi", s)  BY <1>10 DEF EnrichFigi, Statuses
  <2> QED  BY <1>2, <2>1, <2>2 DEF TypeOK
<1>11. ASSUME NEW r \in Runners, NEW p \in Providers, ProviderFails(r, p) PROVE Goal
  <2>1. visit[r] # None /\ Record(r, p, "failed_retryable")
    BY <1>11 DEF ProviderFails, Turn
  <2>4. visit[r] \in Issuers /\ onFile \subseteq Issuers  BY <2>1 DEF TypeOK
  <2>2. onFile' \subseteq Issuers  BY <1>11, <2>4 DEF ProviderFails
  <2> QED  BY <1>2, <2>1, <2>2 DEF Statuses
<1>12. ASSUME NEW r \in Runners, EnrichCourtListener(r) PROVE Goal
  <2>1. "courtlistener" \in Providers /\ visit[r] # None /\ UNCHANGED onFile
    BY <1>12 DEF EnrichCourtListener, Turn, Providers
  <2>2. CASE \E s \in {"unavailable", "unsupported"} : Record(r, "courtlistener", s)
    BY <1>2, <2>1, <2>2 DEF TypeOK, Statuses
  <2>3. CASE UNCHANGED <<status, age, visit, left>>
    BY <1>1, <2>1, <2>3 DEF enrichVars
  <2> QED  BY <1>12, <2>2, <2>3 DEF EnrichCourtListener
<1>13. ASSUME NEW r \in Runners, AutoLinkReturns(r) PROVE Goal
  <2>1. "courtlistener" \in Providers /\ visit[r] # None /\ UNCHANGED onFile
    BY <1>13 DEF AutoLinkReturns, Providers
  <2>2. PICK s : /\ s = IF pc[r] = "done" THEN StatusOf(outcome[r]) ELSE "failed_retryable"
                 /\ Record(r, "courtlistener", s)
    BY <1>13 DEF AutoLinkReturns
  <2>3. s \in Statuses  BY <2>2 DEF StatusOf, Statuses
  <2> QED  BY <1>2, <2>1, <2>2, <2>3 DEF TypeOK
<1> HIDE DEF Goal
<1>14. ASSUME NEW r \in Runners, RunnerStep(r) PROVE Goal
  BY <1>14, <1>1, <1>6, <1>7, <1>9, <1>10, <1>12, <1>13 DEF RunnerStep
<1>15. ASSUME NEW r \in Runners,
              \/ \E i \in Enriched : StartVisit(r, i)
              \/ \E d \in Dockets : visit[r] = None /\ StartSync(r, d) /\ UNCHANGED enrichVars
              \/ RunnerStep(r)
              \/ \E p \in Providers : ProviderFails(r, p)
              \/ SourceFails(r) /\ UNCHANGED enrichVars
              \/ ProcessDies(r)
       PROVE  Goal
  BY <1>15, <1>00, <1>1, <1>5, <1>8, <1>11, <1>14
<1>16. ASSUME Next PROVE Goal
  BY <1>16, <1>00, <1>1, <1>3, <1>4, <1>15 DEF Next
<1>17. ASSUME UNCHANGED vars PROVE Goal
  BY <1>1, <1>17 DEF vars, enrichVars
<1> QED  BY <1>0, <1>16, <1>17

-----------------------------------------------------------------------------
LEMMA EnrichStep == EnrichInv /\ [Next]_vars => EnrichInv' /\ [DocketNext]_docketVars
<1> SUFFICES ASSUME EnrichInv, [Next]_vars PROVE EnrichInv' /\ [DocketNext]_docketVars
  OBVIOUS
<1>1. StepKinds  BY NextKinds
<1>2. [DocketNext]_docketVars  BY <1>1, KindsAreDocketSteps
<1>3. TypeOK /\ DocketInv /\ LinkInv  BY DEF EnrichInv
<1>4. DocketTypeOK' /\ SessionInv' /\ LinkInv'  BY <1>2, <1>3, TypeStep, SessionStep, LinkStep
<1>5. DocketInv'  BY <1>4 DEF DocketInv, SessionInv
<1>6. TypeOK'  BY <1>3, <1>4, EnrichTypeStep
<1>7. TiesAgree'  BY <1>1, TiesStep
<1>8. LinkedAfterSec'  BY <1>1, LinkedStep
<1>9. \A r \in Runners : VisitKnown(r)'  BY <1>1, VisitStep
<1>10. \A i \in Issuers : StatusKnown(i)'  BY <1>1, <1>4, <1>8, <1>9, StatusStep
<1> QED  BY <1>2, <1>4, <1>5, <1>6, <1>7, <1>8, <1>9, <1>10 DEF EnrichInv

LEMMA EnrichInvHolds == Spec => []EnrichInv
BY EnrichInit, EnrichStep, PTL DEF Spec

(* Whatever a visit of enrich_issuer does for the other providers, and wherever *)
(* it is torn apart, it does to the dockets only what attempt_auto_link, a sync   *)
(* and their failures may: the orchestrator implements the dockets' own           *)
(* specification, and what is proved of that holds of it.                         *)
THEOREM VisitsImplementDockets == Spec => DocketSpec
<1>1. Init => DocketInit  BY DEF Init
<1> QED  BY <1>1, EnrichStep, EnrichInvHolds, PTL DEF Spec, DocketSpec

(* The status of CourtListener is backed by an attempt on record, and an issuer  *)
(* whose docket was linked without one is visited again: the link, the rows of   *)
(* the sync, the attempt and the status are four commits, with other visitors    *)
(* and failures between any two.  TiesAgree is the reason: an issuer is tied to  *)
(* one docket at most, whoever found it.                                          *)
THEOREM StatusesAreBacked == Spec => []StatusIsBacked
<1>1. ASSUME EnrichInv PROVE StatusIsBacked
  <2> SUFFICES ASSUME NEW i \in Issuers
               PROVE  LET s == status[i]["courtlistener"] IN
                      /\ s \in {"complete", "no_data", "manual_review_required"} =>
                            i \in onFile /\ \E a \in attempts : a.issuer = i /\ StatusOf(a.outcome) = s
                      /\ i \notin overlooked =>
                         \A d \in Dockets :
                            /\ link[d] = i /\ <<i, d>> \notin Curated
                            /\ \A a \in attempts : a.issuer = i => a.docket # d
                            => s \in {None, "no_data", "manual_review_required", "failed_retryable"}
    BY DEF StatusIsBacked
  <2> DEFINE s == status[i]["courtlistener"]
  <2>1. StatusKnown(i) /\ TiesAgree /\ LinkedAfterSec /\ TypeOK  BY <1>1 DEF EnrichInv
  <2>2. s \in Statuses \cup {None}  BY <2>1 DEF TypeOK, Providers
  <2>3. ASSUME i \notin overlooked, NEW d \in Dockets, link[d] = i, <<i, d>> \notin Curated,
               \A a \in attempts : a.issuer = i => a.docket # d
        PROVE  s \in {None, "no_data", "manual_review_required", "failed_retryable"}
    <3>1. AutoLinked(d, i)  BY <2>3 DEF AutoLinked
    <3>2. s # "unavailable" /\ s # "unsupported"  BY <2>1, <2>3, <3>1 DEF StatusKnown, LinkedAfterSec
    <3>3. ASSUME s = "complete" PROVE FALSE
      <4>1. PICK a \in attempts : a.issuer = i /\ StatusOf(a.outcome) = "complete"
        BY <2>1, <3>3 DEF StatusKnown
      <4>2. a.outcome = "verified_docket_match"  BY <4>1 DEF StatusOf
      <4>3. a.docket \in Dockets
        <5>1. LinkInv /\ DocketTypeOK  BY <1>1 DEF EnrichInv, TypeOK
        <5>2. Founded(a)  BY <5>1, LinkInvByParts
        <5> QED  BY <4>2, <5>1, <5>2 DEF Founded, DocketTypeOK
      <4>4. TiedTo(d, i) /\ TiedTo(a.docket, i)  BY <3>1, <4>1, <4>2 DEF TiedTo
      <4>5. a.docket = d  BY <2>1, <2>3, <4>3, <4>4 DEF TiesAgree
      <4> QED  BY <2>3, <4>1, <4>5
    <3> QED  BY <2>2, <3>2, <3>3 DEF Statuses
  <2> QED  BY <2>1, <2>3 DEF StatusKnown
<1> QED  BY <1>1, EnrichInvHolds, PTL

-----------------------------------------------------------------------------
(* The cursor of a docket. *)

\* An entry of d that CourtListener has.
OnDocket(d, e) == e \in published /\ DocketOf[e] = d

\* What is stored, about to be, or was left out of a first walk.
Accounted(r) == entries \cup newEntries[r] \cup passedOver

\* A later walk has accounted for all up to where it is; a first one does so where it
\* ends, whatever the order of the court's numbers.
WalkedOver(r) ==
    /\ \A g \in newEntries[r] : OnDocket(docket[r], g)
    /\ pc[r] \in {"page", "match", "alert"} /\ order[r] = "id" =>
          /\ last[r] \in Nat /\ (last[r] = 0 \/ OnDocket(docket[r], last[r]))
          /\ \A g \in newEntries[r] : g <= last[r]
          /\ \A e \in Entries : OnDocket(docket[r], e) /\ e <= last[r] => e \in Accounted(r)
    /\ pc[r] \in {"match", "alert"} /\ order[r] = "number" =>
          \A g \in newEntries[r], e \in Entries : OnDocket(docket[r], e) /\ e < g => e \in Accounted(r)

\* All published entries of a docket below a stored one are stored, or were passed over.
StoredBelow ==
    \A g \in entries : \A e \in published :
        DocketOf[e] = DocketOf[g] /\ e < g => e \in entries \cup passedOver

CursorInv ==
    /\ last = [r \in Runners |-> last[r]]
    /\ entries \subseteq published
    /\ StoredBelow
    /\ \A r \in Runners : WalkedOver(r)

\* A set of natural numbers that is not empty has a least member.
LEMMA LeastNumber ==
    ASSUME NEW T, T \subseteq Nat, T # {} PROVE \E m \in T : \A n \in T : m <= n
<1>1. PICK m \in T : \A n \in T : ~(<<n, m>> \in OpToRel(<, Nat))
  BY NatLessThanWellFounded, WFMin
<1>2. \A n \in T : ~(n < m)
  <2> SUFFICES ASSUME NEW n \in T, n < m PROVE FALSE
    OBVIOUS
  <2>1. <<n, m>> \in Nat \X Nat /\ <<n, m>>[1] < <<n, m>>[2]
    OBVIOUS
  <2> QED
    BY <1>1, <2>1 DEF OpToRel
<1> QED
  BY <1>2

\* A finite one is bounded: no least number of its members is too many.
LEMMA FiniteIsBounded ==
    ASSUME NEW T, T \subseteq Nat, IsFiniteSet(T)
    PROVE  \E b \in Nat : \A n \in T : n <= b
<1>1. Cardinality(T) \in Nat
  BY FS_CardinalityType
<1>2. PICK f : f \in Bijection(1..Cardinality(T), T)
  BY FS_NatBijection, FS_CountingElements, FS_CardinalityType DEF ExistsBijection
<1>3. \A n \in T : \E i \in 1..Cardinality(T) : f[i] = n
  BY <1>2 DEF Bijection, Surjection
<1>4. \A i \in 1..Cardinality(T) : f[i] \in Nat
  BY <1>2 DEF Bijection, Injection
<1> DEFINE Unbounded == {k \in 0..Cardinality(T) : \A b \in Nat : \E i \in 1..k : f[i] > b}
<1>5. ASSUME Unbounded # {} PROVE FALSE
  <2>0. Unbounded \subseteq Nat
    BY <1>1
  <2> HIDE DEF Unbounded
  <2>1. PICK k \in Unbounded : \A j \in Unbounded : k <= j
    BY <1>5, <2>0, LeastNumber
  <2> USE DEF Unbounded
  <2>2. k \in Nat /\ k # 0
    BY <1>1
  <2>3. k - 1 \in 0..Cardinality(T) /\ k - 1 \notin Unbounded /\ k \in 1..Cardinality(T)
    BY <1>1, <2>1, <2>2
  <2>4. PICK b \in Nat : \A i \in 1..(k - 1) : ~(f[i] > b)
    BY <2>3
  <2>5. PICK c : c = f[k]
    OBVIOUS
  <2>6. c \in Nat /\ b + c \in Nat
    BY <1>4, <2>3, <2>5
  <2>7. PICK i \in 1..k : f[i] > b + c
    BY <2>1, <2>6
  <2>8. f[i] \in Nat /\ (i = k \/ i \in 1..(k - 1))
    BY <1>1, <1>4, <2>2, <2>3, <2>7
  <2>9. CASE i = k
    BY <2>5, <2>6, <2>7, <2>9
  <2>10. CASE i \in 1..(k - 1)
    BY <2>4, <2>6, <2>7, <2>8, <2>10
  <2> QED
    BY <2>8, <2>9, <2>10
<1>6. PICK b \in Nat : \A i \in 1..Cardinality(T) : ~(f[i] > b)
  BY <1>1, <1>5
<1> SUFFICES ASSUME NEW n \in T PROVE n <= b
  BY <1>6
<1>7. PICK i \in 1..Cardinality(T) : f[i] = n
  BY <1>3
<1>8. ~(f[i] > b) /\ f[i] \in Nat
  BY <1>4, <1>6, <1>7
<1> QED
  BY <1>6, <1>7, <1>8

\* A finite set of natural numbers that is not empty has a largest member.
LEMMA FiniteHasMax ==
    ASSUME NEW T, T \subseteq Nat, T # {}, IsFiniteSet(T)
    PROVE  Max(T) \in T /\ \A n \in T : n <= Max(T)
<1>1. PICK b \in Nat : \A n \in T : n <= b
  BY FiniteIsBounded
<1> DEFINE U == {b - n : n \in T}
<1>2. U \subseteq Nat /\ U # {}
  <2>1. \A n \in T : b - n \in Nat
    BY <1>1
  <2>2. \E n \in T : b - n \in U
    OBVIOUS
  <2> QED
    BY <2>1, <2>2
<1>3. PICK u \in U : \A v \in U : u <= v
  BY <1>2, LeastNumber
<1>4. PICK m \in T : u = b - m
  BY <1>3
<1>5. \A n \in T : b - m <= b - n
  BY <1>3, <1>4
<1>6. \A n \in T : n <= m
  BY <1>5
<1>7. \E x \in T : \A y \in T : x >= y
  BY <1>6
<1>8. Max(T) \in T /\ \A y \in T : Max(T) >= y
  BY <1>7 DEF Max
<1> QED
  BY <1>8

\* Nothing that is published later is below a published entry.
LEMMA PublishKeeps ==
    ASSUME DocketTypeOK, CursorInv, NEW x \in Entries, Publish(x)
    PROVE  CursorInv'
<1>1. /\ published' = published \cup {x} /\ \A f \in published : f < x
      /\ UNCHANGED <<entries, newEntries, pc, docket, order, last, passedOver>>
  BY DEF Publish, tables, task, walk, session, history
<1>2. published \subseteq Entries /\ Entries \subseteq Nat \ {0}
  BY DocketAssumption DEF DocketTypeOK
<1>6. ASSUME NEW f \in published PROVE ~(x <= f) /\ ~(x < f)
  <2>1. f < x /\ f \in Nat /\ x \in Nat
    BY <1>1, <1>2
  <2> QED
    BY <2>1
<1>3. entries' \subseteq published' /\ last' = [r \in Runners |-> last'[r]]
  BY <1>1 DEF CursorInv
<1>4. StoredBelow'
  <2> SUFFICES ASSUME NEW g \in entries, NEW e \in published', DocketOf[e] = DocketOf[g], e < g
               PROVE  e \in entries \cup passedOver
    BY <1>1 DEF StoredBelow
  <2>1. g \in published /\ g < x
    BY <1>1 DEF CursorInv
  <2>2. e # x
    BY <1>2, <2>1
  <2> QED
    BY <1>1, <2>2 DEF CursorInv, StoredBelow
<1>5. ASSUME NEW r \in Runners PROVE WalkedOver(r)'
  <2>1. WalkedOver(r)
    BY DEF CursorInv
  <2>2. \A d, e : OnDocket(d, e) => OnDocket(d, e)'
    BY <1>1 DEF OnDocket
  <2>3. \A d : \A e \in Entries : OnDocket(d, e)' => OnDocket(d, e) \/ (e = x)
    BY <1>1 DEF OnDocket
  <2>4. Accounted(r)' = Accounted(r)
    BY <1>1 DEF Accounted
  <2>5. ASSUME pc[r] \in {"page", "match", "alert"}, order[r] = "id"
        PROVE  ~(x <= last[r])
    <3>1. CASE last[r] = 0
      BY <1>2, <3>1
    <3>2. CASE OnDocket(docket[r], last[r])
      BY <1>6, <3>2 DEF OnDocket
    <3> QED
      BY <2>1, <2>5, <3>1, <3>2 DEF WalkedOver
  <2>6. \A g \in newEntries[r] : ~(x < g)
    BY <1>6, <2>1 DEF WalkedOver, OnDocket
  <2> QED
    BY <1>1, <2>1, <2>2, <2>3, <2>4, <2>5, <2>6 DEF WalkedOver
<1> QED
  BY <1>3, <1>4, <1>5 DEF CursorInv

\* While others commit, what a runner has walked is still stored or held.
LEMMA OthersWalked ==
    ASSUME NEW q \in Runners, WalkedOver(q), entries \subseteq entries', passedOver \subseteq passedOver',
           published' = published, newEntries'[q] = newEntries[q], pc'[q] = pc[q],
           docket'[q] = docket[q], order'[q] = order[q], last'[q] = last[q]
    PROVE  WalkedOver(q)'
<1>1. Accounted(q) \subseteq Accounted(q)'
  BY DEF Accounted
<1>2. \A d, e : OnDocket(d, e)' = OnDocket(d, e)
  BY DEF OnDocket
<1> QED
  BY <1>1, <1>2 DEF WalkedOver

\* A session that is committed stores all below what it stores.
LEMMA CommitCloses ==
    ASSUME DocketTypeOK, CursorInv, NEW r \in Runners, pc[r] = "alert",
           entries' = entries \cup newEntries[r], UNCHANGED <<published, passedOver>>
    PROVE  entries' \subseteq published' /\ StoredBelow'
<1>1. WalkedOver(r)
  BY DEF CursorInv
<1>2. published \subseteq Entries /\ Entries \subseteq Nat
  BY DocketAssumption DEF DocketTypeOK
<1>3. newEntries[r] \subseteq published
  BY <1>1 DEF WalkedOver, OnDocket
<1>4. ASSUME NEW g \in entries', NEW e \in published, DocketOf[e] = DocketOf[g], e < g
      PROVE  e \in entries' \cup passedOver
  <2>1. CASE g \in entries
    BY <1>4, <2>1 DEF CursorInv, StoredBelow
  <2>2. CASE g \in newEntries[r]
    <3>1. OnDocket(docket[r], g) /\ OnDocket(docket[r], e) /\ e \in Entries /\ g \in Entries
      BY <1>1, <1>2, <1>4, <2>2 DEF WalkedOver, OnDocket
    <3>2. CASE order[r] = "number"
      BY <1>1, <1>4, <2>2, <3>1, <3>2 DEF WalkedOver, Accounted
    <3>3. CASE order[r] = "id"
      <4>1. g <= last[r] /\ last[r] \in Nat
        BY <1>1, <2>2, <3>3 DEF WalkedOver
      <4>2. e <= last[r]
        BY <1>2, <1>4, <3>1, <4>1
      <4> QED
        BY <1>1, <3>1, <3>3, <4>2 DEF WalkedOver, Accounted
    <3> QED
      BY <3>2, <3>3 DEF DocketTypeOK
  <2> QED
    BY <1>4, <2>1, <2>2
<1> QED
  BY <1>3, <1>4 DEF CursorInv, StoredBelow

\* A runner that holds nothing and walks nothing has walked over nothing.
LEMMA AtRest ==
    ASSUME NEW r, newEntries'[r] = {}, pc'[r] \notin {"page", "match", "alert"}
    PROVE  WalkedOver(r)'
BY DEF WalkedOver

\* A walk begins behind the cursor, below which all is accounted for.
LEMMA BeginKeeps ==
    ASSUME DocketInv, CursorInv, NEW r \in Runners, BeginWalk(r)
    PROVE  WalkedOver(r)'
<1>1. /\ pc[r] = "sync" /\ UNCHANGED <<published, entries, newEntries, docket, passedOver>>
      /\ order' = [order EXCEPT ![r] = IF RowsOf(docket[r]) = {} THEN "number" ELSE "id"]
      /\ last' = [last EXCEPT ![r] = Cursor(docket[r])] /\ pc' = [pc EXCEPT ![r] = "page"]
  BY DEF BeginWalk, Goto, tables, task, session, history
<1>2. newEntries'[r] = {} /\ pc'[r] = "page"
  BY <1>1 DEF DocketInv, DocketTypeOK, MatchingIsComplete
<1>3. PICK d, o, c : d = docket[r] /\ c = Cursor(d)
                     /\ o = IF RowsOf(d) = {} THEN "number" ELSE "id"
  OBVIOUS
<1>4. order'[r] = o /\ last'[r] = c /\ docket'[r] = d
  BY <1>1, <1>3 DEF DocketInv, DocketTypeOK, CursorInv
<1>5. entries \subseteq Entries /\ Entries \subseteq Nat \ {0} /\ IsFiniteSet(Entries)
  BY DocketAssumption DEF DocketInv, DocketTypeOK
<1>6. CASE RowsOf(d) = {}
  BY <1>2, <1>3, <1>4, <1>6 DEF WalkedOver
<1>7. CASE RowsOf(d) # {}
  <2>1. c = Max(RowsOf(d)) /\ o = "id"
    BY <1>3, <1>7 DEF Cursor
  <2>2. RowsOf(d) \subseteq Entries
    BY <1>5 DEF RowsOf
  <2>3. RowsOf(d) \subseteq Nat /\ IsFiniteSet(RowsOf(d))
    BY <1>5, <2>2, FS_Subset
  <2>4. c \in RowsOf(d) /\ c \in Nat
    BY <1>7, <2>1, <2>3, FiniteHasMax
  <2>5. c \in entries /\ DocketOf[c] = d
    BY <2>4 DEF RowsOf
  <2>6. c \in Entries /\ OnDocket(d, c)'
    BY <1>1, <1>5, <2>5 DEF OnDocket, CursorInv
  <2>7. ASSUME NEW e \in Entries, OnDocket(d, e)', e <= c PROVE e \in Accounted(r)'
    <3>1. e \in Nat /\ e \in published /\ DocketOf[e] = d
      BY <1>1, <1>5, <2>7 DEF OnDocket
    <3>2. e \in entries \cup passedOver
      BY <2>4, <2>5, <2>7, <3>1 DEF CursorInv, StoredBelow
    <3> QED
      BY <1>1, <3>2 DEF Accounted
  <2> QED
    BY <1>2, <1>4, <2>1, <2>4, <2>6, <2>7 DEF WalkedOver
<1> QED
  BY <1>6, <1>7

\* A page of a later walk holds the next ids, none left out.
LEMMA PageIsNext ==
    ASSUME DocketTypeOK, NEW r \in Runners, order[r] = "id",
           NEW g \in Page(r), NEW e \in Ahead(r), e <= g
    PROVE  e \in Page(r)
<1> DEFINE Below(x) == {f \in Ahead(r) : Place(r, f) < Place(r, x)}
<1>1. Ahead(r) \subseteq Entries /\ g \in Ahead(r) /\ Cardinality(Below(g)) < PageSize
  BY DEF Page, Ahead, DocketTypeOK
<1>2. \A f : Place(r, f) = f
  BY DEF Place
<1>3. Below(e) \subseteq Below(g)
  <2> SUFFICES ASSUME NEW f \in Below(e) PROVE f < g
    BY <1>2
  <2>1. f \in Nat /\ e \in Nat /\ g \in Nat
    BY <1>1, DocketAssumption
  <2>2. f < e
    BY <1>2
  <2> QED
    BY <2>1, <2>2
<1>4. IsFiniteSet(Below(g))
  BY <1>1, DocketAssumption, FS_Subset
<1>5. Cardinality(Below(e)) <= Cardinality(Below(g)) /\ Cardinality(Below(e)) \in Nat
      /\ Cardinality(Below(g)) \in Nat
  BY <1>3, <1>4, FS_Subset, FS_CardinalityType
<1>6. Cardinality(Below(e)) < PageSize
  BY <1>1, <1>5, DocketAssumption
<1> QED
  BY <1>6 DEF Page

\* A page is walked over: all up to its last id is accounted for, and where a first
\* walk ends, all that is there.
LEMMA PageKeeps ==
    ASSUME DocketInv, CursorInv, NEW r \in Runners, FetchPage(r)
    PROVE  WalkedOver(r)'
<1>1. /\ pc[r] = "page" /\ UNCHANGED <<published, entries, docket, order>>
      /\ newEntries' = [newEntries EXCEPT ![r] = newEntries[r] \cup (Page(r) \ entries)]
      /\ last' = [last EXCEPT ![r] = Max({last[r]} \cup {Place(r, e) : e \in Page(r)})]
      /\ pc' = [pc EXCEPT ![r] = IF LastPage(r) THEN "match" ELSE "page"]
      /\ passedOver' = passedOver \cup LeftOut(r)
  BY DEF FetchPage, Goto, tables, task
<1>2. DocketTypeOK /\ WalkedOver(r)
  BY DEF DocketInv, CursorInv
<1>3. PICK d, P : d = docket[r] /\ P = Page(r)
  OBVIOUS
<1>4. /\ newEntries'[r] = newEntries[r] \cup (P \ entries) /\ docket'[r] = d
      /\ order'[r] = order[r]
      /\ pc'[r] = IF LastPage(r) THEN "match" ELSE "page"
  BY <1>1, <1>2, <1>3 DEF DocketTypeOK
<1>5. \A e \in P : e \in Entries /\ OnDocket(d, e) /\ Place(r, e) > last[r]
  BY <1>2, <1>3 DEF Page, Ahead, OnDocket, DocketTypeOK
<1>6. Entries \subseteq Nat \ {0} /\ IsFiniteSet(Entries)
  BY DocketAssumption
<1>7. \A c, e : OnDocket(c, e)' = OnDocket(c, e)
  BY <1>1 DEF OnDocket
<1>8. \A g \in newEntries'[r] : OnDocket(d, g)
  BY <1>2, <1>3, <1>4, <1>5 DEF WalkedOver
<1>9. CASE order[r] = "number"
  <2>1. ASSUME pc'[r] = "match", NEW e \in Entries, OnDocket(d, e) PROVE e \in Accounted(r)'
    <3>1. LastPage(r)  BY <1>4, <2>1
    <3>2. CASE e \in batch[r] \cup P
      <4>1. batch[r] \subseteq entries \cup newEntries[r]
        BY <1>1 DEF DocketInv, MatchingIsComplete
      <4>2. e \in entries \cup newEntries'[r]
        BY <1>4, <3>2, <4>1
      <4> QED
        BY <1>1, <4>2 DEF Accounted
    <3>3. CASE e \notin batch[r] \cup P
      <4>1. e \in LeftOut(r)
        BY <1>3, <1>9, <2>1, <3>1, <3>3 DEF LeftOut, Seen, OnDocket
      <4> QED
        BY <1>1, <4>1 DEF Accounted
    <3> QED
      BY <3>2, <3>3
  <2>2. pc'[r] \in {"page", "match"}
    BY <1>4
  <2> QED
    BY <1>4, <1>7, <1>8, <1>9, <2>1, <2>2 DEF WalkedOver
<1>10. CASE order[r] = "id"
  <2>1. PICK l : l = last[r]
    OBVIOUS
  <2> DEFINE T == {l} \cup P
  <2>2. \A e : Place(r, e) = e
    BY <1>10 DEF Place
  <2>3. last'[r] = Max(T)
    <3>1. r \in DOMAIN last
      BY DEF CursorInv
    <3>2. {last[r]} \cup {Place(r, e) : e \in Page(r)} = T
      BY <1>3, <2>1, <2>2
    <3> QED
      BY <1>1, <3>1, <3>2
  <2>4. /\ l \in Nat /\ (l = 0 \/ OnDocket(d, l))
        /\ \A g \in newEntries[r] : g <= l
        /\ \A e \in Entries : OnDocket(d, e) /\ e <= l => e \in Accounted(r)
    BY <1>1, <1>2, <1>3, <1>10, <2>1 DEF WalkedOver
  <2>5. P \subseteq Entries /\ \A e \in P : e > l
    BY <1>5, <2>1, <2>2
  <2>6. IsFiniteSet(T) /\ T \subseteq Nat /\ T # {}
    <3>1. IsFiniteSet(P)
      BY <1>6, <2>5, FS_Subset
    <3>2. IsFiniteSet({l})
      BY FS_Singleton
    <3> QED
      BY <1>6, <2>4, <2>5, <3>1, <3>2, FS_Union
  <2>7. PICK m : m = Max(T)
    OBVIOUS
  <2>8. m \in T /\ m \in Nat /\ \A n \in T : n <= m
    BY <2>6, <2>7, FiniteHasMax
  <2> HIDE DEF T
  <2>9. m = l \/ m \in P
    BY <2>8 DEF T
  <2>10. m = 0 \/ OnDocket(d, m)
    BY <1>5, <2>4, <2>9
  <2>11. \A g \in newEntries'[r] : g <= m
    <3>1. l <= m /\ \A e \in P : e <= m
      BY <2>8 DEF T
    <3>2. newEntries[r] \subseteq Nat
      BY <1>2, <1>6 DEF DocketTypeOK
    <3>3. ASSUME NEW g \in newEntries[r] PROVE g <= m
      BY <2>4, <2>8, <3>1, <3>2, <3>3
    <3> QED
      BY <1>4, <3>1, <3>3
  <2>12. Accounted(r) \cup P \subseteq Accounted(r)'
    BY <1>1, <1>4 DEF Accounted
  <2>13. ASSUME NEW e \in Entries, OnDocket(d, e), e <= m PROVE e \in Accounted(r)'
    <3>1. CASE e <= l
      BY <2>4, <2>12, <2>13, <3>1
    <3>2. CASE ~(e <= l)
      <4>1. e \in Ahead(r)
        BY <1>3, <1>6, <2>1, <2>2, <2>4, <2>13, <3>2 DEF Ahead, OnDocket
      <4>2. m \in P
        BY <2>9, <2>13, <3>2
      <4>3. e \in P
        BY <1>2, <1>3, <1>10, <2>13, <4>1, <4>2, PageIsNext
      <4> QED
        BY <2>12, <4>3
    <3> QED
      BY <3>1, <3>2
  <2> QED
    BY <1>4, <1>7, <1>8, <1>10, <2>3, <2>7, <2>8, <2>10, <2>11, <2>13 DEF WalkedOver
<1> QED
  BY <1>2, <1>9, <1>10 DEF DocketTypeOK

\* What another runner does touches nothing of q's walk.
SameWalk(q) ==
    /\ newEntries'[q] = newEntries[q] /\ pc'[q] = pc[q] /\ docket'[q] = docket[q]
    /\ order'[q] = order[q] /\ last'[q] = last[q]

\* One runner moves: its walk is settled, and what is stored is closed below.
LEMMA OneWalks ==
    ASSUME CursorInv, NEW r \in Runners, WalkedOver(r)', published' = published,
           entries \subseteq entries', entries' \subseteq published', StoredBelow',
           passedOver \subseteq passedOver',
           last' = [q \in Runners |-> last'[q]],
           \A q \in Runners \ {r} : SameWalk(q)
    PROVE  CursorInv'
<1>1. ASSUME NEW q \in Runners PROVE WalkedOver(q)'
  <2>1. CASE q = r
    BY <2>1
  <2>2. CASE q # r
    <3>1. SameWalk(q) /\ WalkedOver(q)
      BY <2>2 DEF CursorInv
    <3> QED
      BY <3>1, OthersWalked DEF SameWalk
  <2> QED
    BY <2>1, <2>2
<1> QED
  BY <1>1 DEF CursorInv

\* The same where nothing is committed.
LEMMA OneWalksUnsaved ==
    ASSUME CursorInv, NEW r \in Runners, WalkedOver(r)', UNCHANGED <<published, entries>>,
           passedOver \subseteq passedOver',
           last' = [q \in Runners |-> last'[q]],
           \A q \in Runners \ {r} : SameWalk(q)
    PROVE  CursorInv'
<1>1. entries \subseteq entries' /\ entries' \subseteq published' /\ StoredBelow'
  BY DEF CursorInv, StoredBelow
<1> QED
  BY <1>1, OneWalks

\* A runner that moves outside a walk holds nothing.
LEMMA OutsideKeeps ==
    ASSUME DocketInv, CursorInv, NEW r \in Runners,
           UNCHANGED <<published, entries, newEntries, order, last, passedOver>>,
           pc[r] \notin {"page", "match", "alert"}, pc'[r] \notin {"page", "match", "alert"},
           \A q \in Runners \ {r} : pc'[q] = pc[q] /\ docket'[q] = docket[q]
    PROVE  CursorInv'
<1>1. newEntries'[r] = {}
  BY DEF DocketInv, MatchingIsComplete
<1>2. WalkedOver(r)'
  BY <1>1, AtRest
<1>3. last' = [q \in Runners |-> last'[q]]
  BY DEF CursorInv
<1>4. \A q \in Runners \ {r} : SameWalk(q)
  BY DEF SameWalk
<1> QED
  BY <1>2, <1>3, <1>4, OneWalksUnsaved

\* A rollback settles the walk it ends.
LEMMA DiscardWalks ==
    ASSUME DocketTypeOK, CursorInv, NEW r \in Runners, UNCHANGED <<published, entries, passedOver>>,
           Discard(r), EndWalk(r), EndTask(r),
           NEW place, Goto(r, place), place \notin {"page", "match", "alert"}
    PROVE  CursorInv'
<1>1. /\ newEntries' = [newEntries EXCEPT ![r] = {}] /\ pc' = [pc EXCEPT ![r] = place]
      /\ order' = [order EXCEPT ![r] = "number"] /\ last' = [last EXCEPT ![r] = 0]
      /\ docket' = [docket EXCEPT ![r] = None]
  BY DEF Discard, EndWalk, EndTask, Goto
<1>2. newEntries'[r] = {} /\ pc'[r] = place
  BY <1>1 DEF DocketTypeOK
<1>3. WalkedOver(r)'
  BY <1>2, AtRest
<1>4. last' = [q \in Runners |-> last'[q]]
  BY <1>1 DEF CursorInv
<1>5. \A q \in Runners \ {r} : SameWalk(q)
  BY <1>1 DEF SameWalk, DocketTypeOK, CursorInv
<1> QED
  BY <1>3, <1>4, <1>5, OneWalksUnsaved

\* A commit at the end of the matching, early or last.
LEMMA CommitWalks ==
    ASSUME DocketTypeOK, CursorInv, NEW r \in Runners, pc[r] = "alert",
           CommitRows(r), UNCHANGED <<published, passedOver>>,
           newEntries' = [newEntries EXCEPT ![r] = {}],
           last' = [q \in Runners |-> last'[q]],
           \/ pc'[r] \notin {"page", "match", "alert"}
           \/ UNCHANGED <<order, last, docket, pc>>,
           \A q \in Runners \ {r} : SameWalk(q)
    PROVE  CursorInv'
<1>1. entries' = entries \cup newEntries[r]
  BY DEF CommitRows
<1>2. entries \subseteq entries' /\ entries' \subseteq published' /\ StoredBelow'
  BY <1>1, CommitCloses
<1>3. newEntries'[r] = {}
  BY DEF DocketTypeOK
<1>4. WalkedOver(r)'
  <2>1. CASE pc'[r] \notin {"page", "match", "alert"}
    BY <1>3, <2>1, AtRest
  <2>2. CASE UNCHANGED <<order, last, docket, pc>>
    <3>1. WalkedOver(r)
      BY DEF CursorInv
    <3>2. Accounted(r)' = Accounted(r)
      BY <1>1, <1>3 DEF Accounted
    <3> QED
      BY <1>3, <2>2, <3>1, <3>2 DEF WalkedOver, OnDocket
  <2> QED
    BY <2>1, <2>2
<1> QED
  BY <1>2, <1>4, OneWalks

\* No step of anyone opens a gap.
LEMMA CursorStep ==
    ASSUME DocketInv, CursorInv, [DocketNext]_docketVars
    PROVE  CursorInv'
<1>0. DocketTypeOK
  BY DEF DocketInv
<1> USE DEF tables, session, walk, task, history
<1>1. ASSUME NEW e \in Entries, Publish(e) PROVE CursorInv'
  BY <1>0, <1>1, PublishKeeps
<1>2. ASSUME UNCHANGED <<published, entries, pc, task, walk, session, passedOver>> PROVE CursorInv'
  <2>1. \A r \in Runners : WalkedOver(r)'
    BY <1>2 DEF CursorInv, WalkedOver, OnDocket, Accounted
  <2> QED
    BY <1>2, <2>1 DEF CursorInv, StoredBelow
<1>3. ASSUME NEW i \in Issuers, OverlookEvidence(i) PROVE CursorInv'
  BY <1>2, <1>3 DEF OverlookEvidence
<1>4. ASSUME NEW i \in Issuers, NEW d \in Dockets, LinkCurated(i, d) PROVE CursorInv'
  BY <1>2, <1>4 DEF LinkCurated
<1>5. ASSUME NEW r \in Runners, NEW i \in Issuers, StartAutoLink(r, i) PROVE CursorInv'
  <2>1. /\ UNCHANGED <<published, entries, newEntries, order, last, docket, passedOver>>
        /\ pc[r] = "idle" /\ pc' = [pc EXCEPT ![r] = "search"]
    BY <1>5 DEF StartAutoLink, Goto
  <2>2. pc'[r] = "search" /\ \A q \in Runners \ {r} : pc'[q] = pc[q]
    BY <1>0, <2>1 DEF DocketTypeOK
  <2> QED
    BY <2>1, <2>2, OutsideKeeps
<1>6. ASSUME NEW r \in Runners, NEW d \in Dockets, StartSync(r, d) PROVE CursorInv'
  <2>1. /\ UNCHANGED <<published, entries, newEntries, order, last, passedOver>>
        /\ docket' = [docket EXCEPT ![r] = d]
        /\ pc[r] = "idle" /\ pc' = [pc EXCEPT ![r] = "sync"]
    BY <1>6 DEF StartSync, Goto
  <2>2. pc'[r] = "sync" /\ \A q \in Runners \ {r} : pc'[q] = pc[q] /\ docket'[q] = docket[q]
    BY <1>0, <2>1 DEF DocketTypeOK
  <2> QED
    BY <2>1, <2>2, OutsideKeeps
<1>7. ASSUME NEW r \in Runners, Search(r) PROVE CursorInv'
  <2>1. UNCHANGED <<published, entries, newEntries, order, last, passedOver>> /\ pc[r] = "search"
    BY <1>7 DEF Search
  <2>2. PICK place, d :
            /\ place \in {"sync", "record"} /\ pc' = [pc EXCEPT ![r] = place]
            /\ (docket' = [docket EXCEPT ![r] = d] \/ docket' = docket)
    BY <1>7 DEF Search, Goto
  <2>3. pc'[r] = place /\ \A q \in Runners \ {r} : pc'[q] = pc[q] /\ docket'[q] = docket[q]
    BY <1>0, <2>2 DEF DocketTypeOK
  <2> QED
    BY <2>1, <2>2, <2>3, OutsideKeeps
<1>8. ASSUME NEW r \in Runners, RecordAttempt(r) PROVE CursorInv'
  <2>1. /\ UNCHANGED <<published, entries, newEntries, order, last, docket, passedOver>>
        /\ pc[r] = "record" /\ pc' = [pc EXCEPT ![r] = "done"]
    BY <1>8 DEF RecordAttempt, Goto
  <2>2. pc'[r] = "done" /\ \A q \in Runners \ {r} : pc'[q] = pc[q]
    BY <1>0, <2>1 DEF DocketTypeOK
  <2> QED
    BY <2>1, <2>2, OutsideKeeps
<1>9. ASSUME NEW r \in Runners, Return(r) PROVE CursorInv'
  <2>1. /\ UNCHANGED <<published, entries, newEntries, order, last, passedOver>>
        /\ docket' = [docket EXCEPT ![r] = None]
        /\ pc[r] \in {"done", "raised"} /\ pc' = [pc EXCEPT ![r] = "idle"]
    BY <1>9 DEF Return, Goto, EndTask
  <2>2. pc'[r] = "idle" /\ \A q \in Runners \ {r} : pc'[q] = pc[q] /\ docket'[q] = docket[q]
    BY <1>0, <2>1 DEF DocketTypeOK
  <2> QED
    BY <2>1, <2>2, OutsideKeeps
<1>10. ASSUME NEW r \in Runners, BeginWalk(r) PROVE CursorInv'
  <2>1. PICK o, c : /\ UNCHANGED <<published, entries, newEntries, docket, passedOver>>
                    /\ order' = [order EXCEPT ![r] = o] /\ last' = [last EXCEPT ![r] = c]
                    /\ pc' = [pc EXCEPT ![r] = "page"]
    BY <1>10 DEF BeginWalk, Goto
  <2>2. \A q \in Runners \ {r} : SameWalk(q)
    BY <1>0, <2>1 DEF SameWalk, DocketTypeOK, CursorInv
  <2>3. last' = [q \in Runners |-> last'[q]]
    BY <2>1 DEF CursorInv
  <2>4. WalkedOver(r)'
    BY <1>10, BeginKeeps
  <2> QED
    BY <2>1, <2>2, <2>3, <2>4, OneWalksUnsaved
<1>11. ASSUME NEW r \in Runners, FetchPage(r) PROVE CursorInv'
  <2>1. PICK n, m, p : /\ UNCHANGED <<published, entries, order, docket>>
                       /\ newEntries' = [newEntries EXCEPT ![r] = n]
                       /\ last' = [last EXCEPT ![r] = m] /\ pc' = [pc EXCEPT ![r] = p]
    <3>1. UNCHANGED <<published, entries, order, docket>>
      BY <1>11 DEF FetchPage
    <3>2. \E n : newEntries' = [newEntries EXCEPT ![r] = n]
      BY <1>11 DEF FetchPage
    <3>3. \E m : last' = [last EXCEPT ![r] = m]
      BY <1>11 DEF FetchPage
    <3>4. \E p : pc' = [pc EXCEPT ![r] = p]
      BY <1>11 DEF FetchPage, Goto
    <3> QED
      BY <3>1, <3>2, <3>3, <3>4
  <2>2. \A q \in Runners \ {r} : SameWalk(q)
    BY <1>0, <2>1 DEF SameWalk, DocketTypeOK, CursorInv
  <2>3. last' = [q \in Runners |-> last'[q]]
    BY <2>1 DEF CursorInv
  <2>4. WalkedOver(r)'
    BY <1>11, PageKeeps
  <2>5. passedOver \subseteq passedOver'
    BY <1>11 DEF FetchPage
  <2> QED
    BY <2>1, <2>2, <2>3, <2>4, <2>5, OneWalksUnsaved
<1>12. ASSUME NEW r \in Runners, MatchBatch(r) PROVE CursorInv'
  <2>1. /\ UNCHANGED <<published, entries, newEntries, order, last, docket, passedOver>>
        /\ pc[r] = "match" /\ pc' = [pc EXCEPT ![r] = "alert"]
    BY <1>12 DEF MatchBatch, Goto
  <2>2. pc'[r] = "alert" /\ \A q \in Runners \ {r} : SameWalk(q)
    BY <1>0, <2>1 DEF DocketTypeOK, SameWalk
  <2>3. WalkedOver(r)
    BY DEF CursorInv
  <2>4. WalkedOver(r)'
    BY <2>1, <2>2, <2>3 DEF WalkedOver, OnDocket, Accounted
  <2>5. last' = [q \in Runners |-> last'[q]]
    BY <2>1 DEF CursorInv
  <2> QED
    BY <2>1, <2>2, <2>4, <2>5, OneWalksUnsaved
<1>13. ASSUME NEW r \in Runners, NEW e \in Entries,
              SkipBundle(r, e) \/ AlertWithoutModel(r, e) \/ DeferBundle(r, e)
       PROVE  CursorInv'
  <2>1. UNCHANGED <<published, entries, newEntries, order, last, docket, pc, passedOver>>
    BY <1>13 DEF SkipBundle, AlertWithoutModel, DeferBundle, TakeBundle, NoWrites
  <2>2. \A q \in Runners : WalkedOver(q)'
    BY <2>1 DEF CursorInv, WalkedOver, OnDocket, Accounted
  <2> QED
    BY <2>1, <2>2 DEF CursorInv, StoredBelow
<1>14. ASSUME NEW r \in Runners, NEW e \in Entries, AlertAfterModel(r, e) PROVE CursorInv'
  <2>1. /\ UNCHANGED <<published, order, last, docket, pc, passedOver>>
        /\ CommitRows(r) /\ pc[r] = "alert"
        /\ newEntries' = [newEntries EXCEPT ![r] = {}]
    BY <1>14 DEF AlertAfterModel, TakeBundle
  <2>2. \A q \in Runners \ {r} : SameWalk(q)
    BY <1>0, <2>1 DEF SameWalk, DocketTypeOK
  <2>3. last' = [q \in Runners |-> last'[q]]
    BY <2>1 DEF CursorInv
  <2> QED
    BY <1>0, <2>1, <2>2, <2>3, CommitWalks
<1>15. ASSUME NEW r \in Runners, CommitSync(r) PROVE CursorInv'
  <2>1. /\ UNCHANGED <<published, passedOver>> /\ CommitRows(r) /\ pc[r] = "alert"
        /\ newEntries' = [newEntries EXCEPT ![r] = {}]
        /\ order' = [order EXCEPT ![r] = "number"] /\ last' = [last EXCEPT ![r] = 0]
    BY <1>15 DEF CommitSync, Discard, EndWalk
  <2>2. /\ pc' = [pc EXCEPT ![r] = "record"] \/ pc' = [pc EXCEPT ![r] = "idle"]
        /\ docket' = docket \/ docket' = [docket EXCEPT ![r] = None]
    BY <1>15 DEF CommitSync, Goto, EndTask
  <2>3. pc'[r] \notin {"page", "match", "alert"}
    BY <1>0, <2>2 DEF DocketTypeOK
  <2>4. \A q \in Runners \ {r} : SameWalk(q)
    BY <1>0, <2>1, <2>2 DEF SameWalk, DocketTypeOK, CursorInv
  <2>5. last' = [q \in Runners |-> last'[q]]
    BY <2>1 DEF CursorInv
  <2> QED
    BY <1>0, <2>1, <2>3, <2>4, <2>5, CommitWalks
<1>16. ASSUME NEW r \in Runners, Raise(r), UNCHANGED passedOver PROVE CursorInv'
  <2>1. PICK place \in {"raised", "idle"} : Goto(r, place)
    BY <1>16 DEF Raise
  <2> QED
    BY <1>0, <1>16, <2>1, DiscardWalks DEF Raise
<1>17. ASSUME NEW r \in Runners, SourceFails(r) \/ InsertConflicts(r) \/ EvidenceGone(r) PROVE CursorInv'
  BY <1>16, <1>17 DEF SourceFails, InsertConflicts, EvidenceGone
<1>18. ASSUME NEW r \in Runners, Crash(r) PROVE CursorInv'
  BY <1>0, <1>18, DiscardWalks DEF Crash
<1>19. ASSUME UNCHANGED docketVars PROVE CursorInv'
  BY <1>2, <1>19 DEF docketVars
<1>20. ASSUME NEW r \in Runners, DocketStep(r) PROVE CursorInv'
  BY <1>7, <1>8, <1>10, <1>11, <1>12, <1>13, <1>14, <1>15, <1>17, <1>20 DEF DocketStep
<1> QED
  BY <1>1, <1>3, <1>4, <1>5, <1>6, <1>9, <1>17, <1>18, <1>19, <1>20 DEF DocketNext

LEMMA CursorInitial == DocketInit => CursorInv
BY DEF DocketInit, CursorInv, StoredBelow, WalkedOver

\* The cursor is a stored entry, so what is below it is accounted for.
LEMMA CursorIsStored ==
    ASSUME DocketTypeOK, CursorInv PROVE NoGapBelowCursor
<1> SUFFICES ASSUME NEW e \in published, e < Cursor(DocketOf[e]) PROVE e \in entries \cup passedOver
  BY DEF NoGapBelowCursor
<1>1. PICK c, d : c = Cursor(d) /\ d = DocketOf[e]
  OBVIOUS
<1>2. e \in Nat \ {0} /\ entries \subseteq Nat /\ IsFiniteSet(entries) /\ e < c
  BY <1>1, DocketAssumption, FS_Subset DEF DocketTypeOK
<1>3. RowsOf(d) # {}
  BY <1>1, <1>2 DEF Cursor
<1>4. RowsOf(d) \subseteq Nat /\ IsFiniteSet(RowsOf(d))
  BY <1>2, FS_Subset DEF RowsOf
<1>5. c = Max(RowsOf(d))
  BY <1>1, <1>3 DEF Cursor
<1>6. c \in entries /\ DocketOf[c] = d
  BY <1>3, <1>4, <1>5, FiniteHasMax DEF RowsOf
<1> QED
  BY <1>1, <1>2, <1>6 DEF CursorInv, StoredBelow

(* A sync that starts behind the cursor misses nothing that no first walk left    *)
(* out: whatever is published below the highest id stored for a docket is stored, *)
(* or was there when a first walk of the docket ended without it; later walks,    *)
(* early commits of the router, failures and other runners on the same docket     *)
(* open no gap, whatever the order of the court's numbers.                         *)
THEOREM NothingMissed == DocketSpec => []NoGapBelowCursor
<1>1. DocketInit => CursorInv
  BY CursorInitial
<1>2. DocketInv /\ CursorInv /\ [DocketNext]_docketVars => CursorInv'
  BY CursorStep
<1>3. DocketInv /\ CursorInv => NoGapBelowCursor
  BY CursorIsStored DEF DocketInv
<1> QED
  BY <1>1, <1>2, <1>3, DocketInvHolds, PTL DEF DocketSpec

\* The same of the visits of the orchestrator.
THEOREM VisitsMissNothing == Spec => []NoGapBelowCursor
BY NothingMissed, VisitsImplementDockets, PTL
=============================================================================
