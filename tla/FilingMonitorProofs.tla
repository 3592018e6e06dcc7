------------------------ MODULE FilingMonitorProofs ------------------------
(***************************************************************************)
(* A stored filing carries its evidence, exactly once, for any number of   *)
(* overlapping runners, issuers and filings, whatever fails or crashes.    *)
(* FilingsCarryEvidence speaks of committed rows only; the strengthening   *)
(* says what the open transactions hold: rows no other transaction holds,  *)
(* and evidence for each of them that has been matched.                    *)
(***************************************************************************)
EXTENDS FilingMonitor, TLAPS

USE MonitorAssumption

-----------------------------------------------------------------------------
(* Types. *)

\* What a commit does to the tables is typed.
LEMMA CommitType ==
    ASSUME TypeOK, NEW r \in Runners, CommitRows(r)
    PROVE  rows' \subseteq Filings /\ evidence' \in [Filings -> Nat] /\ alerts' \in [Filings -> Nat]
BY DEF TypeOK, CommitRows, Plus

\* Midnight, and a publication.
LEMMA WorldType ==
    ASSUME TypeOK, NextDay \/ \E f \in Filings : Publish(f) PROVE TypeOK'
<1>1. CASE NextDay
  BY <1>1 DEF TypeOK, NextDay, database, session, run, history
<1>2. ASSUME NEW f \in Filings, Publish(f) PROVE TypeOK'
  <2>1. filedOn' \in [Filings -> Nat \cup {None}]
    BY <1>2 DEF TypeOK, Publish
  <2> QED
    BY <1>2, <2>1 DEF TypeOK, Publish, database, session, run, history
<1> QED
  BY <1>1, <1>2

\* The first day of a window is a day.
LEMMA WindowType ==
    ASSUME TypeOK, NEW m \in {"baseline", "delta", "backfill"} PROVE WindowStart(m) \in Nat
BY DEF TypeOK, WindowStart

\* The start of a run.
LEMMA StartType ==
    ASSUME TypeOK, NEW r \in Runners, NEW m \in Modes, StartRun(r, m) PROVE TypeOK'
<1>1. m \in {"baseline", "delta", "backfill"}
  OBVIOUS
<1>2. WindowStart(m) \in Nat
  BY <1>1, WindowType
<1> QED
  BY <1>1, <1>2 DEF TypeOK, StartRun, world, database, session, history

\* The steps that end the work on an issuer.
LEMMA IssuerType ==
    ASSUME TypeOK, NEW r \in Runners,
           \/ CommitIssuer(r)
           \/ \E i \in Issuers : IssuerRaises(r, i) /\ faults' \in Nat
    PROVE  TypeOK'
<1>1. CASE CommitIssuer(r)
  <2>1. rows' \subseteq Filings /\ evidence' \in [Filings -> Nat] /\ alerts' \in [Filings -> Nat]
    BY <1>1, CommitType DEF CommitIssuer
  <2> QED
    BY <1>1, <2>1 DEF TypeOK, CommitIssuer, IssuerDone, Discard, world, history
<1>2. ASSUME NEW i \in Issuers, IssuerRaises(r, i), faults' \in Nat PROVE TypeOK'
  BY <1>2 DEF TypeOK, IssuerRaises, IssuerDone, Discard, NoWrites, world
<1> QED
  BY <1>1, <1>2

\* The steps of the review of a bundle.
LEMMA ReviewType ==
    ASSUME TypeOK, NEW r \in Runners, bundle[r] \in Filings,
           AlertWithoutModel(r) \/ AlertAfterModel(r) \/ DeferBundle(r)
    PROVE  TypeOK'
<1>1. CASE AlertWithoutModel(r)
  BY <1>1 DEF TypeOK, AlertWithoutModel, Reviewed, NoWrites, world
<1>2. CASE AlertAfterModel(r)
  <2>1. rows' \subseteq Filings /\ evidence' \in [Filings -> Nat] /\ alerts' \in [Filings -> Nat]
    BY <1>2, CommitType DEF AlertAfterModel
  <2> QED
    BY <1>2, <2>1 DEF TypeOK, AlertAfterModel, Reviewed, world
<1>3. CASE DeferBundle(r)
  BY <1>3 DEF TypeOK, DeferBundle, Reviewed, NoWrites, session, world
<1> QED
  BY <1>1, <1>2, <1>3

\* Every step keeps the types.
LEMMA TypeStep ==
    ASSUME EvidenceInv, [Next]_vars PROVE TypeOK'
<1> USE DEF EvidenceInv
<1>1. CASE NextDay \/ \E f \in Filings : Publish(f)
  BY <1>1, WorldType
<1>2. ASSUME NEW r \in Runners, NEW m \in Modes, StartRun(r, m) PROVE TypeOK'
  BY <1>2, StartType
<1>3. ASSUME NEW r \in Runners, NEW i \in Issuers, FetchFilings(r, i) PROVE TypeOK'
  <2>1. InWindow(r, i) \subseteq Filings
    BY DEF InWindow
  <2> QED
    BY <1>3, <2>1 DEF TypeOK, FetchFilings, world, database
<1>4. ASSUME NEW r \in Runners, NEW f \in Filings, MatchFiling(r, f) PROVE TypeOK'
  BY <1>4 DEF TypeOK, MatchFiling, world, database, history
<1>5. ASSUME NEW r \in Runners, NEW f \in Filings, LookUpBundle(r, f) PROVE TypeOK'
  BY <1>5 DEF TypeOK, LookUpBundle, world, database, session, history
<1>6. ASSUME NEW r \in Runners, AlertWithoutModel(r) \/ AlertAfterModel(r) \/ DeferBundle(r)
      PROVE TypeOK'
  <2>1. bundle[r] \in Filings
    BY <1>6 DEF AlertWithoutModel, AlertAfterModel, DeferBundle, Reviewed, MatchingIsComplete
  <2> QED
    BY <1>6, <2>1, ReviewType
<1>7. ASSUME NEW r \in Runners, CommitIssuer(r) PROVE TypeOK'
  BY <1>7, IssuerType
<1>8. ASSUME NEW r \in Runners, NEW i \in Issuers, IssuerFails(r, i) \/ InsertConflicts(r, i)
      PROVE TypeOK'
  <2>1. IssuerRaises(r, i) /\ faults' \in Nat
    BY <1>8 DEF IssuerFails, InsertConflicts, TypeOK
  <2> QED
    BY <2>1, IssuerType
<1>9. ASSUME NEW r \in Runners, CompleteRun(r) PROVE TypeOK'
  <2>1. watermark' \in Nat \cup {None} /\ skipDays' \subseteq Nat
    BY <1>9 DEF TypeOK, CompleteRun, NextWatermark
  <2> QED
    BY <1>9, <2>1 DEF TypeOK, CompleteRun, NoWrites, world, session
<1>10. ASSUME NEW r \in Runners, Crash(r) PROVE TypeOK'
  BY <1>10 DEF TypeOK, Crash, world, database
<1>11. CASE UNCHANGED vars
  BY <1>11 DEF TypeOK, vars, world, database, session, run, history
<1> QED
  BY <1>1, <1>2, <1>3, <1>4, <1>5, <1>6, <1>7, <1>8, <1>9, <1>10, <1>11 DEF Next, RunnerStep

-----------------------------------------------------------------------------
(* What the open transactions hold. *)

\* A commit stores rows together with their evidence.
LEMMA CommitKeepsEvidence ==
    ASSUME EvidenceInv, NEW r \in Runners, CommitRows(r), unread[r] = {}
    PROVE  FilingsCarryEvidence'
<1>1. newEvidence[r] = newRows[r] \cap Distress
  BY DEF EvidenceInv, MatchingIsComplete, TypeOK
<1>2. newRows[r] \cap rows = {}
  BY DEF EvidenceInv, InsertsAreExclusive
<1>3. ASSUME NEW f \in Filings
      PROVE  evidence'[f] = IF f \in rows' /\ f \in Distress THEN 1 ELSE 0
  BY <1>1, <1>2 DEF CommitRows, Plus, EvidenceInv, FilingsCarryEvidence
<1> QED
  BY <1>3 DEF FilingsCarryEvidence

\* The same for a commit, where one transaction starts anew.
LEMMA CommitKeepsTransactions ==
    ASSUME EvidenceInv, NEW r \in Runners, CommitRows(r),
           newRows' = [newRows EXCEPT ![r] = {}],
           newEvidence' = [newEvidence EXCEPT ![r] = {}],
           unread[r] = {}, unread' = unread \/ unread' = [unread EXCEPT ![r] = {}],
           \A q \in Runners : q # r => pc'[q] = pc[q] /\ bundle'[q] = bundle[q],
           pc'[r] \in {"issuers", "match"}
    PROVE  InsertsAreExclusive' /\ MatchingIsComplete'
<1> USE DEF EvidenceInv, TypeOK
<1>1. rows' = rows \cup newRows[r]
  BY DEF CommitRows
<1>2. unread' = unread
  <2>1. unread \in [Runners -> SUBSET Filings] /\ unread[r] = {}
    OBVIOUS
  <2>2. [unread EXCEPT ![r] = {}] = unread
    BY ONLY <2>1
  <2> QED
    BY <2>2
<1>3. InsertsAreExclusive'
  BY <1>1 DEF InsertsAreExclusive
<1>4. MatchingIsComplete'
  BY <1>1, <1>2 DEF MatchingIsComplete
<1> QED
  BY <1>3, <1>4

\* A rollback.
LEMMA RollbackKeepsTransactions ==
    ASSUME EvidenceInv, NEW r \in Runners, NoWrites,
           newRows' = [newRows EXCEPT ![r] = {}],
           newEvidence' = [newEvidence EXCEPT ![r] = {}],
           unread' = [unread EXCEPT ![r] = {}],
           \A q \in Runners : q # r => pc'[q] = pc[q] /\ bundle'[q] = bundle[q],
           pc'[r] \in {"idle", "issuers"}
    PROVE  InsertsAreExclusive' /\ MatchingIsComplete'
<1> USE DEF EvidenceInv, TypeOK
<1>1. InsertsAreExclusive'
  BY DEF InsertsAreExclusive, NoWrites
<1>2. MatchingIsComplete'
  BY DEF MatchingIsComplete, NoWrites
<1> QED
  BY <1>1, <1>2

\* Every step keeps the committed evidence in agreement with the rows.
LEMMA EvidenceStep ==
    ASSUME EvidenceInv, [Next]_vars PROVE FilingsCarryEvidence'
<1>1. CASE rows' = rows /\ evidence' = evidence
  BY <1>1 DEF EvidenceInv, FilingsCarryEvidence
<1>2. ASSUME NEW r \in Runners, AlertAfterModel(r) PROVE FilingsCarryEvidence'
  <2>1. unread[r] = {}
    BY <1>2 DEF AlertAfterModel, Reviewed, EvidenceInv, MatchingIsComplete
  <2> QED
    BY <1>2, <2>1, CommitKeepsEvidence DEF AlertAfterModel
<1>3. ASSUME NEW r \in Runners, CommitIssuer(r) PROVE FilingsCarryEvidence'
  BY <1>3, CommitKeepsEvidence DEF CommitIssuer
<1>4. CASE ~ \E r \in Runners : AlertAfterModel(r) \/ CommitIssuer(r)
  <2>1. rows' = rows /\ evidence' = evidence
    BY <1>4 DEF Next, RunnerStep, vars, database, NextDay, Publish, StartRun, FetchFilings,
       MatchFiling, LookUpBundle, AlertWithoutModel, DeferBundle, IssuerFails, InsertConflicts,
       IssuerRaises, NoWrites, CompleteRun, Crash
  <2> QED
    BY <2>1, <1>1
<1> QED
  BY <1>2, <1>3, <1>4

\* Reading the filings of an issuer takes no row another transaction holds.
LEMMA FetchKeepsTransactions ==
    ASSUME EvidenceInv, NEW r \in Runners, NEW i \in Issuers, FetchFilings(r, i)
    PROVE  InsertsAreExclusive' /\ MatchingIsComplete'
<1> DEFINE W == InWindow(r, i)
<1>1. W \subseteq Filings
  BY DEF InWindow
<1>2. newRows[r] = {} /\ newEvidence[r] = {}
  BY DEF FetchFilings, EvidenceInv, MatchingIsComplete
<1>3. /\ newRows' = [newRows EXCEPT ![r] = W \ rows]
      /\ unread' = [unread EXCEPT ![r] = W]
      /\ newEvidence' = newEvidence /\ rows' = rows /\ bundle' = bundle
      /\ pc' = [pc EXCEPT ![r] = "match"]
  BY <1>2 DEF FetchFilings, database
<1>4. \A q \in Runners \ {r} : newRows[q] \cap W = {}
  BY DEF FetchFilings, Contended
<1> HIDE DEF W
<1> USE DEF EvidenceInv, TypeOK
<1>5. InsertsAreExclusive'
  BY <1>1, <1>3, <1>4 DEF InsertsAreExclusive
<1>6. MatchingIsComplete'
  BY <1>1, <1>2, <1>3 DEF MatchingIsComplete
<1> QED
  BY <1>5, <1>6

\* Matching a filing adds its evidence unless it is there.
LEMMA MatchKeepsTransactions ==
    ASSUME EvidenceInv, NEW r \in Runners, NEW f \in Filings, MatchFiling(r, f)
    PROVE  InsertsAreExclusive' /\ MatchingIsComplete'
<1>1. /\ newRows' = newRows /\ rows' = rows /\ pc' = pc /\ bundle' = bundle
      /\ unread' = [unread EXCEPT ![r] = @ \ {f}]
      /\ pc[r] = "match" /\ f \in unread[r]
  BY DEF MatchFiling, database
<1>2. InsertsAreExclusive'
  BY <1>1 DEF EvidenceInv, InsertsAreExclusive
<1>3. CASE f \in Distress /\ ~HasEvidence(r, f)
  <2>1. newEvidence' = [newEvidence EXCEPT ![r] = @ \cup {f}]
    BY <1>3 DEF MatchFiling
  <2>2. f \notin rows
    BY <1>3 DEF HasEvidence, EvidenceInv, FilingsCarryEvidence
  <2>3. f \in newRows[r]
    BY <1>1, <2>2 DEF EvidenceInv, MatchingIsComplete
  <2> QED
    BY <1>1, <1>2, <1>3, <2>1, <2>3 DEF EvidenceInv, TypeOK, MatchingIsComplete
<1>4. CASE ~(f \in Distress /\ ~HasEvidence(r, f))
  <2>1. newEvidence' = newEvidence
    BY <1>4 DEF MatchFiling, EvidenceInv, TypeOK
  <2>2. f \in newRows[r] \cap Distress => f \in newEvidence[r]
    BY <1>4 DEF HasEvidence, EvidenceInv, FilingsCarryEvidence, InsertsAreExclusive
  <2> QED
    BY <1>1, <1>2, <2>1, <2>2 DEF EvidenceInv, TypeOK, MatchingIsComplete
<1> QED
  BY <1>3, <1>4

\* Every step keeps what is known of the open transactions.
LEMMA TransactionStep ==
    ASSUME EvidenceInv, [Next]_vars PROVE InsertsAreExclusive' /\ MatchingIsComplete'
<1> DEFINE Kept == InsertsAreExclusive' /\ MatchingIsComplete'
<1>1. CASE UNCHANGED <<rows, newRows, newEvidence, unread, pc, bundle>>
  BY <1>1 DEF EvidenceInv, InsertsAreExclusive, MatchingIsComplete
<1>2. CASE NextDay \/ (\E f \in Filings : Publish(f)) \/ UNCHANGED vars
  BY <1>1, <1>2 DEF NextDay, Publish, vars, database, session, run
<1>3. ASSUME NEW r \in Runners, NEW m \in Modes, StartRun(r, m) PROVE Kept
  <2>1. /\ UNCHANGED <<rows, newRows, newEvidence, unread, bundle>>
        /\ pc[r] = "idle" /\ pc' = [pc EXCEPT ![r] = "issuers"]
    BY <1>3 DEF StartRun, database, session
  <2> QED
    BY <2>1 DEF EvidenceInv, TypeOK, InsertsAreExclusive, MatchingIsComplete
<1>4. ASSUME NEW r \in Runners, NEW i \in Issuers, FetchFilings(r, i) PROVE Kept
  BY <1>4, FetchKeepsTransactions
<1>5. ASSUME NEW r \in Runners, NEW f \in Filings, MatchFiling(r, f) PROVE Kept
  BY <1>5, MatchKeepsTransactions
<1>6. ASSUME NEW r \in Runners, NEW f \in Filings, LookUpBundle(r, f) PROVE Kept
  <2>1. /\ UNCHANGED <<rows, newRows, newEvidence, unread>>
        /\ pc[r] = "match" /\ unread[r] = {}
        /\ \/ UNCHANGED <<pc, bundle>>
           \/ pc' = [pc EXCEPT ![r] = "review"] /\ bundle' = [bundle EXCEPT ![r] = f]
    BY <1>6 DEF LookUpBundle, database, session
  <2> QED
    BY <2>1 DEF EvidenceInv, TypeOK, InsertsAreExclusive, MatchingIsComplete
<1>7. ASSUME NEW r \in Runners, AlertWithoutModel(r) \/ DeferBundle(r) PROVE Kept
  <2>1. /\ UNCHANGED <<rows, newRows, newEvidence, unread>>
        /\ pc' = [pc EXCEPT ![r] = "match"] /\ bundle' = [bundle EXCEPT ![r] = None]
    BY <1>7 DEF AlertWithoutModel, DeferBundle, Reviewed, NoWrites, session
  <2>2. pc[r] = "review"
    BY <1>7 DEF AlertWithoutModel, DeferBundle, Reviewed
  <2> QED
    BY <2>1, <2>2 DEF EvidenceInv, TypeOK, InsertsAreExclusive, MatchingIsComplete
<1>8. ASSUME NEW r \in Runners, AlertAfterModel(r) PROVE Kept
  <2>1. /\ CommitRows(r) /\ pc[r] = "review"
        /\ newRows' = [newRows EXCEPT ![r] = {}] /\ newEvidence' = [newEvidence EXCEPT ![r] = {}]
        /\ unread' = unread
        /\ pc' = [pc EXCEPT ![r] = "match"] /\ bundle' = [bundle EXCEPT ![r] = None]
    BY <1>8 DEF AlertAfterModel, Reviewed
  <2>2. unread[r] = {}
    BY <2>1 DEF EvidenceInv, MatchingIsComplete
  <2>3. /\ pc'[r] \in {"issuers", "match"}
        /\ \A q \in Runners : q # r => pc'[q] = pc[q] /\ bundle'[q] = bundle[q]
    BY <2>1 DEF EvidenceInv, TypeOK
  <2> QED
    BY <2>1, <2>2, <2>3, CommitKeepsTransactions
<1>9. ASSUME NEW r \in Runners, CommitIssuer(r) PROVE Kept
  <2>1. /\ CommitRows(r) /\ unread[r] = {}
        /\ newRows' = [newRows EXCEPT ![r] = {}] /\ newEvidence' = [newEvidence EXCEPT ![r] = {}]
        /\ unread' = [unread EXCEPT ![r] = {}]
        /\ pc' = [pc EXCEPT ![r] = "issuers"] /\ bundle' = [bundle EXCEPT ![r] = None]
    BY <1>9 DEF CommitIssuer, IssuerDone, Discard
  <2>2. /\ pc'[r] \in {"issuers", "match"}
        /\ \A q \in Runners : q # r => pc'[q] = pc[q] /\ bundle'[q] = bundle[q]
    BY <2>1 DEF EvidenceInv, TypeOK
  <2> QED
    BY <2>1, <2>2, CommitKeepsTransactions
<1>10. ASSUME NEW r \in Runners, Crash(r) \/ \E i \in Issuers : IssuerRaises(r, i) PROVE Kept
  <2>1. /\ NoWrites
        /\ newRows' = [newRows EXCEPT ![r] = {}] /\ newEvidence' = [newEvidence EXCEPT ![r] = {}]
        /\ unread' = [unread EXCEPT ![r] = {}] /\ bundle' = [bundle EXCEPT ![r] = None]
        /\ \/ pc' = [pc EXCEPT ![r] = "idle"]
           \/ pc' = [pc EXCEPT ![r] = "issuers"]
    BY <1>10 DEF Crash, IssuerRaises, IssuerDone, Discard, NoWrites, database
  <2>2. /\ pc'[r] \in {"idle", "issuers"}
        /\ \A q \in Runners : q # r => pc'[q] = pc[q] /\ bundle'[q] = bundle[q]
    BY <2>1 DEF EvidenceInv, TypeOK
  <2> QED
    BY <2>1, <2>2, RollbackKeepsTransactions
<1>11. ASSUME NEW r \in Runners, CompleteRun(r) PROVE Kept
  <2>1. /\ UNCHANGED <<rows, newRows, newEvidence, unread, bundle>>
        /\ pc[r] = "issuers" /\ pc' = [pc EXCEPT ![r] = "idle"]
    BY <1>11 DEF CompleteRun, NoWrites, session
  <2> QED
    BY <2>1 DEF EvidenceInv, TypeOK, InsertsAreExclusive, MatchingIsComplete
<1> QED
  BY <1>2, <1>3, <1>4, <1>5, <1>6, <1>7, <1>8, <1>9, <1>10, <1>11
     DEF Next, RunnerStep, IssuerFails, InsertConflicts

-----------------------------------------------------------------------------
(* The theorems. *)

\* A stored filing carries its evidence once, and the open transactions are as
\* the argument needs them, however many runs overlap, fail or crash.
THEOREM EvidenceInvariant == Spec => []EvidenceInv
<1>1. Init => EvidenceInv
  BY DEF Init, EvidenceInv, TypeOK, FilingsCarryEvidence, InsertsAreExclusive, MatchingIsComplete
<1>2. EvidenceInv /\ [Next]_vars => EvidenceInv'
  BY TypeStep, EvidenceStep, TransactionStep DEF EvidenceInv
<1> QED
  BY <1>1, <1>2, PTL DEF Spec

\* process_issuer_filings and run_monitor never leave a stored filing without
\* the evidence of the rules it matches, or with that evidence twice.
THEOREM EvidenceComplete == Spec => []FilingsCarryEvidence
BY EvidenceInvariant, PTL DEF EvidenceInv

-----------------------------------------------------------------------------
(* The watermark.  Two assumptions delimit what the code achieves: no run is *)
(* at work at midnight, and there are no backfills.                          *)

\* A step that keeps the calendar, the rows and the progress of every run.
LEMMA WatermarkKept ==
    ASSUME WatermarkInv,
           UNCHANGED <<today, filedOn, watermark, skipDays, rows, pc, mode, since, todo, failed,
                       current, newRows>>
    PROVE  WatermarkInv'
BY DEF WatermarkInv, NothingSkipped, WindowsCovered, DaysAgree, GivenUp, FiledBefore

\* A publication: the watermark has not passed today, or has given it up.
LEMMA PublishKeepsWatermark ==
    ASSUME EvidenceInv, WatermarkInv, NEW f \in Filings, Publish(f) PROVE WatermarkInv'
<1>1. /\ UNCHANGED <<today, watermark, skipDays, rows, pc, mode, since, todo, failed, current,
                     newRows>>
      /\ filedOn' = [filedOn EXCEPT ![f] = today]
  BY DEF Publish, database, session, run, history
<1>2. today \in Nat /\ watermark \in Nat \cup {None} /\ filedOn \in [Filings -> Nat \cup {None}]
  BY DEF EvidenceInv, TypeOK
<1>3. /\ filedOn'[f] = today
      /\ \A g \in Filings : g # f => filedOn'[g] = filedOn[g]
  BY <1>1, <1>2
<1>4. today >= 1 /\ (watermark # None => watermark <= today /\ watermark \in skipDays)
  BY DEF WatermarkInv, DaysAgree
<1>5. NothingSkipped'
  <2>1. ASSUME NEW g \in Filings, filedOn'[g] # None, watermark # None
        PROVE  filedOn'[g] > watermark \/ filedOn'[g] \in skipDays \/ g \in rows
    <3>1. CASE g = f
      BY <1>2, <1>3, <1>4, <2>1, <3>1
    <3>2. CASE g # f
      BY <1>3, <2>1, <3>2 DEF WatermarkInv, NothingSkipped
    <3> QED
      BY <3>1, <3>2
  <2> QED
    BY <1>1, <2>1 DEF NothingSkipped
<1>6. WindowsCovered'
  <2>1. ~FiledBefore(f, today - 1)'
    BY <1>1, <1>2, <1>3 DEF FiledBefore
  <2>2. \A g \in Filings : g # f =>
           (FiledBefore(g, today - 1)' <=> FiledBefore(g, today - 1)) /\ (GivenUp(g)' <=> GivenUp(g))
    BY <1>1, <1>3 DEF FiledBefore, GivenUp
  <2> QED
    BY <1>1, <1>3, <2>1, <2>2 DEF WatermarkInv, WindowsCovered
<1>7. DaysAgree'
  BY <1>1, <1>2, <1>3 DEF WatermarkInv, DaysAgree
<1> QED
  BY <1>5, <1>6, <1>7 DEF WatermarkInv

\* Midnight, when no run is at work.
LEMMA MidnightKeepsWatermark ==
    ASSUME EvidenceInv, WatermarkInv, "overnight" \notin Faults, NextDay PROVE WatermarkInv'
<1>1. /\ UNCHANGED <<filedOn, watermark, skipDays, rows, pc, mode, since>>
      /\ today' = today + 1 /\ \A r \in Runners : pc[r] = "idle"
  BY DEF NextDay, database, run, history
<1>2. today \in Nat /\ watermark \in Nat \cup {None} /\ filedOn \in [Filings -> Nat \cup {None}]
  BY DEF EvidenceInv, TypeOK
<1>3. NothingSkipped'
  BY <1>1 DEF WatermarkInv, NothingSkipped
<1>4. WindowsCovered'
  BY <1>1 DEF WindowsCovered
<1>5. DaysAgree'
  <2>1. \A f \in Filings : filedOn[f] # None => filedOn[f] \in 1..(today + 1)
    BY <1>2 DEF WatermarkInv, DaysAgree
  <2>2. today + 1 >= 1 /\ (watermark # None => watermark <= today + 1)
    BY <1>2 DEF WatermarkInv, DaysAgree
  <2> QED
    BY <1>1, <2>1, <2>2 DEF WatermarkInv, DaysAgree
<1> QED
  BY <1>3, <1>4, <1>5 DEF WatermarkInv

\* A delta run starts where the watermark is: it has nothing behind it that the
\* watermark has not.
LEMMA StartKeepsWatermark ==
    ASSUME EvidenceInv, WatermarkInv, "backfill" \notin Modes,
           NEW r \in Runners, NEW m \in Modes, StartRun(r, m)
    PROVE  WatermarkInv'
<1>1. /\ UNCHANGED <<today, filedOn, watermark, skipDays, rows, newRows, current>>
      /\ pc' = [pc EXCEPT ![r] = "issuers"] /\ mode' = [mode EXCEPT ![r] = m]
      /\ since' = [since EXCEPT ![r] = WindowStart(m)]
      /\ todo' = [todo EXCEPT ![r] = IF m = "baseline" THEN {} ELSE Issuers]
      /\ failed' = [failed EXCEPT ![r] = {}]
  BY DEF StartRun, world, database, session, history
<1>2. m \in {"baseline", "delta"}
  OBVIOUS
<1>3. /\ WindowStart(m) \in Nat /\ WindowStart(m) <= today
      /\ m = "delta" => WindowStart(m) = IF watermark = None THEN 0 ELSE watermark
  BY <1>2 DEF WindowStart, EvidenceInv, TypeOK, WatermarkInv, DaysAgree
<1>4. NothingSkipped'
  BY <1>1 DEF WatermarkInv, NothingSkipped
<1>5. WindowsCovered'
  <2>1. ASSUME NEW f \in Filings, m = "delta", FiledBefore(f, today - 1)
        PROVE  /\ filedOn[f] <= WindowStart(m) => GivenUp(f)
               /\ IssuerOf[f] \in Issuers
    BY <1>3, <2>1 DEF WatermarkInv, NothingSkipped, DaysAgree, GivenUp, FiledBefore, EvidenceInv, TypeOK
  <2>2. /\ since'[r] = WindowStart(m) /\ mode'[r] = m /\ pc'[r] = "issuers"
        /\ m = "delta" => todo'[r] = Issuers
        /\ \A q \in Runners : q # r =>
              /\ pc'[q] = pc[q] /\ mode'[q] = mode[q] /\ since'[q] = since[q]
              /\ todo'[q] = todo[q] /\ failed'[q] = failed[q]
    BY <1>1 DEF EvidenceInv, TypeOK
  <2>3. \A f \in Filings : (FiledBefore(f, today - 1)' <=> FiledBefore(f, today - 1))
                          /\ (GivenUp(f)' <=> GivenUp(f))
    BY <1>1 DEF FiledBefore, GivenUp
  <2> QED
    BY <1>1, <2>1, <2>2, <2>3 DEF WatermarkInv, WindowsCovered
<1>6. DaysAgree'
  BY <1>1, <1>2, <1>3 DEF EvidenceInv, TypeOK, WatermarkInv, DaysAgree
<1> QED
  BY <1>4, <1>5, <1>6 DEF WatermarkInv

\* Reading an issuer takes every filing of its window.
LEMMA FetchKeepsWatermark ==
    ASSUME EvidenceInv, WatermarkInv, NEW r \in Runners, NEW i \in Issuers, FetchFilings(r, i)
    PROVE  WatermarkInv'
<1>1. /\ UNCHANGED <<today, filedOn, watermark, skipDays, rows, mode, since, todo, failed>>
      /\ pc[r] = "issuers" /\ pc' = [pc EXCEPT ![r] = "match"]
      /\ current' = [current EXCEPT ![r] = i]
      /\ newRows' = [newRows EXCEPT ![r] = @ \cup (InWindow(r, i) \ rows)]
  BY DEF FetchFilings, world, database
<1>2. NothingSkipped' /\ DaysAgree'
  BY <1>1 DEF EvidenceInv, TypeOK, WatermarkInv, NothingSkipped, DaysAgree
<1>3. \A f \in Filings : (FiledBefore(f, today - 1)' <=> FiledBefore(f, today - 1))
                        /\ (GivenUp(f)' <=> GivenUp(f))
  BY <1>1 DEF FiledBefore, GivenUp
<1>4. ASSUME NEW f \in Filings, FiledBefore(f, today - 1), filedOn[f] > since[r], IssuerOf[f] = i
      PROVE  f \in rows \cup newRows'[r]
  BY <1>1, <1>4 DEF InWindow, FiledBefore, EvidenceInv, TypeOK
<1>5. /\ current'[r] = i /\ pc'[r] = "match"
      /\ \A q \in Runners : q # r =>
            pc'[q] = pc[q] /\ current'[q] = current[q] /\ newRows'[q] = newRows[q]
  BY <1>1 DEF EvidenceInv, TypeOK
<1>6. WindowsCovered'
  <2> SUFFICES ASSUME NEW q \in Runners, NEW f \in Filings,
                      pc'[q] # "idle", mode[q] = "delta", FiledBefore(f, today - 1)
               PROVE  /\ filedOn[f] <= since[q] => GivenUp(f)
                      /\ filedOn[f] > since[q] /\ IssuerOf[f] \notin todo[q] \cup failed[q]
                         => f \in rows
                      /\ filedOn[f] > since[q] /\ IssuerOf[f] = current'[q]
                         /\ pc'[q] \in {"match", "review"} => f \in rows \cup newRows'[q]
    BY <1>1, <1>3 DEF WindowsCovered
  <2>1. CASE q = r
    BY <1>1, <1>4, <1>5, <2>1 DEF WatermarkInv, WindowsCovered
  <2>2. CASE q # r
    BY <1>5, <2>2 DEF WatermarkInv, WindowsCovered
  <2> QED
    BY <2>1, <2>2
<1> QED
  BY <1>2, <1>6 DEF WatermarkInv

\* A step of runner r on its issuer: a commit, the end of the issuer with or
\* without one, or a look at a bundle.
LEMMA WorkKeepsWatermark ==
    ASSUME EvidenceInv, WatermarkInv, NEW r \in Runners,
           UNCHANGED <<today, filedOn, watermark, skipDays, mode, since>>,
           rows \subseteq rows', rows \cup newRows[r] \subseteq rows' \cup newRows'[r],
           \A q \in Runners : q # r => /\ pc'[q] = pc[q] /\ current'[q] = current[q]
                                      /\ todo'[q] = todo[q] /\ failed'[q] = failed[q]
                                      /\ newRows'[q] = newRows[q],
           pc[r] \in {"match", "review"}, current'[r] = current[r],
           \/ pc'[r] \in {"match", "review"} /\ todo'[r] = todo[r] /\ failed'[r] = failed[r]
           \/ /\ pc'[r] = "issuers" /\ todo'[r] = todo[r] \ {current[r]} /\ failed'[r] = failed[r]
              /\ newRows[r] \subseteq rows'
    PROVE  WatermarkInv'
<1>1. NothingSkipped'
  BY DEF WatermarkInv, NothingSkipped
<1>2. DaysAgree'
  BY DEF WatermarkInv, DaysAgree
<1>3. \A f \in Filings : (FiledBefore(f, today - 1)' <=> FiledBefore(f, today - 1))
                        /\ (GivenUp(f) => GivenUp(f)')
  BY DEF FiledBefore, GivenUp
<1>4. WindowsCovered'
  <2> SUFFICES ASSUME NEW q \in Runners, NEW f \in Filings,
                      pc'[q] # "idle", mode[q] = "delta", FiledBefore(f, today - 1)
               PROVE  /\ filedOn[f] <= since[q] => GivenUp(f)'
                      /\ filedOn[f] > since[q] /\ IssuerOf[f] \notin todo'[q] \cup failed'[q]
                         => f \in rows'
                      /\ filedOn[f] > since[q] /\ IssuerOf[f] = current'[q]
                         /\ pc'[q] \in {"match", "review"} => f \in rows' \cup newRows'[q]
    BY <1>3 DEF WindowsCovered
  <2>1. /\ pc[q] # "idle" => (filedOn[f] <= since[q] => GivenUp(f))
        /\ pc[q] # "idle" /\ filedOn[f] > since[q] /\ IssuerOf[f] \notin todo[q] \cup failed[q]
           => f \in rows
        /\ filedOn[f] > since[q] /\ IssuerOf[f] = current[q] /\ pc[q] \in {"match", "review"}
           => f \in rows \cup newRows[q]
    BY DEF WatermarkInv, WindowsCovered
  <2>2. CASE q = r
    BY <1>3, <2>1, <2>2
  <2>3. CASE q # r
    BY <1>3, <2>1, <2>3
  <2> QED
    BY <2>2, <2>3
<1> QED
  BY <1>1, <1>2, <1>4 DEF WatermarkInv

\* An issuer that raised counts as failed, a crashed run as none.
LEMMA FailureKeepsWatermark ==
    ASSUME EvidenceInv, WatermarkInv, NEW r \in Runners,
           UNCHANGED <<today, filedOn, watermark, skipDays, mode, since, rows>>,
           \A q \in Runners : q # r => /\ pc'[q] = pc[q] /\ current'[q] = current[q]
                                      /\ todo'[q] = todo[q] /\ failed'[q] = failed[q]
                                      /\ newRows'[q] = newRows[q],
           \/ pc'[r] = "idle"
           \/ /\ pc'[r] = "issuers" /\ pc[r] # "idle"
              /\ \E i \in Issuers : todo'[r] = todo[r] \ {i} /\ failed'[r] = failed[r] \cup {i}
    PROVE  WatermarkInv'
<1>1. NothingSkipped'
  BY DEF WatermarkInv, NothingSkipped
<1>2. DaysAgree'
  BY DEF WatermarkInv, DaysAgree
<1>3. \A f \in Filings : (FiledBefore(f, today - 1)' <=> FiledBefore(f, today - 1))
                        /\ (GivenUp(f)' <=> GivenUp(f))
  BY DEF FiledBefore, GivenUp
<1>4. WindowsCovered'
  BY <1>3 DEF WatermarkInv, WindowsCovered
<1> QED
  BY <1>1, <1>2, <1>4 DEF WatermarkInv

\* The end of a run: the watermark passes what the run has covered, and the
\* days it has given up.
LEMMA CompleteKeepsWatermark ==
    ASSUME EvidenceInv, WatermarkInv, NEW r \in Runners, CompleteRun(r) PROVE WatermarkInv'
<1>1. /\ UNCHANGED <<today, filedOn, rows, newRows, mode, since, todo, failed, current>>
      /\ pc[r] = "issuers" /\ pc' = [pc EXCEPT ![r] = "idle"] /\ todo[r] = {}
      /\ watermark' = IF failed[r] = {} THEN today ELSE watermark
      /\ skipDays' = skipDays \cup (IF mode[r] = "baseline" THEN 1..today ELSE {today})
  BY DEF CompleteRun, NextWatermark, NoWrites, world, session
<1>2. today \in Nat /\ watermark \in Nat \cup {None} /\ filedOn \in [Filings -> Nat \cup {None}]
  BY DEF EvidenceInv, TypeOK
<1>3. mode[r] \in {"baseline", "delta"} /\ today >= 1 /\ since[r] \in Nat
  BY <1>1 DEF WatermarkInv, DaysAgree, EvidenceInv, TypeOK
<1>4. skipDays \subseteq skipDays' /\ today \in skipDays'
  BY <1>1, <1>2, <1>3
<1>5. \A f \in Filings : filedOn[f] # None => filedOn[f] \in 1..today
  BY DEF WatermarkInv, DaysAgree
<1>6. NothingSkipped'
  <2> SUFFICES ASSUME NEW f \in Filings, filedOn[f] # None, watermark' # None
               PROVE  filedOn[f] > watermark' \/ filedOn[f] \in skipDays' \/ f \in rows
    BY <1>1 DEF NothingSkipped
  <2>1. CASE failed[r] # {}
    BY <1>1, <1>4, <2>1 DEF WatermarkInv, NothingSkipped
  <2>2. CASE failed[r] = {} /\ mode[r] = "baseline"
    BY <1>1, <1>5, <2>2
  <2>3. CASE failed[r] = {} /\ mode[r] = "delta" /\ filedOn[f] = today
    BY <1>4, <2>3
  <2>4. CASE failed[r] = {} /\ mode[r] = "delta" /\ filedOn[f] # today
    <3>1. filedOn[f] \in Nat /\ FiledBefore(f, today - 1)
      BY <1>2, <1>5, <2>4 DEF FiledBefore
    <3>2. GivenUp(f)
      BY <1>1, <1>3, <2>4, <3>1 DEF WatermarkInv, WindowsCovered, GivenUp
    <3> QED
      BY <1>4, <3>2 DEF GivenUp
  <2> QED
    BY <1>3, <2>1, <2>2, <2>3, <2>4
<1>7. \A f \in Filings : (FiledBefore(f, today - 1)' <=> FiledBefore(f, today - 1))
                        /\ (GivenUp(f) => GivenUp(f)')
  BY <1>1, <1>4 DEF FiledBefore, GivenUp
<1>8. \A q \in Runners : pc'[q] # "idle" => pc'[q] = pc[q]
  BY <1>1 DEF EvidenceInv, TypeOK
<1>9. WindowsCovered'
  BY <1>1, <1>7, <1>8 DEF WatermarkInv, WindowsCovered
<1>10. DaysAgree'
  BY <1>1, <1>2, <1>4, <1>5, <1>8 DEF WatermarkInv, DaysAgree
<1> QED
  BY <1>6, <1>9, <1>10 DEF WatermarkInv

\* Every step keeps the watermark behind what is stored.
LEMMA WatermarkStep ==
    ASSUME EvidenceInv, WatermarkInv, "overnight" \notin Faults, "backfill" \notin Modes,
           [Next]_vars
    PROVE  WatermarkInv'
<1>1. CASE NextDay
  BY <1>1, MidnightKeepsWatermark
<1>2. ASSUME NEW f \in Filings, Publish(f) PROVE WatermarkInv'
  BY <1>2, PublishKeepsWatermark
<1>3. ASSUME NEW r \in Runners, NEW m \in Modes, StartRun(r, m) PROVE WatermarkInv'
  BY <1>3, StartKeepsWatermark
<1>4. ASSUME NEW r \in Runners, NEW i \in Issuers, FetchFilings(r, i) PROVE WatermarkInv'
  BY <1>4, FetchKeepsWatermark
<1>5. ASSUME NEW r \in Runners, NEW f \in Filings, MatchFiling(r, f) PROVE WatermarkInv'
  BY <1>5, WatermarkKept DEF MatchFiling, world, database, history
<1>6. ASSUME NEW r \in Runners, NEW f \in Filings, LookUpBundle(r, f) PROVE WatermarkInv'
  <2>1. /\ UNCHANGED <<today, filedOn, watermark, skipDays, mode, since, rows, newRows, current,
                       todo, failed>>
        /\ pc[r] = "match" /\ pc' \in {pc, [pc EXCEPT ![r] = "review"]}
    BY <1>6 DEF LookUpBundle, world, database, session, history
  <2>2. /\ pc'[r] \in {"match", "review"}
        /\ \A q \in Runners : q # r => pc'[q] = pc[q]
    BY <2>1 DEF EvidenceInv, TypeOK
  <2> QED
    BY <2>1, <2>2, WorkKeepsWatermark
<1>7. ASSUME NEW r \in Runners, AlertWithoutModel(r) \/ AlertAfterModel(r) \/ DeferBundle(r)
      PROVE WatermarkInv'
  <2>1. /\ UNCHANGED <<today, filedOn, watermark, skipDays, mode, since, current, todo, failed>>
        /\ pc[r] = "review" /\ pc' = [pc EXCEPT ![r] = "match"]
        /\ \/ rows' = rows /\ newRows' = newRows
           \/ rows' = rows \cup newRows[r] /\ newRows' = [newRows EXCEPT ![r] = {}]
    BY <1>7 DEF AlertWithoutModel, AlertAfterModel, DeferBundle, Reviewed, NoWrites, CommitRows,
       session, world
  <2>2. /\ pc'[r] = "match" /\ rows \subseteq rows'
        /\ rows \cup newRows[r] \subseteq rows' \cup newRows'[r]
        /\ \A q \in Runners : q # r => pc'[q] = pc[q] /\ newRows'[q] = newRows[q]
    BY <2>1 DEF EvidenceInv, TypeOK
  <2> QED
    BY <2>1, <2>2, WorkKeepsWatermark
<1>8. ASSUME NEW r \in Runners, CommitIssuer(r) PROVE WatermarkInv'
  <2>1. /\ UNCHANGED <<today, filedOn, watermark, skipDays, mode, since, current, failed>>
        /\ pc[r] = "match" /\ pc' = [pc EXCEPT ![r] = "issuers"]
        /\ todo' = [todo EXCEPT ![r] = @ \ {current[r]}]
        /\ rows' = rows \cup newRows[r] /\ newRows' = [newRows EXCEPT ![r] = {}]
    BY <1>8 DEF CommitIssuer, IssuerDone, CommitRows, Discard, world, history
  <2>2. /\ pc'[r] = "issuers" /\ todo'[r] = todo[r] \ {current[r]}
        /\ \A q \in Runners : q # r =>
              pc'[q] = pc[q] /\ todo'[q] = todo[q] /\ newRows'[q] = newRows[q]
    BY <2>1 DEF EvidenceInv, TypeOK
  <2> QED
    BY <2>1, <2>2, WorkKeepsWatermark
<1>9. ASSUME NEW r \in Runners, NEW i \in Issuers, IssuerRaises(r, i) PROVE WatermarkInv'
  <2>1. /\ UNCHANGED <<today, filedOn, watermark, skipDays, mode, since, rows>>
        /\ pc[r] # "idle" /\ pc' = [pc EXCEPT ![r] = "issuers"]
        /\ current' = [current EXCEPT ![r] = i] /\ current'[r] = i
        /\ todo' = [todo EXCEPT ![r] = @ \ {i}] /\ failed' = [failed EXCEPT ![r] = @ \cup {i}]
        /\ newRows' = [newRows EXCEPT ![r] = {}]
    BY <1>9 DEF IssuerRaises, IssuerDone, NoWrites, Discard, world, EvidenceInv, TypeOK
  <2>2. /\ pc'[r] = "issuers" /\ todo'[r] = todo[r] \ {i} /\ failed'[r] = failed[r] \cup {i}
        /\ \A q \in Runners : q # r =>
              /\ pc'[q] = pc[q] /\ current'[q] = current[q] /\ todo'[q] = todo[q]
              /\ failed'[q] = failed[q] /\ newRows'[q] = newRows[q]
    BY <2>1 DEF EvidenceInv, TypeOK
  <2> QED
    BY <2>1, <2>2, FailureKeepsWatermark
<1>10. ASSUME NEW r \in Runners, CompleteRun(r) PROVE WatermarkInv'
  BY <1>10, CompleteKeepsWatermark
<1>11. ASSUME NEW r \in Runners, Crash(r) PROVE WatermarkInv'
  <2>1. /\ UNCHANGED <<today, filedOn, watermark, skipDays, mode, since, rows, current, failed>>
        /\ pc' = [pc EXCEPT ![r] = "idle"] /\ todo' = [todo EXCEPT ![r] = {}]
        /\ newRows' = [newRows EXCEPT ![r] = {}]
    BY <1>11 DEF Crash, world, database
  <2>2. /\ pc'[r] = "idle"
        /\ \A q \in Runners : q # r =>
              pc'[q] = pc[q] /\ todo'[q] = todo[q] /\ newRows'[q] = newRows[q]
    BY <2>1 DEF EvidenceInv, TypeOK
  <2> QED
    BY <2>1, <2>2, FailureKeepsWatermark
<1>12. CASE UNCHANGED vars
  BY <1>12, WatermarkKept DEF vars, world, database, session, run, history
<1> QED
  BY <1>1, <1>2, <1>3, <1>4, <1>5, <1>6, <1>7, <1>8, <1>9, <1>10, <1>11, <1>12
     DEF Next, RunnerStep, IssuerFails, InsertConflicts

\* run_monitor: the watermark never passes a filing that is not stored, unless it
\* was filed on a day a run ended or before a baseline, as long as no run is at
\* work at midnight and no backfill shares the watermark.
THEOREM NothingIsSkipped ==
    ASSUME "overnight" \notin Faults, "backfill" \notin Modes PROVE Spec => []NothingSkipped
<1>1. Init => WatermarkInv
  BY DEF Init, WatermarkInv, NothingSkipped, WindowsCovered, DaysAgree
<1>2. EvidenceInv /\ WatermarkInv /\ [Next]_vars => WatermarkInv'
  BY WatermarkStep
<1>3. WatermarkInv => NothingSkipped
  BY DEF WatermarkInv
<1> QED
  BY <1>1, <1>2, <1>3, EvidenceInvariant, PTL DEF Spec

-----------------------------------------------------------------------------
(* One alert per bundle, when runs do not overlap: a bundle under review has *)
(* no alert, and no alert waits for a commit twice.                          *)

Alone == \A r \in Runners, q \in Runners : r = q

AlertInv ==
    /\ OneAlertPerBundle
    /\ \A r \in Runners :
          /\ \A f \in newAlerts[r] : alerts[f] = 0
          /\ pc[r] = "review" => alerts[bundle[r]] = 0 /\ bundle[r] \notin newAlerts[r]

\* A commit of alerts for bundles that had none.
LEMMA CommitKeepsAlerts ==
    ASSUME EvidenceInv, AlertInv, NEW r \in Runners, CommitRows(r)
    PROVE  /\ OneAlertPerBundle'
           /\ \A f \in Filings : f \notin newAlerts[r] => alerts'[f] = alerts[f]
<1>1. ASSUME NEW f \in Filings
      PROVE  alerts'[f] <= 1 /\ (f \notin newAlerts[r] => alerts'[f] = alerts[f])
  BY DEF CommitRows, Plus, AlertInv, OneAlertPerBundle, EvidenceInv, TypeOK
<1> QED
  BY <1>1 DEF OneAlertPerBundle

\* Every step of a single runner keeps the alerts unique.
LEMMA AlertStep ==
    ASSUME EvidenceInv, AlertInv, Alone, [Next]_vars PROVE AlertInv'
<1> USE DEF EvidenceInv, TypeOK
<1>1. CASE UNCHANGED <<alerts, newAlerts, pc, bundle>>
  BY <1>1 DEF AlertInv, OneAlertPerBundle
<1>2. CASE NextDay \/ (\E f \in Filings : Publish(f)) \/ UNCHANGED vars
  BY <1>1, <1>2 DEF NextDay, Publish, vars, database, session, run
<1>3. ASSUME NEW r \in Runners, UNCHANGED <<alerts, newAlerts, bundle>>, pc'[r] # "review"
      PROVE  AlertInv'
  BY <1>3 DEF Alone, AlertInv, OneAlertPerBundle
<1>4. ASSUME NEW r \in Runners,
             \/ \E m \in Modes : StartRun(r, m)
             \/ \E i \in Issuers : FetchFilings(r, i)
             \/ \E f \in Filings : MatchFiling(r, f)
             \/ CompleteRun(r)
      PROVE  AlertInv'
  <2>1. UNCHANGED <<alerts, newAlerts, bundle>> /\ pc'[r] # "review"
    BY <1>4 DEF StartRun, FetchFilings, MatchFiling, CompleteRun, NoWrites, database, session
  <2> QED
    BY <1>3, <2>1
<1>5. ASSUME NEW r \in Runners, NEW f \in Filings, LookUpBundle(r, f) PROVE AlertInv'
  <2>1. UNCHANGED <<alerts, newAlerts>>
    BY <1>5 DEF LookUpBundle, database, session
  <2>2. CASE HasAlert(r, f)
    BY <1>1, <1>5, <2>1, <2>2 DEF LookUpBundle
  <2>3. CASE ~HasAlert(r, f)
    <3>1. bundle'[r] = f /\ alerts[f] = 0 /\ f \notin newAlerts[r]
      BY <1>5, <2>3 DEF LookUpBundle, HasAlert
    <3> QED
      BY <2>1, <3>1 DEF Alone, AlertInv, OneAlertPerBundle
  <2> QED
    BY <2>2, <2>3
<1>6. ASSUME NEW r \in Runners, AlertWithoutModel(r) \/ DeferBundle(r) PROVE AlertInv'
  <2>1. /\ alerts' = alerts /\ pc'[r] = "match"
        /\ newAlerts'[r] \subseteq newAlerts[r] \cup {bundle[r]} /\ pc[r] = "review"
    BY <1>6 DEF AlertWithoutModel, DeferBundle, Reviewed, NoWrites, session
  <2> QED
    BY <2>1 DEF Alone, AlertInv, OneAlertPerBundle
<1>7. ASSUME NEW r \in Runners, AlertAfterModel(r) PROVE AlertInv'
  <2>1. /\ CommitRows(r) /\ pc'[r] = "match"
        /\ newAlerts'[r] = {bundle[r]} /\ pc[r] = "review"
    BY <1>7 DEF AlertAfterModel, Reviewed
  <2>2. bundle[r] \in Filings
    BY <2>1 DEF MatchingIsComplete
  <2>3. alerts'[bundle[r]] = 0 /\ OneAlertPerBundle'
    BY <2>1, <2>2, CommitKeepsAlerts DEF AlertInv
  <2> QED
    BY <2>1, <2>3 DEF Alone, AlertInv
<1>8. ASSUME NEW r \in Runners, CommitIssuer(r) PROVE AlertInv'
  <2>1. CommitRows(r) /\ newAlerts'[r] = {} /\ pc'[r] = "issuers"
    BY <1>8 DEF CommitIssuer, IssuerDone, Discard
  <2> QED
    BY <2>1, CommitKeepsAlerts DEF Alone, AlertInv
<1>9. ASSUME NEW r \in Runners, Crash(r) \/ \E i \in Issuers : IssuerRaises(r, i) PROVE AlertInv'
  <2>1. alerts' = alerts /\ newAlerts'[r] = {} /\ pc'[r] \in {"idle", "issuers"}
    BY <1>9 DEF Crash, IssuerRaises, IssuerDone, Discard, NoWrites, database
  <2> QED
    BY <2>1 DEF Alone, AlertInv, OneAlertPerBundle
<1> QED
  BY <1>2, <1>4, <1>5, <1>6, <1>7, <1>8, <1>9
     DEF Next, RunnerStep, IssuerFails, InsertConflicts

\* synthesize_alerts_from_evidence: a bundle is alerted at most once, whatever
\* fails, crashes or is retried, as long as runs do not overlap.
THEOREM OneAlert ==
    ASSUME Alone PROVE Spec => []OneAlertPerBundle
<1>1. Init => AlertInv
  BY DEF Init, AlertInv, OneAlertPerBundle
<1>2. EvidenceInv /\ AlertInv /\ [Next]_vars => AlertInv'
  BY AlertStep
<1>3. AlertInv => OneAlertPerBundle
  BY DEF AlertInv
<1> QED
  BY <1>1, <1>2, <1>3, EvidenceInvariant, PTL DEF Spec
=============================================================================
