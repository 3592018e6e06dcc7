----------------------- MODULE MarketDiscoveryProofs -----------------------
(***************************************************************************)
(* The watermark of market discovery never passes a hit that was not       *)
(* examined, for any number of queries, hits and overlapping runs of any   *)
(* mode, whatever fails, as long as no run lasts through an afternoon.     *)
(* And the SEC checks of an issuer leave no gap but the days on which one  *)
(* succeeded, with no condition at all.                                    *)
(***************************************************************************)
EXTENDS MarketDiscovery, Integers, TLAPS

USE DiscoveryAssumption

-----------------------------------------------------------------------------
(* Types. *)

LEMMA DayType == ASSUME TypeOK PROVE UtcDay \in Nat /\ Tick \in Nat /\ day <= UtcDay
BY DEF TypeOK, UtcDay, Tick

\* A window is made of days.
LEMMA StartType ==
    ASSUME TypeOK, NEW r \in Runners, NEW m \in ModeKinds, NEW start \in Nat, NEW end \in Nat,
           StartRun(r, m, start, end)
    PROVE  TypeOK'
BY DEF TypeOK, StartRun, clock, tables, history

LEMMA DeltaStartType ==
    ASSUME TypeOK, NEW r \in Runners PROVE DeltaStart(r) \in Nat /\ Today(r) \in Nat
BY DayType DEF TypeOK, DeltaStart, Today

\* Taking a hit of the present query.
LEMMA TakeType ==
    ASSUME TypeOK, NEW r \in Runners, NEW h \in Hits, TakeHit(r, h)
    PROVE  /\ left' \in [Runners -> SUBSET Hits] /\ seen' \in [Runners -> SUBSET Hits]
           /\ taken' \in [Runners -> Nat]
BY DEF TypeOK, TakeHit

\* The steps of the search.
LEMMA SearchType ==
    ASSUME TypeOK, NEW r \in Runners,
           \/ \E q \in Queries : BeginQuery(r, q)
           \/ NextPageFails(r)
           \/ CapQuery(r)
           \/ \E h \in Hits : WorkOnHit(r, h)
    PROVE  TypeOK'
<1>1. ASSUME NEW q \in Queries, BeginQuery(r, q) PROVE TypeOK'
  <2>1. {h \in Matches[q] : InWindow(r, h)} \subseteq Hits
    OBVIOUS
  <2>2. left' \in [Runners -> SUBSET Hits] /\ queries' \in [Runners -> SUBSET Queries]
    BY <1>1, <2>1 DEF TypeOK, BeginQuery
  <2>3. errors' \in [Runners -> SUBSET (Hits \cup {"search"})] /\ faults' \in Nat
    BY <1>1 DEF TypeOK, BeginQuery, FaultHappens
  <2> QED
    BY <1>1, <2>2, <2>3 DEF TypeOK, BeginQuery, clock, tables, window
<1>2. CASE NextPageFails(r)
  BY <1>2 DEF TypeOK, NextPageFails, FaultHappens, clock, tables, window
<1>3. CASE CapQuery(r)
  <2>1. givenUp' \subseteq Nat \cup Hits
    BY <1>3 DEF TypeOK, CapQuery
  <2> QED
    BY <1>3, <2>1 DEF TypeOK, CapQuery, clock, tables, window
<1>4. ASSUME NEW h \in Hits, WorkOnHit(r, h) PROVE TypeOK'
  <2>1. /\ left' \in [Runners -> SUBSET Hits] /\ seen' \in [Runners -> SUBSET Hits]
        /\ taken' \in [Runners -> Nat]
    BY <1>4, TakeType
       DEF WorkOnHit, SkipExamined, ResolveFails, RejectCandidate, ResolveCandidate
  <2>2. CASE SkipExamined(r, h)
    BY <2>1, <2>2 DEF TypeOK, SkipExamined, clock, tables, window, history
  <2>3. CASE ResolveFails(r, h)
    BY <2>1, <2>3 DEF TypeOK, ResolveFails, FaultHappens, clock, tables, window
  <2>4. CASE RejectCandidate(r, h)
    BY <2>1, <2>4 DEF TypeOK, RejectCandidate, FaultHappens, Candidates, clock, window
  <2>5. CASE ResolveCandidate(r, h)
    <3>1. /\ pc' \in [Runners -> {"idle", "search", "process", "enrich"}]
          /\ hit' \in [Runners -> Hits \cup {None}]
          /\ \A q \in Runners : pc'[q] \in {"process", "enrich"} => hit'[q] \in Hits
      <4>1. CASE CikOf[h] \in done[r]
        BY <2>5, <4>1 DEF TypeOK, ResolveCandidate
      <4>2. CASE CikOf[h] \notin done[r]
        <5>1. pc' = [pc EXCEPT ![r] = "process"] /\ hit' = [hit EXCEPT ![r] = h]
          BY <2>5, <4>2 DEF ResolveCandidate
        <5>2. \A q \in Runners :
                 IF q = r THEN pc'[q] = "process" /\ hit'[q] = h
                 ELSE pc'[q] = pc[q] /\ hit'[q] = hit[q]
          BY <5>1 DEF TypeOK
        <5>3. /\ pc' \in [Runners -> {"idle", "search", "process", "enrich"}]
              /\ hit' \in [Runners -> Hits \cup {None}]
          BY <5>1 DEF TypeOK
        <5> QED
          BY <5>2, <5>3 DEF TypeOK
      <4> QED
        BY <4>1, <4>2
    <3>3. done' \in [Runners -> SUBSET Ciks]
      BY <2>5 DEF TypeOK, ResolveCandidate
    <3>2. issuers' \subseteq Ciks /\ candidate' \in [Hits -> Candidates]
      BY <2>5 DEF TypeOK, ResolveCandidate, Candidates
    <3> QED
      BY <2>1, <2>5, <3>1, <3>2, <3>3 DEF TypeOK, ResolveCandidate, clock, window, history
  <2> QED
    BY <1>4, <2>2, <2>3, <2>4, <2>5 DEF WorkOnHit
<1> QED
  BY <1>1, <1>2, <1>3, <1>4

\* The steps on an issuer.
LEMMA IssuerType ==
    ASSUME TypeOK, NEW r \in Runners,
           \/ ProcessIssuer(r) \/ IssuerFails(r) \/ EnrichmentIsFresh(r)
           \/ EnrichSec(r) \/ EnrichSecFails(r)
    PROVE  TypeOK'
<1> DEFINE c == CikOf[hit[r]]
<1>1. UtcDay \in Nat /\ Tick \in Nat
  BY DayType
<1>2. \A x, n : FiledAfter(x, n) \subseteq Hits
  BY DEF FiledAfter
<1>3. CASE ProcessIssuer(r)
  BY <1>2, <1>3 DEF TypeOK, ProcessIssuer, clock, window, search, history
<1>4. CASE IssuerFails(r)
  <2>1. errors' \in [Runners -> SUBSET (Hits \cup {"search"})] /\ stored' \subseteq Hits
    <3>1. pc[r] # "idle" => hit[r] \in Hits \cup {None}
      BY DEF TypeOK
    <3> QED
      BY <1>2, <1>4, <3>1 DEF TypeOK, IssuerFails
  <2> QED
    BY <1>4, <2>1 DEF TypeOK, IssuerFails, FaultHappens, clock, window, search
<1>5. CASE EnrichmentIsFresh(r)
  BY <1>5 DEF TypeOK, EnrichmentIsFresh, clock, tables, window, search, history
<1>6. CASE EnrichSec(r)
  <2>1. /\ checkedOn' \in [Ciks -> Nat \cup {None}] /\ triedAt' \in [Ciks -> Nat \cup {None}]
        /\ stamps' \in [Ciks -> SUBSET Nat]
    BY <1>1, <1>6 DEF TypeOK, EnrichSec
  <2>2. checkedFrom' \in [Ciks -> Nat \cup {None}]
    <3>1. PICK since \in Nat : since = CheckSince(c)
      <4>1. checkedOn[c] \in Nat \cup {None} /\ None \notin Nat
        BY <1>6, DiscoveryAssumption DEF TypeOK, EnrichSec
      <4>2. CheckSince(c) \in Nat
        BY <1>1, <4>1, DiscoveryAssumption DEF CheckSince
      <4> QED
        BY <4>2
    <3>2. checkedFrom' = [checkedFrom EXCEPT ![c] = IF checkedOn[c] = None THEN since ELSE @]
      BY <1>6, <3>1 DEF EnrichSec
    <3> QED
      BY <3>2 DEF TypeOK
  <2> QED
    BY <1>2, <1>6, <2>1, <2>2 DEF TypeOK, EnrichSec, clock, window, search
<1>7. CASE EnrichSecFails(r)
  <2>1. triedAt' \in [Ciks -> Nat \cup {None}] /\ stored' \subseteq Hits
    BY <1>1, <1>2, <1>7 DEF TypeOK, EnrichSecFails
  <2> QED
    BY <1>7, <2>1 DEF TypeOK, EnrichSecFails, FaultHappens, clock, window, search
<1> QED
  BY <1>3, <1>4, <1>5, <1>6, <1>7

\* The end of a run.
LEMMA EndType ==
    ASSUME TypeOK, NEW r \in Runners, CompleteRun(r) \/ Crash(r) PROVE TypeOK'
<1>1. CASE CompleteRun(r)
  <2>1. DaysJumped(r) \subseteq Nat
    <3>1. from[r] \in Nat /\ to[r] \in Nat /\ UtcDay \in Nat
      BY DayType DEF TypeOK
    <3>2. \A a \in Int : 0 .. a \subseteq Nat
      OBVIOUS
    <3>3. from[r] - 1 \in Int /\ UtcDay - 1 \in Int
      BY <3>1
    <3>4. 0 .. from[r] - 1 \subseteq Nat /\ 0 .. UtcDay - 1 \subseteq Nat
      BY <3>2, <3>3
    <3>5. CASE mode[r] = "delta"
      BY <3>4, <3>5 DEF DaysJumped
    <3>6. CASE mode[r] = "baseline"
      BY <3>4, <3>6 DEF DaysJumped
    <3>7. CASE mode[r] # "delta" /\ mode[r] # "baseline"
      BY <3>4, <3>7 DEF DaysJumped
    <3> QED
      BY <3>5, <3>6, <3>7
  <2>2. watermark' \in Nat \cup {None}
    BY <1>1, DayType DEF TypeOK, CompleteRun, NextWatermark
  <2>3. dailyStart' \in Nat \cup {None}
    BY <1>1 DEF TypeOK, CompleteRun
  <2> QED
    BY <1>1, <2>1, <2>2, <2>3 DEF TypeOK, CompleteRun, clock, window, search
<1>2. CASE Crash(r)
  BY <1>2 DEF TypeOK, Crash, FaultHappens, clock, tables, window, search
<1> QED
  BY <1>1, <1>2

LEMMA TypeStep == TypeOK /\ [Next]_vars => TypeOK'
<1> SUFFICES ASSUME TypeOK, [Next]_vars PROVE TypeOK'
  OBVIOUS
<1>1. CASE Advance
  BY <1>1 DEF TypeOK, Advance, tables, run, history, window, search
<1>2. ASSUME NEW h \in Hits, Publish(h) PROVE TypeOK'
  BY <1>2 DEF TypeOK, Publish, clock, tables, run, history, window, search
<1>3. ASSUME NEW r \in Scheduled, NightlyTrigger(r) PROVE TypeOK'
  BY <1>3, DeltaStartType, StartType DEF NightlyTrigger, Runners, ModeKinds
<1>4. ASSUME NEW r \in Operators, NEW m \in Modes, OperatorStarts(r, m) PROVE TypeOK'
  <2>1. r \in Runners /\ m \in ModeKinds /\ day \in Nat
    BY DEF Runners, TypeOK
  <2> QED
    BY <1>4, <2>1, DeltaStartType, StartType DEF OperatorStarts
<1>5. ASSUME NEW r \in Runners, RunnerStep(r) \/ Crash(r) PROVE TypeOK'
  BY <1>5, SearchType, IssuerType, EndType DEF RunnerStep
<1>6. CASE UNCHANGED vars
  BY <1>6 DEF TypeOK, vars, clock, tables, run, history, window, search
<1> QED
  BY <1>1, <1>2, <1>3, <1>4, <1>5, <1>6 DEF Next

-----------------------------------------------------------------------------
(* The watermark. *)

LEMMA InitInv == Init => DiscoveryInv
BY DEF Init, DiscoveryInv, TypeOK, DatesAgree, WatermarkCoversSearch, WindowStartsInTime,
   WindowIsSearched, Candidates, ModeKinds

\* A step of a run that neither starts nor ends it keeps the invariant when what it
\* strikes off its search is examined, or counted as an error.
LEMMA WorkKeepsInv ==
    ASSUME DiscoveryInv, TypeOK', NEW r \in Runners, pc[r] # "idle",
           UNCHANGED <<day, phase, filedOn, watermark, mode, from, to>>,
           \A q \in Runners : pc'[q] # "idle" => pc[q] # "idle",
           \A q \in Runners \ {r} : /\ left'[q] = left[q] /\ queries'[q] = queries[q]
                                   /\ seen'[q] = seen[q] /\ errors'[q] = errors[q],
           \A h \in Hits : Examined(h) => Examined(h)',
           errors[r] # {} => errors'[r] # {},
           \A h \in Hits : Past(h) /\ InWindow(r, h) /\ Searched(r, h)
                             => Searched(r, h)' \/ Examined(h)' \/ errors'[r] # {},
           \A h \in seen'[r] : h \in seen[r] \/ Examined(h)' \/ errors'[r] # {}
    PROVE  DiscoveryInv'
<1>1. UtcDay' = UtcDay /\ \A h \in Hits : Past(h)' <=> Past(h)
  BY DEF UtcDay, Past
<1>2. \A q \in Runners, h \in Hits : InWindow(q, h)' <=> InWindow(q, h)
  BY DEF InWindow
<1>3. DatesAgree'
  BY <1>1 DEF DiscoveryInv, DatesAgree
<1>4. WatermarkCoversSearch'
  BY DEF DiscoveryInv, WatermarkCoversSearch
<1>5. WindowStartsInTime'
  BY <1>1 DEF DiscoveryInv, WindowStartsInTime
<1>6. WindowIsSearched'
  <2> SUFFICES ASSUME NEW q \in Runners, NEW h \in Hits, pc'[q] # "idle"
               PROVE  /\ mode'[q] # "baseline" /\ Past(h)' /\ InWindow(q, h)'
                            => Examined(h)' \/ errors'[q] # {} \/ Searched(q, h)'
                      /\ h \in seen'[q] => Examined(h)' \/ errors'[q] # {}
    BY DEF WindowIsSearched
  <2>1. pc[q] # "idle"
    OBVIOUS
  <2>2. /\ mode[q] # "baseline" /\ Past(h) /\ InWindow(q, h)
              => Examined(h) \/ errors[q] # {} \/ Searched(q, h)
        /\ h \in seen[q] => Examined(h) \/ errors[q] # {}
    BY <2>1 DEF DiscoveryInv, WindowIsSearched
  <2>3. CASE q = r
    BY <1>1, <1>2, <2>2, <2>3
  <2>4. CASE q # r
    <3>1. left'[q] = left[q] /\ queries'[q] = queries[q] /\ seen'[q] = seen[q] /\ errors'[q] = errors[q]
      BY <2>4
    <3>2. Searched(q, h) => Searched(q, h)'
      BY <3>1 DEF Searched
    <3> QED
      BY <1>1, <1>2, <2>2, <3>1, <3>2
  <2> QED
    BY <2>3, <2>4
<1> QED
  BY <1>3, <1>4, <1>5, <1>6 DEF DiscoveryInv

\* What was examined stays examined.
LEMMA ExaminedStays ==
    ASSUME filedOn' = filedOn, givenUp \subseteq givenUp', NEW h \in Hits,
           candidate'[h] = "none" => candidate[h] = "none"
    PROVE  Examined(h) => Examined(h)'
BY DEF Examined

\* The queries and pages of a run.
LEMMA QueryKeepsInv ==
    ASSUME DiscoveryInv, TypeOK', NEW r \in Runners,
           \/ \E q \in Queries : BeginQuery(r, q)
           \/ NextPageFails(r)
           \/ CapQuery(r)
    PROVE  DiscoveryInv'
<1> USE DEF DiscoveryInv, TypeOK
<1>1. ASSUME NEW q \in Queries, BeginQuery(r, q) PROVE DiscoveryInv'
  <2>1. /\ queries' = [queries EXCEPT ![r] = @ \ {q}] /\ left[r] = {} /\ pc[r] # "idle"
        /\ UNCHANGED <<day, phase, filedOn, watermark, mode, from, to, candidate, givenUp, seen, pc>>
    BY <1>1 DEF BeginQuery, clock, tables, window
  <2>2. \/ left'[r] = {h \in Matches[q] : InWindow(r, h)} /\ errors' = errors
        \/ errors'[r] # {}
    <3>1. CASE left' = [left EXCEPT ![r] = {h \in Matches[q] : InWindow(r, h)}] /\ errors' = errors
      <4>1. \A h \in Matches[q] : h \in Hits
        OBVIOUS
      <4> QED
        BY <3>1
    <3>2. CASE errors' = [errors EXCEPT ![r] = @ \cup {"search"}]
      BY <3>2
    <3> QED
      BY <1>1, <3>1, <3>2 DEF BeginQuery
  <2>3. \A p \in Runners \ {r} : left'[p] = left[p] /\ queries'[p] = queries[p] /\ errors'[p] = errors[p]
    BY <1>1 DEF BeginQuery
  <2>4. \A h \in Hits : InWindow(r, h) /\ Searched(r, h) => Searched(r, h)' \/ errors'[r] # {}
    <3> SUFFICES ASSUME NEW h \in Hits, InWindow(r, h), Searched(r, h), errors'[r] = {}
                 PROVE  Searched(r, h)'
      OBVIOUS
    <3>1. PICK p \in queries[r] : h \in Matches[p]
      BY <2>1 DEF Searched
    <3>2. CASE p = q
      BY <2>2, <3>1, <3>2 DEF Searched
    <3>3. CASE p # q
      BY <2>1, <3>1, <3>3 DEF Searched
    <3> QED
      BY <3>2, <3>3
  <2>5. \A h \in Hits : Examined(h) => Examined(h)'
    BY <2>1, ExaminedStays
  <2> QED
    BY <2>1, <2>2, <2>3, <2>4, <2>5, WorkKeepsInv
<1>2. CASE NextPageFails(r)
  <2>1. /\ errors' = [errors EXCEPT ![r] = @ \cup {"search"}] /\ left' = [left EXCEPT ![r] = {}]
        /\ pc[r] # "idle" /\ queries' = queries
        /\ UNCHANGED <<day, phase, filedOn, watermark, mode, from, to, candidate, givenUp, seen, pc>>
    BY <1>2 DEF NextPageFails, clock, tables, window
  <2>2. errors'[r] # {} /\ \A p \in Runners \ {r} : left'[p] = left[p] /\ errors'[p] = errors[p]
    BY <2>1
  <2>3. \A h \in Hits : Examined(h) => Examined(h)'
    BY <2>1, ExaminedStays
  <2> QED
    BY <2>1, <2>2, <2>3, WorkKeepsInv
<1>3. CASE CapQuery(r)
  <2>1. /\ givenUp' = givenUp \cup left[r] /\ left' = [left EXCEPT ![r] = {}]
        /\ pc[r] # "idle" /\ queries' = queries
        /\ UNCHANGED <<day, phase, filedOn, watermark, mode, from, to, candidate, errors, seen, pc>>
    BY <1>3 DEF CapQuery, clock, tables, window
  <2>2. \A p \in Runners \ {r} : left'[p] = left[p]
    BY <2>1
  <2>3. \A h \in Hits : Examined(h) => Examined(h)'
    BY <2>1, ExaminedStays
  <2>4. \A h \in Hits : Searched(r, h) => Searched(r, h)' \/ Examined(h)'
    BY <2>1 DEF Searched, Examined
  <2> QED
    BY <2>1, <2>2, <2>3, <2>4, WorkKeepsInv
<1> QED
  BY <1>1, <1>2, <1>3

\* A hit.  One that is skipped was seen, or has a candidate; the others get a
\* candidate or an error.
LEMMA HitKeepsInv ==
    ASSUME DiscoveryInv, TypeOK', NEW r \in Runners, NEW h \in Hits, WorkOnHit(r, h)
    PROVE  DiscoveryInv'
<1> USE DEF DiscoveryInv, TypeOK
<1>1. /\ TakeHit(r, h)
      /\ UNCHANGED <<day, phase, filedOn, watermark, mode, from, to, queries, givenUp>>
  BY DEF WorkOnHit, SkipExamined, ResolveFails, RejectCandidate, ResolveCandidate, clock, tables,
         window, history
<1>2. pc[r] # "idle" /\ \A q \in Runners : pc'[q] # "idle" => pc[q] # "idle"
  BY DEF WorkOnHit, SkipExamined, ResolveFails, RejectCandidate, ResolveCandidate, TakeHit
<1>3. /\ errors'[r] = errors[r] \/ errors'[r] = errors[r] \cup {h}
      /\ \A q \in Runners \ {r} : errors'[q] = errors[q]
  BY DEF WorkOnHit, SkipExamined, ResolveFails, RejectCandidate, ResolveCandidate
<1>4. \A g \in Hits : candidate'[g] = "none" => candidate[g] = "none"
  BY DEF WorkOnHit, SkipExamined, ResolveFails, RejectCandidate, ResolveCandidate, tables
<1>5. \A g \in Hits : Examined(g) => Examined(g)'
  BY <1>1, <1>4, ExaminedStays
<1>6. Examined(h)' \/ errors'[r] # {}
  <2>1. CASE SkipExamined(r, h)
    <3>1. h \in seen[r] \/ candidate[h] # "none"
      BY <2>1 DEF SkipExamined, ToExamine
    <3>2. Examined(h) \/ errors[r] # {}
      BY <1>2, <3>1 DEF WindowIsSearched, Examined
    <3> QED
      BY <1>3, <1>5, <3>2
  <2>2. CASE ResolveFails(r, h)
    <3>1. errors' = [errors EXCEPT ![r] = @ \cup {h}]
      BY <2>2 DEF ResolveFails
    <3> QED
      BY <3>1
  <2>3. CASE RejectCandidate(r, h) \/ ResolveCandidate(r, h)
    <3>1. candidate'[h] # "none"
      BY <2>3 DEF RejectCandidate, ResolveCandidate
    <3> QED
      BY <3>1 DEF Examined
  <2> QED
    BY <2>1, <2>2, <2>3 DEF WorkOnHit
<1>7. /\ left'[r] = left[r] \ {h} /\ seen'[r] = seen[r] \cup {h}
      /\ \A q \in Runners \ {r} : left'[q] = left[q] /\ seen'[q] = seen[q]
  BY <1>1 DEF TakeHit
<1>8. \A g \in Hits : Searched(r, g) => Searched(r, g)' \/ g = h
  BY <1>1, <1>7 DEF Searched
<1>9. \A g \in Hits : Searched(r, g) => Searched(r, g)' \/ Examined(g)' \/ errors'[r] # {}
  BY <1>6, <1>8
<1>10. \A g \in seen'[r] : g \in seen[r] \/ Examined(g)' \/ errors'[r] # {}
  BY <1>6, <1>7
<1>11. \A q \in Runners \ {r} : /\ left'[q] = left[q] /\ queries'[q] = queries[q]
                                /\ seen'[q] = seen[q] /\ errors'[q] = errors[q]
  BY <1>1, <1>3, <1>7
<1>12. errors[r] # {} => errors'[r] # {}
  BY <1>3
<1> HIDE DEF DiscoveryInv, TypeOK
<1> QED
  BY <1>1, <1>2, <1>5, <1>9, <1>10, <1>11, <1>12, WorkKeepsInv

\* Steps that leave search and candidates alone.
LEMMA OtherKeepsInv ==
    ASSUME DiscoveryInv, TypeOK', NEW r \in Runners,
           \/ ProcessIssuer(r) \/ IssuerFails(r) \/ EnrichmentIsFresh(r)
           \/ EnrichSec(r) \/ EnrichSecFails(r) \/ Crash(r)
    PROVE  DiscoveryInv'
<1> USE DEF DiscoveryInv, TypeOK
<1>1. /\ pc[r] # "idle"
      /\ UNCHANGED <<day, phase, filedOn, watermark, mode, from, to, queries, left, seen, givenUp,
                     candidate>>
  BY DEF ProcessIssuer, IssuerFails, EnrichmentIsFresh, EnrichSec, EnrichSecFails, Crash, clock,
         tables, window, search, history
<1>2. \A q \in Runners : pc'[q] # "idle" => pc[q] # "idle"
  BY DEF ProcessIssuer, IssuerFails, EnrichmentIsFresh, EnrichSec, EnrichSecFails, Crash
<1>3. /\ errors[r] # {} => errors'[r] # {}
      /\ \A q \in Runners \ {r} : errors'[q] = errors[q]
  BY DEF ProcessIssuer, IssuerFails, EnrichmentIsFresh, EnrichSec, EnrichSecFails, Crash
<1>4. \A g \in Hits : Examined(g) => Examined(g)'
  BY <1>1, ExaminedStays
<1>5. \A g \in Hits : Searched(r, g) => Searched(r, g)'
  BY <1>1 DEF Searched
<1> QED
  BY <1>1, <1>2, <1>3, <1>4, <1>5, WorkKeepsInv

\* A run starts.  A delta run starts at the watermark, before which everything is
\* examined; its search is still to do.
LEMMA StartKeepsInv ==
    ASSUME DiscoveryInv, TypeOK', NEW r \in Runners, NEW mo \in ModeKinds,
           NEW start \in Nat, NEW end \in Nat, StartRun(r, mo, start, end),
           start <= UtcDay, UtcDay <= end + 1, mo = "delta" => start = DeltaStart(r)
    PROVE  DiscoveryInv'
<1> USE DEF DiscoveryInv, TypeOK
<1>1. /\ UNCHANGED <<day, phase, filedOn, watermark, candidate, givenUp>>
      /\ pc' = [pc EXCEPT ![r] = "search"] /\ mode' = [mode EXCEPT ![r] = mo]
      /\ from' = [from EXCEPT ![r] = start] /\ to' = [to EXCEPT ![r] = end]
      /\ queries' = [queries EXCEPT ![r] = IF mo = "baseline" THEN {} ELSE Queries]
      /\ left' = [left EXCEPT ![r] = {}] /\ seen' = [seen EXCEPT ![r] = {}]
      /\ errors' = [errors EXCEPT ![r] = {}]
  BY DEF StartRun, clock, tables, history
<1>2. UtcDay' = UtcDay /\ \A h \in Hits : (Past(h)' <=> Past(h)) /\ (Examined(h)' <=> Examined(h))
  BY <1>1 DEF UtcDay, Past, Examined
<1>3. \A q \in Runners \ {r} :
         /\ pc'[q] = pc[q] /\ mode'[q] = mode[q] /\ from'[q] = from[q] /\ to'[q] = to[q]
         /\ queries'[q] = queries[q] /\ left'[q] = left[q] /\ seen'[q] = seen[q]
         /\ errors'[q] = errors[q]
  BY <1>1
<1>4. /\ mode'[r] = mo /\ from'[r] = start /\ to'[r] = end /\ seen'[r] = {}
      /\ mo # "baseline" => queries'[r] = Queries
  BY <1>1
<1>5. UtcDay \in Nat
  BY DayType
<1>6. DatesAgree'
  <2>1. \A q \in Runners : pc'[q] # "idle" => from'[q] <= UtcDay /\ UtcDay <= to'[q] + 1
    BY <1>3, <1>4 DEF DatesAgree
  <2> QED
    BY <1>1, <1>2, <2>1 DEF DatesAgree
<1>7. WatermarkCoversSearch'
  BY <1>1, <1>2 DEF WatermarkCoversSearch
<1>8. WindowStartsInTime'
  <2> SUFFICES ASSUME NEW q \in Runners, NEW h \in Hits, pc'[q] # "idle", mode'[q] = "delta",
                      watermark # None, Past(h), filedOn[h] < from'[q]
               PROVE  Examined(h)
    BY <1>1, <1>2 DEF WindowStartsInTime
  <2>1. CASE q = r
    <3>1. from'[q] = watermark
      BY <1>4, <2>1 DEF DeltaStart
    <3> QED
      BY <3>1 DEF WatermarkCoversSearch, Past
  <2>2. CASE q # r
    BY <1>3, <2>2 DEF WindowStartsInTime
  <2> QED
    BY <2>1, <2>2
<1>9. WindowIsSearched'
  <2> SUFFICES ASSUME NEW q \in Runners, NEW h \in Hits, pc'[q] # "idle"
               PROVE  /\ mode'[q] # "baseline" /\ Past(h) /\ InWindow(q, h)'
                            => Examined(h) \/ errors'[q] # {} \/ Searched(q, h)'
                      /\ h \in seen'[q] => Examined(h) \/ errors'[q] # {}
    BY <1>2 DEF WindowIsSearched
  <2>1. CASE q = r
    BY <1>4, <2>1 DEF Searched
  <2>2. CASE q # r
    BY <1>1, <1>3, <2>2 DEF WindowIsSearched, Searched, InWindow
  <2> QED
    BY <2>1, <2>2
<1> QED
  BY <1>6, <1>7, <1>8, <1>9

\* A run ends without an error: what is dated before the new watermark was in its
\* window, or before it, or is given up.
LEMMA CompleteCovers ==
    ASSUME DiscoveryInv, NEW r \in Runners, CompleteRun(r), errors[r] = {},
           NEW h \in Hits, Past(h)
    PROVE  Examined(h) \/ filedOn[h] \in DaysJumped(r)
<1> USE DEF DiscoveryInv
<1>1. /\ filedOn[h] \in Nat /\ UtcDay \in Nat /\ from[r] \in Nat /\ to[r] \in Nat
      /\ mode[r] \in ModeKinds /\ filedOn[h] < UtcDay /\ filedOn[h] # None
  BY DayType DEF TypeOK, Past
<1>2. pc[r] # "idle" /\ ~Searched(r, h)
  BY DEF CompleteRun, Searched
<1>3. UtcDay <= to[r] + 1
  BY <1>2 DEF DatesAgree
<1>4. mode[r] # "baseline" /\ InWindow(r, h) => Examined(h)
  BY <1>2 DEF WindowIsSearched
<1>5. CASE mode[r] = "delta"
  <2>1. CASE filedOn[h] >= from[r]
    BY <1>1, <1>3, <1>4, <1>5, <2>1 DEF InWindow
  <2>2. CASE filedOn[h] < from[r] /\ watermark # None
    BY <1>2, <1>5, <2>2 DEF WindowStartsInTime
  <2>3. CASE filedOn[h] < from[r] /\ watermark = None
    <3>1. DaysJumped(r) = 0 .. from[r] - 1
      BY <1>5, <2>3 DEF DaysJumped
    <3> QED
      BY <1>1, <2>3, <3>1
  <2> QED
    BY <1>1, <2>1, <2>2, <2>3
<1>6. CASE mode[r] = "baseline"
  <2>1. DaysJumped(r) = 0 .. UtcDay - 1
    BY <1>6 DEF DaysJumped
  <2> QED
    BY <1>1, <2>1
<1>7. CASE mode[r] # "delta" /\ mode[r] # "baseline"
  <2>1. DaysJumped(r) = (0 .. UtcDay - 1) \ (from[r] .. to[r])
    BY <1>7 DEF DaysJumped
  <2>2. filedOn[h] \in 0 .. UtcDay - 1
    BY <1>1
  <2>3. filedOn[h] \in from[r] .. to[r] => InWindow(r, h)
    BY <1>1 DEF InWindow
  <2> QED
    BY <1>4, <1>7, <2>1, <2>2, <2>3
<1> QED
  BY <1>5, <1>6, <1>7

LEMMA CompleteKeepsInv ==
    ASSUME DiscoveryInv, TypeOK', NEW r \in Runners, CompleteRun(r) PROVE DiscoveryInv'
<1> USE DEF DiscoveryInv
<1>1. /\ UNCHANGED <<day, phase, filedOn, candidate, mode, from, to, queries, left, seen, errors>>
      /\ watermark' = (IF errors[r] = {} THEN UtcDay ELSE watermark)
      /\ givenUp' = givenUp \cup DaysJumped(r)
      /\ pc' = [pc EXCEPT ![r] = "idle"]
  BY DEF CompleteRun, NextWatermark, clock, window, search
<1>2. /\ UtcDay' = UtcDay /\ UtcDay \in Nat
      /\ \A h \in Hits : Past(h)' <=> Past(h)
      /\ \A q \in Runners, h \in Hits : InWindow(q, h)' <=> InWindow(q, h)
  BY <1>1, DayType DEF UtcDay, Past, InWindow
<1>3. \A q \in Runners : pc'[q] # "idle" => pc[q] # "idle"
  BY <1>1 DEF TypeOK
<1>4. \A h \in Hits : Examined(h) => Examined(h)'
  BY <1>1, ExaminedStays
<1>5. errors[r] = {} => \A h \in Hits : Past(h) => Examined(h)'
  BY <1>1, <1>4, CompleteCovers DEF Examined
<1>6. DatesAgree'
  BY <1>1, <1>2, <1>3 DEF DatesAgree
<1>7. WatermarkCoversSearch'
  BY <1>1, <1>4, <1>5 DEF WatermarkCoversSearch, Past
<1>8. WindowStartsInTime'
  BY <1>1, <1>2, <1>3, <1>4, <1>5 DEF WindowStartsInTime
<1>9. WindowIsSearched'
  BY <1>1, <1>2, <1>3, <1>4 DEF WindowIsSearched, Searched
<1> QED
  BY <1>6, <1>7, <1>8, <1>9

\* The clock, and the filings.
LEMMA AdvanceKeepsInv ==
    ASSUME DiscoveryInv, TypeOK', Advance, "slow" \notin Faults PROVE DiscoveryInv'
<1> USE DEF DiscoveryInv
<1>1. UNCHANGED <<filedOn, watermark, candidate, givenUp, pc, mode, from, to, queries, left, seen, errors>>
  BY DEF Advance, tables, run, window, search, history
<1>2. \A h \in Hits : Examined(h)' <=> Examined(h)
  BY <1>1 DEF Examined
<1>3. WatermarkCoversSearch'
  BY <1>1, <1>2 DEF WatermarkCoversSearch
<1>4. day \in Nat /\ day <= day' /\ day' \in Nat
  BY DEF Advance, TypeOK
<1>5. filedOn \in [Hits -> Nat \cup {None}] /\ watermark \in Nat \cup {None}
  BY DEF TypeOK
<1>6. CASE phase = "day" /\ Idle /\ UtcDay' = UtcDay + 1
  <2>1. \A r \in Runners : pc'[r] = "idle"
    BY <1>1, <1>6 DEF Idle
  <2>2. DatesAgree'
    BY <1>1, <1>4, <1>5, <1>6, <2>1, DayType DEF DatesAgree
  <2> QED
    BY <1>3, <2>1, <2>2 DEF WindowStartsInTime, WindowIsSearched
<1>7. CASE UtcDay' = UtcDay
  <2>1. DatesAgree'
    BY <1>1, <1>4, <1>5, <1>7 DEF DatesAgree
  <2>2. \A h \in Hits : Past(h)' <=> Past(h)
    BY <1>1, <1>7 DEF Past
  <2>3. WindowStartsInTime'
    BY <1>1, <1>2, <2>2 DEF WindowStartsInTime
  <2>4. WindowIsSearched'
    BY <1>1, <1>2, <2>2 DEF WindowIsSearched, InWindow, Searched
  <2> QED
    BY <1>3, <2>1, <2>3, <2>4
<1> QED
  BY <1>6, <1>7 DEF Advance, UtcDay

LEMMA PublishKeepsInv ==
    ASSUME DiscoveryInv, TypeOK', NEW g \in Hits, Publish(g) PROVE DiscoveryInv'
<1> USE DEF DiscoveryInv
<1>1. /\ UNCHANGED <<day, phase, watermark, candidate, givenUp, pc, mode, from, to, queries, left,
                     seen, errors>>
      /\ filedOn[g] = None /\ phase = "day" /\ filedOn' = [filedOn EXCEPT ![g] = day]
  BY DEF Publish, clock, tables, run, window, search, history
<1>2. UtcDay = day /\ UtcDay' = day /\ day \in Nat
  BY <1>1 DEF UtcDay, TypeOK
<1>3. filedOn'[g] = day /\ \A h \in Hits \ {g} : filedOn'[h] = filedOn[h]
  BY <1>1 DEF TypeOK
<1>4. \A h \in Hits : Past(h)' => Past(h) /\ h # g
  BY <1>2, <1>3 DEF Past
<1>5. \A h \in Hits : Examined(h) => Examined(h)'
  <2> TAKE h \in Hits
  <2>1. filedOn[h] \in givenUp => h # g
    BY <1>1 DEF TypeOK
  <2> QED
    BY <1>1, <1>3, <2>1 DEF Examined
<1>6. DatesAgree'
  BY <1>1, <1>2, <1>3 DEF DatesAgree
<1>7. WatermarkCoversSearch'
  <2> SUFFICES ASSUME NEW h \in Hits, filedOn'[h] # None, watermark # None, filedOn'[h] < watermark
               PROVE  Examined(h)'
    BY <1>1 DEF WatermarkCoversSearch
  <2>1. watermark \in Nat /\ watermark <= day
    BY <1>2 DEF DatesAgree, TypeOK
  <2>2. h # g
    BY <1>2, <1>3, <2>1
  <2> QED
    BY <1>3, <1>5, <2>2 DEF WatermarkCoversSearch
<1>8. WindowStartsInTime'
  BY <1>1, <1>3, <1>4, <1>5 DEF WindowStartsInTime
<1>9. WindowIsSearched'
  BY <1>1, <1>3, <1>4, <1>5 DEF WindowIsSearched, InWindow, Searched
<1> QED
  BY <1>6, <1>7, <1>8, <1>9

\* Every step keeps the invariant, when no run lasts through an afternoon.
LEMMA InvStep ==
    ASSUME "slow" \notin Faults PROVE DiscoveryInv /\ [Next]_vars => DiscoveryInv'
<1> SUFFICES ASSUME DiscoveryInv, [Next]_vars PROVE DiscoveryInv'
  OBVIOUS
<1>1. TypeOK' /\ TypeOK /\ UtcDay \in Nat
  BY TypeStep, DayType DEF DiscoveryInv
<1>2. CASE Advance
  BY <1>1, <1>2, AdvanceKeepsInv
<1>3. ASSUME NEW h \in Hits, Publish(h) PROVE DiscoveryInv'
  BY <1>1, <1>3, PublishKeepsInv
<1>4. day \in Nat /\ day <= UtcDay /\ UtcDay <= day + 1
  BY <1>1 DEF TypeOK, UtcDay
<1>5. \A r \in Runners :
         /\ Today(r) \in Nat /\ Today(r) <= UtcDay /\ UtcDay <= Today(r) + 1
         /\ DeltaStart(r) \in Nat /\ DeltaStart(r) <= UtcDay
  <2> TAKE r \in Runners
  <2>1. Today(r) \in Nat /\ Today(r) <= UtcDay /\ UtcDay <= Today(r) + 1
    BY <1>1, <1>4 DEF Today
  <2>2. watermark # None => watermark <= UtcDay
    BY DEF DiscoveryInv, DatesAgree
  <2> QED
    BY <1>1, <2>1, <2>2, DeltaStartType DEF DeltaStart
<1>6. ASSUME NEW r \in Scheduled, NightlyTrigger(r) PROVE DiscoveryInv'
  <2>1. r \in Runners /\ "delta" \in ModeKinds
    BY DEF Runners, ModeKinds
  <2> QED
    BY <1>1, <1>5, <1>6, <2>1, StartKeepsInv DEF NightlyTrigger
<1>7. ASSUME NEW r \in Operators, NEW mo \in Modes, OperatorStarts(r, mo) PROVE DiscoveryInv'
  <2>1. r \in Runners /\ mo \in ModeKinds
    BY DEF Runners
  <2>2. CASE mo = "delta" /\ StartRun(r, mo, DeltaStart(r), Today(r))
    BY <1>1, <1>5, <2>1, <2>2, StartKeepsInv
  <2>3. CASE mo = "baseline" /\ StartRun(r, mo, Today(r), Today(r))
    BY <1>1, <1>5, <2>1, <2>3, StartKeepsInv
  <2>4. CASE mo \in {"backfill", "reprocess"} /\ StartRun(r, mo, day, day)
    BY <1>1, <1>4, <2>1, <2>4, StartKeepsInv
  <2> QED
    BY <1>7, <2>2, <2>3, <2>4 DEF OperatorStarts
<1>8. ASSUME NEW r \in Runners, RunnerStep(r) \/ Crash(r) PROVE DiscoveryInv'
  BY <1>1, <1>8, QueryKeepsInv, HitKeepsInv, OtherKeepsInv, CompleteKeepsInv DEF RunnerStep
<1>9. CASE UNCHANGED vars
  BY <1>1, <1>9 DEF DiscoveryInv, DatesAgree, WatermarkCoversSearch, WindowStartsInTime,
     WindowIsSearched, Examined, Past, Searched, InWindow, UtcDay, vars, clock, tables, run,
     history, window, search
<1> QED
  BY <1>2, <1>3, <1>6, <1>7, <1>8, <1>9 DEF Next

-----------------------------------------------------------------------------
(* The checks of an issuer. *)

\* The last success is one of the successes, none of which is in the future.
CheckInv ==
    /\ TypeOK
    /\ ChecksLeaveNoGap
    /\ day >= 1
    /\ \A h \in Hits : filedOn[h] # None => filedOn[h] >= 1 /\ filedOn[h] <= day
    /\ \A c \in Ciks : checkedOn[c] # None =>
          checkedOn[c] \in stamps[c] /\ checkedOn[c] <= UtcDay /\ checkedFrom[c] \in Nat

\* A check stores what was filed since the last success, and stamps a later day.
LEMMA EnrichKeepsNoGap ==
    ASSUME CheckInv, TypeOK', NEW r \in Runners, EnrichSec(r) PROVE CheckInv'
<1> USE DEF CheckInv
<1> DEFINE c == CikOf[hit[r]]
<1>1. c \in Ciks /\ UtcDay \in Nat
  BY DayType DEF EnrichSec, TypeOK
<1>2. /\ UNCHANGED <<day, phase, filedOn>>
      /\ stored' = stored \cup FiledAfter(c, CheckSince(c))
      /\ checkedOn' = [checkedOn EXCEPT ![c] = UtcDay]
      /\ stamps' = [stamps EXCEPT ![c] = @ \cup {UtcDay}]
      /\ checkedFrom' = [checkedFrom EXCEPT ![c] = IF checkedOn[c] = None THEN CheckSince(c) ELSE @]
  BY DEF EnrichSec, clock
<1>3. UtcDay' = UtcDay
  BY <1>2 DEF UtcDay
<1>4. CheckSince(c) \in Nat
  BY <1>1, DiscoveryAssumption DEF TypeOK, CheckSince
<1>6. \A d \in Ciks : checkedOn'[d] # None =>
         checkedOn'[d] \in stamps'[d] /\ checkedOn'[d] <= UtcDay' /\ checkedFrom'[d] \in Nat
  BY <1>1, <1>2, <1>3, <1>4 DEF TypeOK
<1>5. ChecksLeaveNoGap'
  <2> SUFFICES ASSUME NEW h \in Hits, filedOn[h] # None, checkedOn'[CikOf[h]] # None,
                      filedOn[h] < checkedOn'[CikOf[h]], filedOn[h] > checkedFrom'[CikOf[h]]
               PROVE  h \in stored' \/ filedOn[h] \in stamps'[CikOf[h]]
    BY <1>2 DEF ChecksLeaveNoGap
  <2>1. CASE CikOf[h] # c
    BY <1>2, <2>1 DEF ChecksLeaveNoGap, TypeOK
  <2>2. CASE CikOf[h] = c
    <3>1. filedOn[h] \in Nat
      BY DEF TypeOK
    <3>2. CASE filedOn[h] > CheckSince(c)
      BY <1>2, <2>2, <3>2 DEF FiledAfter, Filed
    <3>3. CASE checkedOn[c] # None /\ filedOn[h] < checkedOn[c]
      <4>1. checkedFrom'[c] = checkedFrom[c]
        BY <1>1, <1>2, <3>3 DEF TypeOK
      <4> QED
        BY <1>1, <1>2, <2>2, <3>3, <4>1 DEF ChecksLeaveNoGap, TypeOK
    <3>4. CASE checkedOn[c] # None /\ filedOn[h] = checkedOn[c]
      BY <1>1, <1>2, <2>2, <3>4 DEF TypeOK
    <3>5. filedOn[h] >= 1 /\ (checkedOn[c] # None => checkedOn[c] \in Nat)
      BY <1>1 DEF TypeOK
    <3>8. checkedOn[c] = None => filedOn[h] > CheckSince(c)
      BY <1>1, <1>2, <2>2 DEF TypeOK
    <3> HIDE DEF CheckInv, c
    <3>6. CASE checkedOn[c] = None
      BY <3>2, <3>6, <3>8
    <3>7. CASE checkedOn[c] # None
      BY <3>1, <3>2, <3>3, <3>4, <3>5, <3>7 DEF CheckSince
    <3> QED
      BY <3>6, <3>7
  <2> QED
    BY <2>1, <2>2
<1> QED
  BY <1>2, <1>5, <1>6

LEMMA CheckStep == CheckInv /\ [Next]_vars => CheckInv'
<1> SUFFICES ASSUME CheckInv, [Next]_vars PROVE CheckInv'
  OBVIOUS
<1> USE DEF CheckInv
<1>1. TypeOK' /\ TypeOK
  BY TypeStep
<1>2. CASE UNCHANGED <<day, phase, filedOn, checkedOn, checkedFrom, stamps>> /\ stored \subseteq stored'
  <2>1. ChecksLeaveNoGap'
    BY <1>2 DEF ChecksLeaveNoGap
  <2> QED
    BY <1>1, <1>2, <2>1 DEF UtcDay
<1>3. CASE Advance
  <2>1. UNCHANGED <<filedOn, checkedOn, checkedFrom, stamps, stored>>
    BY <1>3 DEF Advance, tables, run, history
  <2>2. day' >= 1 /\ day <= day' /\ UtcDay <= UtcDay' /\ UtcDay \in Nat /\ UtcDay' \in Nat
    <3>1. day \in Nat /\ day' \in Nat
      BY <1>1 DEF TypeOK
    <3>2. \/ phase = "day" /\ phase' = "evening" /\ day' = day
          \/ phase = "evening" /\ phase' = "day" /\ day' = day + 1
      BY <1>3 DEF Advance
    <3>3. UtcDay \in Nat /\ UtcDay' \in Nat /\ UtcDay <= UtcDay'
      <4>1. CASE phase = "day" /\ phase' = "evening" /\ day' = day
        <5>1. UtcDay = day /\ UtcDay' = day + 1
          BY <4>1 DEF UtcDay
        <5> QED
          BY <3>1, <5>1
      <4>2. CASE phase = "evening" /\ phase' = "day" /\ day' = day + 1
        <5>1. UtcDay = day + 1 /\ UtcDay' = day + 1
          BY <4>2 DEF UtcDay
        <5> QED
          BY <3>1, <5>1
      <4> QED
        BY <3>2, <4>1, <4>2
    <3> QED
      BY <3>1, <3>2, <3>3
  <2>3. ChecksLeaveNoGap'
    BY <2>1 DEF ChecksLeaveNoGap
  <2>4. \A h \in Hits : filedOn[h] # None => filedOn[h] >= 1 /\ filedOn[h] <= day'
    BY <1>1, <2>2 DEF TypeOK
  <2>5. \A d \in Ciks : checkedOn[d] # None =>
            checkedOn[d] \in stamps[d] /\ checkedOn[d] <= UtcDay' /\ checkedFrom[d] \in Nat
    BY <1>1, <2>2 DEF TypeOK
  <2> QED
    BY <1>1, <2>1, <2>2, <2>3, <2>4, <2>5
<1>4. ASSUME NEW g \in Hits, Publish(g) PROVE CheckInv'
  <2>1. /\ UNCHANGED <<day, phase, checkedOn, checkedFrom, stamps, stored>>
        /\ phase = "day" /\ filedOn' = [filedOn EXCEPT ![g] = day]
    BY <1>4 DEF Publish, clock, tables, history
  <2>2. UtcDay = day /\ UtcDay' = day /\ day \in Nat
    BY <1>1, <2>1 DEF UtcDay, TypeOK
  <2>3. filedOn'[g] = day /\ \A h \in Hits \ {g} : filedOn'[h] = filedOn[h]
    BY <1>1, <2>1 DEF TypeOK
  <2>4. ChecksLeaveNoGap'
    <3> SUFFICES ASSUME NEW h \in Hits, filedOn'[h] # None, checkedOn[CikOf[h]] # None,
                        filedOn'[h] < checkedOn[CikOf[h]], filedOn'[h] > checkedFrom[CikOf[h]]
                 PROVE  h \in stored \/ filedOn'[h] \in stamps[CikOf[h]]
      BY <2>1 DEF ChecksLeaveNoGap
    <3>1. checkedOn[CikOf[h]] \in Nat /\ checkedOn[CikOf[h]] <= day
      BY <1>1, <2>2 DEF TypeOK
    <3>2. h # g
      BY <2>2, <2>3, <3>1
    <3> QED
      BY <2>3, <3>2 DEF ChecksLeaveNoGap
  <2> QED
    BY <1>1, <2>1, <2>2, <2>3, <2>4
<1>5. ASSUME NEW r \in Runners, EnrichSec(r) PROVE CheckInv'
  BY <1>1, <1>5, EnrichKeepsNoGap
<1>6. ASSUME NEW r \in Runners, RunnerStep(r) \/ Crash(r), ~EnrichSec(r)
      PROVE  UNCHANGED <<day, phase, filedOn, checkedOn, checkedFrom, stamps>> /\ stored \subseteq stored'
  BY <1>6 DEF RunnerStep, BeginQuery, NextPageFails, CapQuery, WorkOnHit, SkipExamined,
     ResolveFails, RejectCandidate, ResolveCandidate, ProcessIssuer, IssuerFails,
     EnrichmentIsFresh, EnrichSecFails, CompleteRun, Crash, clock, tables, history
<1>7. ASSUME NEW r \in Runners, NEW mo, NEW start, NEW end, StartRun(r, mo, start, end)
      PROVE  UNCHANGED <<day, phase, filedOn, checkedOn, checkedFrom, stamps>> /\ stored \subseteq stored'
  BY <1>7 DEF StartRun, clock, tables, history
<1>8. ASSUME NEW r \in Scheduled, NightlyTrigger(r) PROVE CheckInv'
  <2>1. r \in Runners
    BY DEF Runners
  <2> HIDE DEF CheckInv
  <2> QED
    BY <1>2, <1>7, <1>8, <2>1 DEF NightlyTrigger
<1>9. ASSUME NEW r \in Operators, NEW mo \in Modes, OperatorStarts(r, mo) PROVE CheckInv'
  <2>1. r \in Runners
    BY DEF Runners
  <2> HIDE DEF CheckInv
  <2> QED
    BY <1>2, <1>7, <1>9, <2>1 DEF OperatorStarts
<1>10. CASE UNCHANGED vars
  BY <1>2, <1>10 DEF vars, clock, tables, history
<1> HIDE DEF CheckInv
<1> QED
  BY <1>2, <1>3, <1>4, <1>5, <1>6, <1>8, <1>9, <1>10 DEF Next

-----------------------------------------------------------------------------
(* Theorems. *)

\* Every column and local variable of the runs has its type, whatever fails.
THEOREM DiscoveryTypes == Spec => []TypeOK
<1>1. Init => TypeOK
  BY InitInv DEF DiscoveryInv
<1> QED
  BY <1>1, TypeStep, PTL DEF Spec

\* The whole invariant that ties a watermark to its search: with no run through an
\* afternoon, every date agrees with the clock, what is examined covers the search
\* of each run, and no hit below the watermark is missed (run_discovery).
THEOREM DiscoveryInvariant ==
    ASSUME "slow" \notin Faults PROVE Spec => []DiscoveryInv
<1>1. DiscoveryInv /\ [Next]_vars => DiscoveryInv'
  BY InvStep
<1> QED
  BY <1>1, InitInv, PTL DEF Spec

\* No hit of a day before the watermark is left unexamined, for any number of runs
\* of any mode that overlap, fail or crash, as long as none lasts through an
\* afternoon (the watermark of run_discovery against its search).
THEOREM WatermarkSound ==
    ASSUME "slow" \notin Faults PROVE Spec => []WatermarkCoversSearch
<1>1. DiscoveryInv => WatermarkCoversSearch
  BY DEF DiscoveryInv
<1> QED
  BY <1>1, DiscoveryInvariant, PTL

\* The SEC checks of an issuer leave no gap between the day the first successful one
\* looked back to and the last success, but the UTC days of the successes, for any
\* look-back and also when a run lasts through an afternoon (_enrich_sec).
THEOREM NoGap == Spec => []ChecksLeaveNoGap
<1>1. Init => CheckInv
  BY InitInv DEF Init, CheckInv, ChecksLeaveNoGap, DiscoveryInv
<1>2. CheckInv => ChecksLeaveNoGap
  BY DEF CheckInv
<1> QED
  BY <1>1, <1>2, CheckStep, PTL DEF Spec
=============================================================================
