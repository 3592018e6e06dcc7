----------------------------- MODULE ReferenceData -----------------------------
(* The ingestion of reference data: issuers, financial facts and aggregate    *)
(* debt from SEC EDGAR, filings, bonds from OpenFIGI, series from FRED.  A job *)
(* is one transaction: it reads what is stored, fetches a response, keeps it   *)
(* as a raw payload, writes a provenance record per fact derived from it, and  *)
(* finds or creates the row.  Jobs overlap; reads are of committed rows and of *)
(* the job's own; a unique index refuses the second row of one identity.       *)
(*                                                                             *)
(* An item is what a provider may report.  Its number is the day it appears;   *)
(* the provider revises its value on the days after that.                      *)
EXTENDS Integers, Sequences, FiniteSetsExt, TLC

CONSTANTS
    Ingesters,      \* sessions that run a job
    Ciks,           \* SEC registrants, and the issuers they become
    Days,           \* fiscal periods, filing days and observation dates
    Figis,          \* bonds known to OpenFIGI
    Window,         \* observations or bonds taken from one response
    MissingDates,   \* dates FRED reports "." for
    Revisions,      \* bound: how often a value is revised
    Programmes,     \* sets of jobs that run in one behaviour
    MaxFetches      \* bound: responses fetched

\* A series never leaves out a whole window of dates in a row.
ASSUME WindowAssumption ==
    /\ Window \in Nat /\ Days \subseteq Nat \ {0}
    /\ \A d, e \in Days :
          LET gap == {m \in Days : d < m /\ m <= e}
          IN gap \subseteq MissingDates => Cardinality(gap) < Window

ASSUME FigisAssumption == IsFiniteSet(Figis)

JobNames == {"identity", "fact", "aggregate", "filings", "bonds", "series"}
ASSUME ProgrammesAssumption == Programmes \subseteq SUBSET JobNames

VARIABLES
    programme,      \* the jobs that run
    today,          \* the day the providers report on
    payloads,       \* every response fetched: what was asked, and what it said
    stored,         \* committed rows, provenance, payloads, links, registry
    ingest          \* per session: the job, and what it wrote but did not commit

refVars == <<programme, today, payloads, stored, ingest>>

(***************************************************************************)
(* What the providers report                                               *)
(***************************************************************************)
Items(kind) ==
    CASE kind = "issuer" -> [kind : {kind}, of : Ciks, no : {0}]
      [] kind \in {"filing", "fact", "aggregate"} -> [kind : {kind}, of : Ciks, no : Days]
      [] kind = "bond" -> [kind : {kind}, of : {"figi"}, no : Figis]
      [] kind = "series" -> [kind : {kind}, of : {"fred"}, no : {0}]
      [] kind = "observation" -> [kind : {kind}, of : {"fred"}, no : Days]

ItemKinds == {"issuer", "filing", "fact", "aggregate", "bond", "series", "observation"}
AllItems == UNION {Items(k) : k \in ItemKinds}

\* The kinds each request reports on; submissions and facts are of one issuer.
Reports(request) ==
    [submissions |-> {"issuer", "filing"}, facts |-> {"fact", "aggregate"},
     search |-> {"bond"}, series |-> {"series"}, observations |-> {"observation"}][request]

Published == {x \in AllItems : x.no \in Days => x.no <= today}
Value(x) == IF x.no \in Days THEN Min({Revisions, today - x.no}) ELSE 0

Response(request, cik) ==
    [x \in {y \in Published : /\ y.kind \in Reports(request)
                              /\ request \in {"submissions", "facts"} => y.of = cik}
        |-> Value(x)]

Newest(items, n) == {x \in items : Cardinality({y \in items : y.no > x.no}) < n}

Reported(said, kind) == {x \in DOMAIN said : x.kind = kind}

\* What a job takes out of a response: the newest datapoint of a concept, the
\* filings after the watermark, the first bonds, the newest observations less
\* those FRED reports no value for.
Datapoint(said, concept) == Newest(Reported(said, concept), 1)
FilingsSince(said, since) == {x \in Reported(said, "filing") : x.no > since}
FirstBonds(said) ==
    LET bonds == Reported(said, "bond")
    IN CHOOSE s \in SUBSET bonds : Cardinality(s) = Min({Window, Cardinality(bonds)})
Observations(said) ==
    {x \in Newest(Reported(said, "observation"), Window) : x.no \notin MissingDates}

(***************************************************************************)
(* Jobs: the requests of each, whether the issuer must be known before it  *)
(* asks ("known"), must not be ("new"), or is looked up later ("later").   *)
(***************************************************************************)
IdentityJob == [requests |-> <<"submissions">>, issuer |-> "new"]
FactJob == [requests |-> <<"submissions", "facts">>, issuer |-> "later"]
AggregateJob == [requests |-> <<"facts">>, issuer |-> "known"]
FilingsJob == [requests |-> <<"submissions">>, issuer |-> "known"]
BondsJob == [requests |-> <<"search">>, issuer |-> "known"]
SeriesJob == [requests |-> <<"series", "observations">>, issuer |-> "later"]

Job(name) == [identity |-> IdentityJob, fact |-> FactJob, aggregate |-> AggregateJob,
              filings |-> FilingsJob, bonds |-> BondsJob, series |-> SeriesJob][name]

Wanted(job, request, said) ==
    CASE request = "submissions" ->
            IF job.name = "filings" THEN FilingsSince(said, job.since) ELSE Reported(said, "issuer")
      [] request = "facts" -> Datapoint(said, job.name)
      [] request = "search" -> FirstBonds(said)
      [] request = "series" -> Reported(said, "series")
      [] request = "observations" -> Observations(said)

NoWork == [rows |-> {}, provs |-> {}, kept |-> {}, links |-> <<>>, registry |-> {}]
Idle == [job |-> [name |-> "none", cik |-> "none", since |-> 0],
         plan |-> <<>>, payload |-> 0, todo |-> {}, reading |-> {}, tx |-> NoWork]

RefInit ==
    /\ programme \in Programmes
    /\ today = 0
    /\ payloads = <<>>
    /\ stored = NoWork
    /\ ingest = [w \in Ingesters |-> Idle]

Visible(w) == stored.rows \cup ingest[w].tx.rows

\* The row a job reuses.  An aggregate is known by its issuer and by the start of
\* its description; every other kind by the key of its unique index.
Existing(rows, x) ==
    {r \in rows : IF x.kind = "aggregate" THEN r.item.kind = x.kind /\ r.item.of = x.of
                                         ELSE r.item = x}

IssuerRow(rows, cik) == Existing(rows, [kind |-> "issuer", of |-> cik, no |-> 0])

\* format_cik10, then the check each job makes before it asks the provider.
Begin(w) ==
    \E name \in programme, cik \in Ciks, since \in {0} \cup Days :
        /\ ingest[w] = Idle /\ Len(payloads) < MaxFetches
        /\ Job(name).issuer = "new" => IssuerRow(stored.rows, cik) = {}
        /\ Job(name).issuer = "known" => IssuerRow(stored.rows, cik) # {}
        /\ name # "filings" => since = 0
        /\ ingest' = [ingest EXCEPT ![w].job = [name |-> name, cik |-> cik, since |-> since],
                                    ![w].plan = Job(name).requests]
        /\ UNCHANGED <<programme, today, payloads, stored>>

Dated == {x \in Published : x.kind = "observation" /\ x.no \notin MissingDates}

RawPayload(said) == [said |-> said, dated |-> Dated]

\* A fetch stores the raw payload; a concept without a usable datapoint raises.
Fetch(w) ==
    /\ ingest[w].plan # <<>> /\ ingest[w].todo = {} /\ ingest[w].reading = {}
    /\ LET job == ingest[w].job
           request == Head(ingest[w].plan)
           said == Response(request, job.cik)
           id == Len(payloads) + 1
           wanted == Wanted(job, request, said)
       IN /\ payloads' = Append(payloads, RawPayload(said))
          /\ ingest' = IF request = "facts" /\ wanted = {}
                       THEN [ingest EXCEPT ![w] = Idle]
                       ELSE [ingest EXCEPT ![w].plan = Tail(@), ![w].payload = id,
                                           ![w].todo = wanted, ![w].tx.kept = @ \cup {id}]
    /\ UNCHANGED <<programme, today, stored>>

ProvenanceOfLatest(w, x) == [item |-> x, payload |-> Len(payloads)]
Provenance(w, x) == [item |-> x, payload |-> ingest[w].payload]

\* A payload points at the last provenance record made from it.
LinkProvenance(links, prov) == (prov.payload :> prov) @@ links

\* SEC jobs write the provenance of a fact they may already have, and link it;
\* the other providers only write it with a new row.
Audit(w, x) ==
    IF x.kind \in {"bond", "observation"} THEN ingest[w].tx
    ELSE [ingest[w].tx EXCEPT !.provs = @ \cup {Provenance(w, x)},
                              !.links = LinkProvenance(@, Provenance(w, x))]

\* upsert_series: the row lock is held until the job ends.
UpsertSeries(w, x) ==
    /\ x.kind = "series"
    /\ \A v \in Ingesters \ {w} : ingest[v].tx.registry = {}
    /\ ingest' = [ingest EXCEPT ![w].todo = @ \ {x}, ![w].tx.registry = {ingest[w].payload}]

\* A row that exists is kept as it is.  ingest_issuer_identity_only looked
\* before it fetched, and does not look again.
Look(w, x) ==
    /\ x.kind # "series"
    /\ LET found == Existing(Visible(w), x) # {} /\ ingest[w].job.name # "identity"
       IN ingest' = [ingest EXCEPT ![w].todo = @ \ {x}, ![w].tx = Audit(w, x),
                                   ![w].reading = IF found THEN {} ELSE {x}]

\* SEC and FRED list the newest item first.
First(items) == CHOOSE x \in items : x.no \in Days => \A y \in items : y.no <= x.no

Take(w) ==
    /\ ingest[w].reading = {}
    /\ ingest[w].todo # {}
    /\ LET x == First(ingest[w].todo) IN UpsertSeries(w, x) \/ Look(w, x)
    /\ UNCHANGED <<programme, today, payloads, stored>>

\* The unique indexes: cik, figi, accession number, fact key, observation date.
Clash(w, x) == x.kind # "aggregate" /\ Existing(Visible(w), x) # {}
Locked(w, x) == x.kind # "aggregate"
                /\ \E v \in Ingesters \ {w} : Existing(ingest[v].tx.rows, x) # {}

NewRow(w, x) ==
    [item |-> x, value |-> payloads[ingest[w].payload].said[x], prov |-> Provenance(w, x),
     issuer |-> IF x.kind \in {"issuer", "observation"} THEN {}
                ELSE {r.prov : r \in IssuerRow(Visible(w), ingest[w].job.cik)}]

\* The insert waits for another transaction that wrote the same key; the index
\* refuses a key that is there by now, and the job is rolled back.
Insert(w) ==
    /\ \E x \in ingest[w].reading :
        /\ ~Locked(w, x)
        /\ ingest' = IF Clash(w, x) THEN [ingest EXCEPT ![w] = Idle]
                     ELSE [ingest EXCEPT ![w].reading = {},
                              ![w].tx.rows = @ \cup {NewRow(w, x)},
                              ![w].tx.provs = @ \cup {Provenance(w, x)}]
    /\ UNCHANGED <<programme, today, payloads, stored>>

CommitJob(w) ==
    /\ ingest[w] # Idle /\ ingest[w].plan = <<>>
    /\ ingest[w].todo = {} /\ ingest[w].reading = {}
    /\ LET tx == ingest[w].tx
       IN stored' = [rows |-> stored.rows \cup tx.rows, provs |-> stored.provs \cup tx.provs,
                     kept |-> stored.kept \cup tx.kept, links |-> tx.links @@ stored.links,
                     registry |-> IF tx.registry = {} THEN stored.registry ELSE tx.registry]
    /\ ingest' = [ingest EXCEPT ![w] = Idle]
    /\ UNCHANGED <<programme, today, payloads>>

RollBackKeepingSeries(w) ==
    /\ ingest[w] # Idle
    /\ stored' = IF ingest[w].tx.registry = {} THEN stored
                 ELSE [stored EXCEPT !.registry = ingest[w].tx.registry]
    /\ ingest' = [ingest EXCEPT ![w] = Idle]
    /\ UNCHANGED <<programme, today, payloads>>

\* An HTTP error, a response that does not parse, a deadlock broken by the
\* database, a crash: the caller rolls back.
RollBackJob(w) ==
    /\ ingest[w] # Idle
    /\ ingest' = [ingest EXCEPT ![w] = Idle]
    /\ UNCHANGED <<programme, today, payloads, stored>>

\* The world: the next day.
NextDay ==
    /\ today + 1 \in Days /\ today' = today + 1
    /\ UNCHANGED <<programme, payloads, stored, ingest>>

IngestStep(w) == \/ Begin(w) \/ Fetch(w) \/ Take(w) \/ Insert(w)
                 \/ CommitJob(w) \/ RollBackJob(w)
RefNext == NextDay \/ \E w \in Ingesters : IngestStep(w)
RefSpec == RefInit /\ [][RefNext]_refVars

(***************************************************************************)
(* Properties                                                              *)
(***************************************************************************)
\* The market context shows the latest observation under the label of the registry.
Shown == {r \in stored.rows : r.item.kind = "observation"
             /\ \A s \in stored.rows : s.item.kind = "observation" => s.item.no <= r.item.no}

(* Every stored row says what a kept response said of that very item, through *)
(* a stored provenance; its issuer is the stored issuer it was ingested for.  *)
RowsTraceToPayloads ==
    \A r \in stored.rows :
        /\ r.prov \in stored.provs /\ r.prov.item = r.item
        /\ r.prov.payload \in stored.kept
        /\ payloads[r.prov.payload].said[r.item] = r.value
        /\ r.issuer \subseteq {s.prov : s \in {t \in stored.rows : t.item.kind = "issuer"}}
        /\ r.item.kind \in {"filing", "fact", "aggregate"} =>
              \E s \in stored.rows : s.prov \in r.issuer /\ s.item.of = r.item.of

(* The freshness label of the market context (the last sync of the series) is *)
(* never newer than the observation it labels: whatever FRED had published    *)
(* when the label was fetched is shown, or something newer is.                *)
ContextAsFreshAsLabelled ==
    \A p \in stored.registry :
        \A x \in payloads[p].dated : \E r \in Shown : r.item.no >= x.no
=============================================================================
