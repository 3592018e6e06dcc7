----------------------------- MODULE SupportProofs -----------------------------
(* The parts that MCSupport composes, for every value of their constants: the   *)
(* HTTP client is polite, what the reference-data jobs commit can be traced to   *)
(* the payloads they came from, a morning brief keeps to one cycle, cleaning     *)
(* demo data away is exact and its recoveries go to the senior layers first, an  *)
(* alert leads with the worst signal of its text, a search shows nothing twice,  *)
(* and a document is cut into chunks without a word lost.  Each part has the     *)
(* inductive invariant of its specification, one lemma per action, and then its  *)
(* theorem.                                                                      *)
EXTENDS HttpClient, ReferenceData, ResearchDesk, SyntheticData, DistressRules, Chunker, Search,
        TLAPS, FiniteSetTheorems, FunctionTheorems, SequenceTheorems, WellFoundedInduction

-----------------------------------------------------------------------------
(* The HTTP client: where a call is in its time.                           *)

\* One attempt with the wait after it, and n of them.
Round == MinInterval + Timeout + MaxRetryAfter
Due(n) == n * Round

HttpTypeOK ==
    /\ clock \in Nat /\ startedAt \in Nat /\ wakeAt \in Nat
    /\ attempt \in 0..MaxRetries
    /\ phase \in {"idle", "throttling", "sent", "sleeping"}
    /\ method \in {"get", "post"}
    /\ lastRequestAt \in SUBSET Nat

\* There is one last request, and it is in the past.
OneLastRequest ==
    /\ \A s, t \in lastRequestAt : s = t
    /\ \A t \in lastRequestAt : t <= clock

\* Where a call is in its time: when it may send, when it must have its answer,
\* when its wait is over.
OnSchedule ==
    /\ phase = "throttling" =>
          /\ clock <= wakeAt /\ wakeAt - startedAt <= Due(attempt) + MinInterval
          /\ \A t \in lastRequestAt : wakeAt - t >= MinInterval
    /\ phase = "sent" =>
          \E t \in lastRequestAt :
              /\ t - startedAt <= Due(attempt) + MinInterval
              /\ clock <= t + Timeout
    /\ phase = "sleeping" =>
          /\ attempt < MaxRetries /\ clock <= wakeAt
          /\ wakeAt - startedAt <= Due(attempt) + Round

HttpInv == HttpTypeOK /\ OneLastRequest /\ OnSchedule

-----------------------------------------------------------------------------
(* Arithmetic of attempts. *)

\* Attempts take equal shares of the time.
LEMMA DueIsLinear ==
    ASSUME NEW n \in Nat
    PROVE  /\ Round \in Nat /\ Due(n) \in Nat
           /\ Due(0) = 0 /\ Due(n + 1) = Due(n) + Round
<1>1. Round \in Nat  BY HttpAssumption DEF Round
<1>2. n * Round \in Nat /\ (n + 1) * Round = n * Round + Round /\ 0 * Round = 0  BY <1>1
<1> QED  BY <1>1, <1>2 DEF Due

\* Later attempts are due later.
LEMMA DueIsMonotone ==
    ASSUME NEW n \in Nat, NEW k \in Nat, n <= k
    PROVE  Due(n) <= Due(k)
<1>1. Round \in Nat  BY DueIsLinear
<1> DEFINE d == k - n
<1>2. d \in Nat /\ k = n + d  OBVIOUS
<1>3. d * Round \in Nat /\ (n + d) * Round = n * Round + d * Round /\ n * Round \in Nat
  BY <1>1, <1>2
<1> QED  BY <1>2, <1>3 DEF Due

\* What all attempts may take together is within the bound of a call.
LEMMA BudgetIsDue ==
    ASSUME NEW n \in Nat
    PROVE  Budget(n) = Due(n) + MinInterval + Timeout
<1>1. /\ (n + 1) * (MinInterval + Timeout) = n * (MinInterval + Timeout) + MinInterval + Timeout
      /\ n * (MinInterval + Timeout + MaxRetryAfter) = n * (MinInterval + Timeout) + n * MaxRetryAfter
  BY HttpAssumption
<1>2. n * (MinInterval + Timeout) \in Nat /\ n * MaxRetryAfter \in Nat  BY HttpAssumption
<1> QED  BY <1>1, <1>2, HttpAssumption DEF Budget, Due, Round

-----------------------------------------------------------------------------
(* Helpers of the actions. *)

\* _throttle waits at most an interval, and until it is over since the last request.
LEMMA UnthrottledIsSoon ==
    ASSUME HttpTypeOK, OneLastRequest
    PROVE  /\ Unthrottled \in Nat /\ clock <= Unthrottled
           /\ Unthrottled <= clock + MinInterval
           /\ \A t \in lastRequestAt : Unthrottled - t >= MinInterval
<1>1. CASE \E t \in lastRequestAt : t + MinInterval > clock
  <2> DEFINE s == CHOOSE t \in lastRequestAt : t + MinInterval > clock
  <2>1. s \in lastRequestAt /\ s + MinInterval > clock  BY <1>1
  <2>2. Unthrottled = s + MinInterval  BY <1>1 DEF Unthrottled
  <2>3. s \in Nat /\ s <= clock  BY <2>1 DEF HttpTypeOK, OneLastRequest
  <2>4. \A t \in lastRequestAt : t = s  BY <2>1 DEF OneLastRequest
  <2> HIDE DEF s
  <2> QED  BY <2>1, <2>2, <2>3, <2>4, HttpAssumption DEF HttpTypeOK
<1>2. CASE ~\E t \in lastRequestAt : t + MinInterval > clock
  <2>1. Unthrottled = clock  BY <1>2 DEF Unthrottled
  <2> QED  BY <1>2, <2>1, HttpAssumption DEF HttpTypeOK
<1> QED  BY <1>1, <1>2

\* Every wait is a time of zero or more.
LEMMA WaitIsNatural ==
    ASSUME HttpTypeOK, NEW header \in Headers
    PROVE  RetryAfterSeconds(header) \in Nat
<1>1. CASE header.form = "seconds"
  <2>1. header \in [form : {"seconds", "date"}, n : 0..MaxAsked]  BY <1>1 DEF Headers
  <2> QED  BY <1>1, <2>1, HttpAssumption DEF RetryAfterSeconds
<1>2. CASE header.form = "date"
  <2>1. header \in [form : {"seconds", "date"}, n : 0..MaxAsked]  BY <1>2 DEF Headers
  <2>2. RetryAfterSeconds(header) = IF header.n > clock THEN header.n - clock ELSE 0
    BY <1>2 DEF RetryAfterSeconds
  <2> QED  BY <2>1, <2>2, HttpAssumption DEF HttpTypeOK
<1>3. CASE header.form \in {"none", "unreadable"}
  <2>1. RetryAfterSeconds(header) = DefaultRetryAfter  BY <1>3 DEF RetryAfterSeconds
  <2> QED  BY <2>1, HttpAssumption
<1> QED  BY <1>1, <1>2, <1>3 DEF Headers

-----------------------------------------------------------------------------
\* The client starts idle.
LEMMA HttpInitInv == HttpInit => HttpInv
<1>1. 0 \in 0..MaxRetries  BY HttpAssumption
<1> QED  BY <1>1 DEF HttpInit, HttpInv, HttpTypeOK, OneLastRequest, OnSchedule

\* Every step keeps a call on its schedule.
LEMMA HttpInvStep == HttpInv /\ [HttpNext]_httpVars => HttpInv'
<1> SUFFICES ASSUME HttpInv, [HttpNext]_httpVars PROVE HttpInv'
  OBVIOUS
<1> USE DEF HttpInv
<1>1. ASSUME NEW m \in {"get", "post"}, Call(m) PROVE HttpInv'
  <2>1. Due(0) = 0  BY DueIsLinear
  <2>2. Unthrottled \in Nat /\ clock <= Unthrottled /\ Unthrottled <= clock + MinInterval
        /\ \A t \in lastRequestAt : Unthrottled - t >= MinInterval  BY UnthrottledIsSoon
  <2>3. wakeAt' = Unthrottled /\ startedAt' = clock /\ attempt' = 0 /\ phase' = "throttling"
        /\ method' = m /\ clock' = clock /\ lastRequestAt' = lastRequestAt  BY <1>1 DEF Call
  <2>4. HttpTypeOK'  BY <2>2, <2>3, HttpAssumption DEF HttpTypeOK
  <2>5. OneLastRequest'  BY <2>3 DEF OneLastRequest
  <2>6. Due(attempt)' = 0  BY <2>1, <2>3 DEF Due, Round
  <2>7. OnSchedule'  BY <2>2, <2>3, <2>6, HttpAssumption DEF OnSchedule, HttpTypeOK
  <2> QED  BY <2>4, <2>5, <2>7
<1>2. CASE Send
  <2>1. /\ phase = "throttling" /\ clock >= wakeAt /\ phase' = "sent" /\ lastRequestAt' = {clock}
        /\ clock' = clock /\ method' = method /\ attempt' = attempt
        /\ startedAt' = startedAt /\ wakeAt' = wakeAt  BY <1>2 DEF Send
  <2>2. HttpTypeOK'  BY <2>1 DEF HttpTypeOK
  <2>3. OneLastRequest'  BY <2>1 DEF OneLastRequest, HttpTypeOK
  <2>4. Due(attempt)' = Due(attempt) /\ Due(attempt) \in Nat
    BY <2>1, DueIsLinear DEF HttpTypeOK, Due, Round
  <2>5. clock = wakeAt  BY <2>1 DEF OnSchedule, HttpTypeOK
  <2>6. clock - startedAt <= Due(attempt) + MinInterval  BY <2>1, <2>5 DEF OnSchedule
  <2>7. OnSchedule'  BY <2>1, <2>4, <2>6, HttpAssumption DEF OnSchedule, HttpTypeOK
  <2> QED  BY <2>2, <2>3, <2>7
<1>3. CASE Return
  <2>1. /\ phase' = "idle" /\ clock' = clock /\ lastRequestAt' = lastRequestAt /\ method' = method
        /\ attempt' = attempt /\ startedAt' = startedAt /\ wakeAt' = wakeAt  BY <1>3 DEF Return
  <2> QED  BY <2>1 DEF HttpTypeOK, OneLastRequest, OnSchedule
<1>4. ASSUME NEW header \in Headers, Throttled(header) PROVE HttpInv'
  <2> DEFINE wait == RetryAfterSeconds(header)
  <2>1. wait \in Nat  BY WaitIsNatural
  <2>2. /\ phase = "sent" /\ attempt < MaxRetries
        /\ clock' = clock /\ lastRequestAt' = lastRequestAt /\ method' = method
        /\ attempt' = attempt /\ startedAt' = startedAt  BY <1>4 DEF Throttled
  <2>3. OneLastRequest'  BY <2>2 DEF OneLastRequest
  <2>4. CASE TooLong(wait)
    <3>1. phase' = "idle" /\ wakeAt' = wakeAt  BY <1>4, <2>4 DEF Throttled
    <3> QED  BY <2>2, <2>3, <3>1 DEF HttpTypeOK, OnSchedule
  <2>5. CASE ~TooLong(wait)
    <3>1. phase' = "sleeping" /\ wakeAt' = clock + wait  BY <1>4, <2>5 DEF Throttled
    <3> HIDE DEF wait
    <3>2. wait <= MaxRetryAfter  BY <2>1, <2>5, HttpAssumption DEF TooLong
    <3>3. HttpTypeOK'  BY <2>1, <2>2, <3>1 DEF HttpTypeOK
    <3>4. PICK t \in lastRequestAt : t - startedAt <= Due(attempt) + MinInterval /\ clock <= t + Timeout
      BY <2>2 DEF OnSchedule
    <3>5. t \in Nat /\ Due(attempt) \in Nat /\ Due(attempt)' = Due(attempt) /\ Round' = Round
      BY <2>2, <3>4, DueIsLinear DEF HttpTypeOK, Due, Round
    <3>6. clock + wait - startedAt <= Due(attempt) + Round
      BY <2>1, <3>2, <3>4, <3>5, HttpAssumption DEF HttpTypeOK, Round
    <3>7. OnSchedule'  BY <2>1, <2>2, <3>1, <3>5, <3>6 DEF OnSchedule, HttpTypeOK
    <3> QED  BY <2>3, <3>3, <3>7
  <2> QED  BY <2>4, <2>5
<1>5. CASE Retry
  <2>1. /\ phase = "sleeping" /\ clock >= wakeAt /\ phase' = "throttling" /\ attempt' = attempt + 1
        /\ wakeAt' = Unthrottled /\ clock' = clock /\ lastRequestAt' = lastRequestAt
        /\ method' = method /\ startedAt' = startedAt  BY <1>5 DEF Retry
  <2>2. attempt < MaxRetries /\ clock = wakeAt /\ wakeAt - startedAt <= Due(attempt) + Round
    BY <2>1 DEF OnSchedule, HttpTypeOK
  <2>3. Unthrottled \in Nat /\ clock <= Unthrottled /\ Unthrottled <= clock + MinInterval
        /\ \A t \in lastRequestAt : Unthrottled - t >= MinInterval  BY UnthrottledIsSoon
  <2>4. HttpTypeOK'  BY <2>1, <2>2, <2>3, HttpAssumption DEF HttpTypeOK
  <2>5. OneLastRequest'  BY <2>1 DEF OneLastRequest
  <2>6. attempt \in Nat  BY HttpAssumption DEF HttpTypeOK
  <2>7. Due(attempt)' = Due(attempt) + Round /\ Due(attempt) \in Nat /\ Round \in Nat
    BY <2>1, <2>6, DueIsLinear DEF Due, Round
  <2>8. OnSchedule'  BY <2>1, <2>2, <2>3, <2>7, HttpAssumption DEF OnSchedule, HttpTypeOK
  <2> QED  BY <2>4, <2>5, <2>8
<1>6. CASE Tick
  <2>1. /\ clock' = clock + 1 /\ lastRequestAt' = lastRequestAt /\ phase' = phase
        /\ method' = method /\ attempt' = attempt /\ startedAt' = startedAt /\ wakeAt' = wakeAt
        /\ phase \in {"throttling", "sleeping"} => clock < wakeAt
        /\ phase = "sent" => \A t \in lastRequestAt : clock < t + Timeout  BY <1>6 DEF Tick
  <2>2. HttpTypeOK'  BY <2>1 DEF HttpTypeOK
  <2>3. OneLastRequest'  BY <2>1 DEF OneLastRequest, HttpTypeOK
  <2>4. Due(attempt)' = Due(attempt) /\ Round' = Round  BY <2>1 DEF Due, Round
  <2>5. OnSchedule'  BY <2>1, <2>4, HttpAssumption DEF OnSchedule, HttpTypeOK
  <2> QED  BY <2>2, <2>3, <2>5
<1>7. CASE UNCHANGED httpVars
  BY <1>7 DEF httpVars, HttpTypeOK, OneLastRequest, OnSchedule, Due, Round
<1> QED  BY <1>1, <1>2, <1>3, <1>4, <1>5, <1>6, <1>7 DEF HttpNext

\* The inductive invariant of the client.
LEMMA HttpInvHolds == HttpSpec => []HttpInv
<1> QED  BY HttpInitInv, HttpInvStep, PTL DEF HttpSpec

\* A call on its schedule is within its bound.
LEMMA BoundedBySchedule == HttpInv => CallTimeBounded
<1> SUFFICES ASSUME HttpInv, phase # "idle" PROVE clock - startedAt <= Budget(MaxRetries)
  BY DEF CallTimeBounded
<1> USE DEF HttpInv
<1>1. attempt \in Nat /\ MaxRetries \in Nat /\ attempt <= MaxRetries
  BY HttpAssumption DEF HttpTypeOK
<1>2. Budget(MaxRetries) = Due(MaxRetries) + MinInterval + Timeout  BY <1>1, BudgetIsDue
<1>3. Due(attempt) <= Due(MaxRetries) /\ Due(attempt) \in Nat /\ Due(MaxRetries) \in Nat
  BY <1>1, DueIsMonotone, DueIsLinear
<1>4. CASE phase = "throttling"
  BY <1>2, <1>3, <1>4, HttpAssumption DEF OnSchedule, HttpTypeOK
<1>5. CASE phase = "sent"
  BY <1>2, <1>3, <1>5, HttpAssumption DEF OnSchedule, HttpTypeOK
<1>6. CASE phase = "sleeping"
  <2>1. attempt + 1 <= MaxRetries /\ attempt + 1 \in Nat
    BY <1>1, <1>6 DEF OnSchedule
  <2>2. Due(attempt) + Round <= Due(MaxRetries)  BY <1>1, <2>1, DueIsLinear, DueIsMonotone
  <2>3. Round \in Nat  BY <1>1, DueIsLinear
  <2> QED  BY <1>2, <1>3, <1>6, <2>2, <2>3, HttpAssumption DEF OnSchedule, HttpTypeOK
<1> QED  BY <1>4, <1>5, <1>6 DEF HttpTypeOK

\* A client on its schedule keeps its requests apart.
LEMMA PacedBySchedule == HttpInv /\ [HttpNext]_httpVars => [Paced]_httpVars
<1> SUFFICES ASSUME HttpInv, HttpNext, lastRequestAt' # lastRequestAt
             PROVE  \A t \in lastRequestAt' : /\ \A s \in lastRequestAt : t - s >= MinInterval
                                              /\ t >= wakeAt
  BY DEF Paced
<1>1. Send  BY DEF HttpNext, Call, Return, Throttled, Retry, Tick
<1>2. phase = "throttling" /\ clock >= wakeAt /\ lastRequestAt' = {clock}  BY <1>1 DEF Send
<1>3. \A s \in lastRequestAt : wakeAt - s >= MinInterval  BY <1>2 DEF HttpInv, OnSchedule
<1> QED  BY <1>2, <1>3, HttpAssumption DEF HttpInv, HttpTypeOK

(* For every interval, timeout, ceiling and number of retries, and whatever a *)
(* server puts into Retry-After, http_client.py keeps its requests apart, sends *)
(* none before its wait is over and is done within the bounded time.           *)
THEOREM ClientIsPolite == HttpSpec => PoliteClient
<1>2. HttpInv /\ [HttpNext]_httpVars => [CallTimeBounded' /\ Paced]_httpVars
  <2> SUFFICES ASSUME HttpInv, [HttpNext]_httpVars PROVE [CallTimeBounded' /\ Paced]_httpVars
    OBVIOUS
  <2>1. HttpInv'  BY HttpInvStep
  <2>2. CallTimeBounded'  BY <2>1, BoundedBySchedule, PTL
  <2> QED  BY <2>2, PacedBySchedule
<1> QED  BY <1>2, HttpInvHolds, PTL DEF HttpSpec, PoliteClient

-----------------------------------------------------------------------------
(* Reference data: the inductive invariant, by parts.                      *)

\* The fields of what a transaction wrote, and of a session.
WorkShape(t) ==
    t = [rows |-> t.rows, provs |-> t.provs, kept |-> t.kept, links |-> t.links,
         registry |-> t.registry]

SessionShape(s) ==
    /\ s = [job |-> s.job, plan |-> s.plan, payload |-> s.payload, todo |-> s.todo,
            reading |-> s.reading, tx |-> s.tx]
    /\ WorkShape(s.tx)

RefShape ==
    /\ programme \in Programmes
    /\ today \in Nat
    /\ payloads \in Seq({payloads[i] : i \in DOMAIN payloads})
    /\ WorkShape(stored)
    /\ ingest = [w \in Ingesters |-> ingest[w]]
    /\ \A w \in Ingesters : SessionShape(ingest[w])

\* What a session has still to ask: everything, the second request of two, or nothing.
PlanFits(s) ==
    \/ s.plan = <<>>
    \/ /\ s.job.name \in JobNames /\ s.job.cik \in Ciks
       /\ s.plan = Job(s.job.name).requests
       /\ s.todo = {} /\ s.reading = {} /\ s.tx = NoWork
    \/ s.job.name = "fact" /\ s.job.cik \in Ciks /\ s.plan = <<"facts">>
    \/ s.job.name = "series" /\ s.plan = <<"observations">>

InHand(s) == s.todo \cup s.reading

\* The rows a session sees when db is committed.
Sees(s, db) == db \cup s.tx.rows

\* What a session holds was published, and it knows the payload it came from; it
\* writes one item at a time.
ReadsPublished(s) ==
    /\ \A x, y \in s.reading : x = y
    /\ \A r \in s.tx.rows : r.item \in Published
    /\ InHand(s) \subseteq Published
    /\ InHand(s) # {} \/ s.plan = <<"observations">> => s.payload \in s.tx.kept
    /\ s.tx.kept \subseteq DOMAIN payloads

IssuerItem(cik) == [kind |-> "issuer", of |-> cik, no |-> 0]

\* An item that belongs to an issuer is taken only once the issuer's row is there.
KnowsIssuer(s, db) ==
    /\ s.job.name \in {"aggregate", "filings", "bonds"} => IssuerRow(db, s.job.cik) # {}
    /\ s.plan = <<"facts">> /\ s.job.name = "fact" =>
          \/ IssuerItem(s.job.cik) \in InHand(s)
          \/ IssuerRow(Sees(s, db), s.job.cik) # {}
    /\ \A x \in InHand(s) : x.kind \in {"filing", "fact", "aggregate"} =>
          x.of = s.job.cik /\ IssuerRow(Sees(s, db), s.job.cik) # {}

\* A row, among rows, says what a payload kept by the work said of its item.
Traced(r, work, db) ==
    /\ r.prov \in work.provs /\ r.prov.item = r.item
    /\ r.prov.payload \in work.kept /\ r.prov.payload \in DOMAIN payloads
    /\ payloads[r.prov.payload].said[r.item] = r.value
    /\ \A p \in r.issuer : \E i \in db : i.item.kind = "issuer" /\ i.prov = p
    /\ r.item.kind \in {"filing", "fact", "aggregate"} =>
          \E i \in db : i.prov \in r.issuer /\ i.item.of = r.item.of

\* An observation as new as x is among the rows, or still in a session's hands.
ShownIn(x, db) == \E r \in db : r.item.kind = "observation" /\ r.item.no >= x.no

ShownBy(x, s, db) ==
    \/ ShownIn(x, Sees(s, db))
    \/ \E y \in InHand(s) : y.kind = "observation" /\ y.no >= x.no

\* Once a session has asked for the observations, its label promises no more.
KeepsPromise(s, db) ==
    /\ \A x \in InHand(s) : x.kind = "series" => s.plan = <<"observations">>
    /\ \A p \in s.tx.registry :
         /\ p \in DOMAIN payloads
         /\ s.plan # <<"observations">> => \A x \in payloads[p].dated : ShownBy(x, s, db)

SessionInv(s, db) ==
    /\ PlanFits(s)
    /\ ReadsPublished(s)
    /\ KnowsIssuer(s, db)
    /\ \A r \in s.tx.rows : Traced(r, s.tx, Sees(s, db))
    /\ KeepsPromise(s, db)

StoreInv ==
    /\ \A r \in stored.rows : r.item \in Published /\ Traced(r, stored, stored.rows)
    /\ \A p \in stored.registry :
          p \in DOMAIN payloads /\ \A x \in payloads[p].dated : ShownIn(x, stored.rows)
    /\ \A i \in DOMAIN payloads : payloads[i].dated \subseteq Dated

RefInv ==
    /\ RefShape
    /\ StoreInv
    /\ \A w \in Ingesters : SessionInv(ingest[w], stored.rows)

-----------------------------------------------------------------------------
(* What only grows.                                                        *)

\* Payloads are appended, and what is published stays published.
Grows ==
    /\ DOMAIN payloads \subseteq DOMAIN payloads'
    /\ \A i \in DOMAIN payloads : payloads'[i] = payloads[i]
    /\ Published \subseteq Published'
    /\ Dated \subseteq Dated'

\* A row stays traced when more is written around it.
LEMMA TracedGrows ==
    ASSUME NEW r, NEW t, NEW db, Traced(r, t, db), Grows,
           NEW u, NEW eb, t.provs \subseteq u.provs, t.kept \subseteq u.kept, db \subseteq eb
    PROVE  Traced(r, u, eb)'
BY DEF Traced, Grows

\* The rows of an issuer are still there among more rows.
LEMMA IssuerStays ==
    ASSUME NEW db, NEW eb, db \subseteq eb, NEW cik, IssuerRow(db, cik) # {}
    PROVE  IssuerRow(eb, cik) # {}
BY DEF IssuerRow, Existing

\* A session that does nothing keeps its invariant while others commit and fetch.
LEMMA SessionWaits ==
    ASSUME NEW s, NEW db, NEW eb, SessionInv(s, db), db \subseteq eb, Grows
    PROVE  SessionInv(s, eb)'
<1>1. Sees(s, db) \subseteq Sees(s, eb)
  BY DEF Sees
<1>2. PlanFits(s)'
  BY DEF SessionInv, PlanFits
<1>3. ReadsPublished(s)'
  BY DEF SessionInv, ReadsPublished, Grows, InHand
<1>4. KnowsIssuer(s, eb)'
  BY <1>1, IssuerStays DEF SessionInv, KnowsIssuer
<1>5. \A r \in s.tx.rows : Traced(r, s.tx, Sees(s, eb))'
  BY <1>1, TracedGrows DEF SessionInv
<1>6. KeepsPromise(s, eb)'
  BY <1>1 DEF SessionInv, KeepsPromise, ShownBy, ShownIn, Grows
<1> QED
  BY <1>2, <1>3, <1>4, <1>5, <1>6 DEF SessionInv

\* A session that rolls back or ends has nothing left to promise.
LEMMA IdleInv == ASSUME NEW db PROVE SessionShape(Idle) /\ SessionInv(Idle, db)
BY DEF Idle, NoWork, SessionShape, WorkShape, SessionInv, PlanFits, ReadsPublished, InHand, Sees,
       KnowsIssuer, KeepsPromise

\* A store that is not written keeps its invariant.
LEMMA StoreWaits ==
    ASSUME StoreInv, Grows, stored' = stored,
           \A i \in DOMAIN payloads' : i \in DOMAIN payloads \/ payloads'[i].dated \subseteq Dated'
    PROVE  StoreInv'
<1>1. \A r \in stored.rows : r.item \in Published' /\ Traced(r, stored, stored.rows)'
  BY TracedGrows DEF StoreInv, Grows
<1>2. \A i \in DOMAIN payloads' : payloads'[i].dated \subseteq Dated'
  BY DEF StoreInv, Grows
<1>3. \A p \in stored.registry :
          p \in DOMAIN payloads' /\ \A x \in payloads'[p].dated : ShownIn(x, stored.rows)
  BY DEF StoreInv, Grows
<1> QED
  BY <1>1, <1>2, <1>3 DEF StoreInv, ShownIn, Traced

-----------------------------------------------------------------------------
(* One step of one session.                                                *)

\* Only session w changes; it becomes s.
Becomes(w, s) ==
    /\ ingest' = [v \in Ingesters |-> ingest'[v]]
    /\ ingest'[w] = s
    /\ \A v \in Ingesters \ {w} : ingest'[v] = ingest[v]

\* A step of one session that writes nothing to the store keeps the invariant if
\* the session keeps its own.
LEMMA OneSessionMoves ==
    ASSUME RefInv, NEW w \in Ingesters, NEW s, Becomes(w, s), SessionShape(s),
           UNCHANGED <<programme, today, payloads, stored>>, SessionInv(s, stored.rows)
    PROVE  RefInv'
<1>1. Grows
  BY DEF Grows, Published, Dated
<1>2. RefShape'
  BY DEF RefInv, RefShape, Becomes, SessionShape, WorkShape
<1>3. StoreInv'
  BY <1>1, StoreWaits DEF RefInv
<1>4. \A v \in Ingesters : SessionInv(ingest[v], stored.rows)'
  <2> SUFFICES ASSUME NEW v \in Ingesters PROVE SessionInv(ingest[v], stored.rows)'
    OBVIOUS
  <2>1. PICK t : t = ingest'[v]
    OBVIOUS
  <2>2. PICK db : db = stored.rows
    OBVIOUS
  <2>3. SessionInv(t, db)
    BY <2>1, <2>2 DEF RefInv, RefShape, Becomes
  <2>4. SessionInv(t, db)'
    BY <1>1, <2>3, SessionWaits
  <2> QED
    BY <2>1, <2>2, <2>4
<1> QED
  BY <1>2, <1>3, <1>4 DEF RefInv

\* An item is of a kind, and its fields are what that kind has.
LEMMA ItemFields ==
    ASSUME NEW x \in AllItems
    PROVE  /\ x.kind \in ItemKinds /\ x \in Items(x.kind)
           /\ x = [kind |-> x.kind, of |-> x.of, no |-> x.no]
           /\ x.kind = "issuer" => x.of \in Ciks /\ x.no = 0
           /\ x.kind \in {"filing", "fact", "aggregate"} => x.of \in Ciks /\ x.no \in Days
           /\ x.kind = "observation" => x.of = "fred" /\ x.no \in Days
<1>1. PICK k \in ItemKinds : x \in Items(k)
  BY DEF AllItems
<1>2. k = "issuer" \/ k = "filing" \/ k = "fact" \/ k = "aggregate" \/ k = "bond" \/ k = "series" \/ k = "observation"
  BY DEF ItemKinds
<1>3. CASE k = "issuer"
  <2>1. x \in [kind : {"issuer"}, of : Ciks, no : {0}]
    BY <1>1, <1>3 DEF Items
  <2> QED
    BY <1>1, <1>3, <2>1
<1>4. CASE k \in {"filing", "fact", "aggregate"}
  <2>1. x \in [kind : {k}, of : Ciks, no : Days]
    BY <1>1, <1>4 DEF Items
  <2> QED
    BY <1>1, <1>4, <2>1
<1>5. CASE k = "bond"
  <2>1. x \in [kind : {"bond"}, of : {"figi"}, no : Figis]
    BY <1>1, <1>5 DEF Items
  <2> QED
    BY <1>1, <1>5, <2>1
<1>6. CASE k = "series"
  <2>1. x \in [kind : {"series"}, of : {"fred"}, no : {0}]
    BY <1>1, <1>6 DEF Items
  <2> QED
    BY <1>1, <1>6, <2>1
<1>7. CASE k = "observation"
  <2>1. x \in [kind : {"observation"}, of : {"fred"}, no : Days]
    BY <1>1, <1>7 DEF Items
  <2> QED
    BY <1>1, <1>7, <2>1
<1> QED
  BY <1>2, <1>3, <1>4, <1>5, <1>6, <1>7

\* The issuer item of a registrant is always published.
LEMMA IssuerPublished == ASSUME NEW cik \in Ciks PROVE IssuerItem(cik) \in Published
<1>1. IssuerItem(cik) \in Items("issuer")
  BY DEF IssuerItem, Items
<1>2. IssuerItem(cik) \in AllItems
  BY <1>1 DEF AllItems, ItemKinds
<1> QED
  BY <1>2, WindowAssumption DEF Published, IssuerItem

\* The days of published items are natural numbers, up to today.
LEMMA PublishedDays ==
    ASSUME NEW x \in Published, x.kind = "observation"
    PROVE  x.no \in Nat /\ x.no <= today /\ x = [kind |-> "observation", of |-> "fred", no |-> x.no]
<1>1. x \in AllItems
  BY DEF Published
<1>2. x.no \in Days /\ x.of = "fred" /\ x = [kind |-> x.kind, of |-> x.of, no |-> x.no]
  BY <1>1, ItemFields
<1> QED
  BY <1>2, WindowAssumption DEF Published

\* What each job asks for, and in which order.
LEMMA JobRequests ==
    /\ Job("identity").requests = <<"submissions">> /\ Job("identity").issuer = "new"
    /\ Job("fact").requests = <<"submissions", "facts">> /\ Job("fact").issuer = "later"
    /\ Job("aggregate").requests = <<"facts">> /\ Job("aggregate").issuer = "known"
    /\ Job("filings").requests = <<"submissions">> /\ Job("filings").issuer = "known"
    /\ Job("bonds").requests = <<"search">> /\ Job("bonds").issuer = "known"
    /\ Job("series").requests = <<"series", "observations">> /\ Job("series").issuer = "later"
BY DEF Job, IdentityJob, FactJob, AggregateJob, FilingsJob, BondsJob, SeriesJob

\* The next request of a session, and what is left after it.
LEMMA NextRequest ==
    ASSUME NEW s, PlanFits(s), s.plan # <<>>
    PROVE  \/ /\ s.job.name \in {"identity", "filings"} /\ Head(s.plan) = "submissions"
              /\ Tail(s.plan) = <<>> /\ s.job.cik \in Ciks
           \/ /\ s.job.name = "fact" /\ Head(s.plan) = "submissions"
              /\ Tail(s.plan) = <<"facts">> /\ s.job.cik \in Ciks /\ s.plan # <<"facts">>
           \/ /\ s.job.name = "fact" /\ Head(s.plan) = "facts" /\ s.plan = <<"facts">>
              /\ Tail(s.plan) = <<>> /\ s.job.cik \in Ciks
           \/ /\ s.job.name = "aggregate" /\ Head(s.plan) = "facts"
              /\ Tail(s.plan) = <<>> /\ s.job.cik \in Ciks
           \/ /\ s.job.name = "bonds" /\ Head(s.plan) = "search" /\ Tail(s.plan) = <<>>
           \/ /\ s.job.name = "series" /\ Head(s.plan) = "series"
              /\ Tail(s.plan) = <<"observations">> /\ s.tx = NoWork
           \/ /\ s.job.name = "series" /\ Head(s.plan) = "observations"
              /\ s.plan = <<"observations">> /\ Tail(s.plan) = <<>>
<1>1. CASE s.job.name = "fact" /\ s.job.cik \in Ciks /\ s.plan = <<"facts">>
  BY <1>1
<1>2. CASE s.job.name = "series" /\ s.plan = <<"observations">>
  BY <1>2
<1>3. CASE /\ s.job.name \in JobNames /\ s.job.cik \in Ciks
           /\ s.plan = Job(s.job.name).requests /\ s.tx = NoWork
  <2>1. /\ s.job.name = "identity" => s.plan = <<"submissions">>
        /\ s.job.name = "fact" => s.plan = <<"submissions", "facts">>
        /\ s.job.name = "aggregate" => s.plan = <<"facts">>
        /\ s.job.name = "filings" => s.plan = <<"submissions">>
        /\ s.job.name = "bonds" => s.plan = <<"search">>
        /\ s.job.name = "series" => s.plan = <<"series", "observations">>
    BY <1>3, JobRequests
  <2>2. s.job.name \in {"identity", "fact", "aggregate", "filings", "bonds", "series"}
    BY <1>3 DEF JobNames
  <2>3. /\ Head(<<"submissions">>) = "submissions" /\ Tail(<<"submissions">>) = <<>>
        /\ Head(<<"facts">>) = "facts" /\ Tail(<<"facts">>) = <<>>
        /\ Head(<<"search">>) = "search" /\ Tail(<<"search">>) = <<>>
    OBVIOUS
  <2>4. /\ Head(<<"submissions", "facts">>) = "submissions"
        /\ Tail(<<"submissions", "facts">>) = <<"facts">>
    OBVIOUS
  <2>5. /\ Head(<<"series", "observations">>) = "series"
        /\ Tail(<<"series", "observations">>) = <<"observations">>
    OBVIOUS
  <2>6. <<"submissions", "facts">> # <<"facts">>
    OBVIOUS
  <2> QED
    BY <1>3, <2>1, <2>2, <2>3, <2>4, <2>5, <2>6
<1> QED
  BY <1>1, <1>2, <1>3 DEF PlanFits

\* One field of a session is set.
LEMMA SetJob ==
    ASSUME NEW s, SessionShape(s), NEW a
    PROVE  [s EXCEPT !.job = a] =
             [job |-> a, plan |-> s.plan, payload |-> s.payload, todo |-> s.todo,
              reading |-> s.reading, tx |-> s.tx]
BY DEF SessionShape

\* The same of a plan.
LEMMA SetPlan ==
    ASSUME NEW s, SessionShape(s), NEW a
    PROVE  [s EXCEPT !.plan = a] =
             [job |-> s.job, plan |-> a, payload |-> s.payload, todo |-> s.todo,
              reading |-> s.reading, tx |-> s.tx]
BY DEF SessionShape

\* The same of a payload.
LEMMA SetPayload ==
    ASSUME NEW s, SessionShape(s), NEW a
    PROVE  [s EXCEPT !.payload = a] =
             [job |-> s.job, plan |-> s.plan, payload |-> a, todo |-> s.todo,
              reading |-> s.reading, tx |-> s.tx]
BY DEF SessionShape

\* The same of what is left to take.
LEMMA SetTodo ==
    ASSUME NEW s, SessionShape(s), NEW a
    PROVE  [s EXCEPT !.todo = a] =
             [job |-> s.job, plan |-> s.plan, payload |-> s.payload, todo |-> a,
              reading |-> s.reading, tx |-> s.tx]
BY DEF SessionShape

\* The same of what is being read.
LEMMA SetReading ==
    ASSUME NEW s, SessionShape(s), NEW a
    PROVE  [s EXCEPT !.reading = a] =
             [job |-> s.job, plan |-> s.plan, payload |-> s.payload, todo |-> s.todo,
              reading |-> a, tx |-> s.tx]
BY DEF SessionShape

\* The same of a transaction.
LEMMA SetTx ==
    ASSUME NEW s, SessionShape(s), NEW a
    PROVE  [s EXCEPT !.tx = a] =
             [job |-> s.job, plan |-> s.plan, payload |-> s.payload, todo |-> s.todo,
              reading |-> s.reading, tx |-> a]
BY DEF SessionShape

\* A session that was idle, with a job and a plan.
LEMMA JobBegun ==
    ASSUME NEW j, NEW p
    PROVE  [[Idle EXCEPT !.job = j] EXCEPT !.plan = p] =
             [job |-> j, plan |-> p, payload |-> 0, todo |-> {}, reading |-> {}, tx |-> NoWork]
<1>1. PICK s : s = [Idle EXCEPT !.job = j]
  OBVIOUS
<1>2. s = [job |-> j, plan |-> <<>>, payload |-> 0, todo |-> {}, reading |-> {}, tx |-> NoWork]
  BY <1>1 DEF Idle
<1>3. SessionShape(s) /\ s.job = j /\ s.payload = 0 /\ s.todo = {} /\ s.reading = {} /\ s.tx = NoWork
  BY <1>2 DEF SessionShape, WorkShape, NoWork
<1>4. [s EXCEPT !.plan = p] =
         [job |-> s.job, plan |-> p, payload |-> s.payload, todo |-> s.todo,
          reading |-> s.reading, tx |-> s.tx]
  BY <1>3, SetPlan
<1>5. [s EXCEPT !.plan = p] =
         [job |-> j, plan |-> p, payload |-> 0, todo |-> {}, reading |-> {}, tx |-> NoWork]
  BY <1>3, <1>4
<1> QED
  BY <1>1, <1>5, Zenon

\* A job begins with everything still to ask.
LEMMA BeginKeeps ==
    ASSUME RefInv, NEW w \in Ingesters, Begin(w) PROVE RefInv'
<1>1. PICK name \in programme, cik \in Ciks, since \in {0} \cup Days :
        /\ ingest[w] = Idle
        /\ Job(name).issuer = "known" => IssuerRow(stored.rows, cik) # {}
        /\ ingest' = [ingest EXCEPT ![w].job = [name |-> name, cik |-> cik, since |-> since],
                                    ![w].plan = Job(name).requests]
        /\ UNCHANGED <<programme, today, payloads, stored>>
  BY DEF Begin
<1>2. name \in JobNames
  BY <1>1, ProgrammesAssumption DEF RefInv, RefShape
<1> DEFINE job == [name |-> name, cik |-> cik, since |-> since]
           s == [job |-> job, plan |-> Job(name).requests, payload |-> 0,
                 todo |-> {}, reading |-> {}, tx |-> NoWork]
<1>3. Becomes(w, s)
  <2>1. ingest = [v \in Ingesters |-> ingest[v]] /\ ingest[w] = Idle
    BY <1>1 DEF RefInv, RefShape
  <2>2. /\ ingest' = [v \in Ingesters |-> ingest'[v]]
        /\ \A v \in Ingesters \ {w} : ingest'[v] = ingest[v]
        /\ ingest'[w] = [[ingest[w] EXCEPT !.job = job] EXCEPT !.plan = Job(name).requests]
    BY <1>1, <2>1
  <2>3. ingest'[w] = s
    BY <2>1, <2>2, JobBegun
  <2> QED
    BY <2>2, <2>3 DEF Becomes
<1>4. SessionShape(s)
  BY DEF SessionShape, WorkShape, NoWork
<1>5. SessionInv(s, stored.rows)
  <2>1. PlanFits(s)
    BY <1>2 DEF PlanFits
  <2>2. s.plan # <<"observations">> /\ InHand(s) = {} /\ s.tx = NoWork /\ s.job = job
    <3>1. s.plan = Job(name).requests
      OBVIOUS
    <3>2. Job(name).requests # <<"observations">>
      BY <1>2, JobRequests DEF JobNames
    <3> QED
      BY <3>1, <3>2 DEF InHand
  <2>3. ReadsPublished(s)
    BY <2>2 DEF ReadsPublished, NoWork
  <2>4. KnowsIssuer(s, stored.rows)
    <3>1. name \in {"aggregate", "filings", "bonds"} => Job(name).issuer = "known"
      BY JobRequests
    <3>2. name = "fact" => Job(name).requests # <<"facts">>
      BY JobRequests
    <3> QED
      BY <1>1, <2>2, <3>1, <3>2 DEF KnowsIssuer
  <2>5. KeepsPromise(s, stored.rows)
    BY <2>2 DEF KeepsPromise, NoWork
  <2> QED
    BY <2>1, <2>2, <2>3, <2>4, <2>5 DEF SessionInv, NoWork
<1> QED
  BY <1>1, <1>3, <1>4, <1>5, OneSessionMoves

-----------------------------------------------------------------------------
(* Numbers and finite sets.                                                *)

\* A set of natural numbers that is not empty has a least member.
LEMMA LeastNatural ==
    ASSUME NEW T, T \subseteq Nat, T # {} PROVE \E m \in T : \A n \in T : m <= n
<1>1. PICK m \in T : \A n \in T : ~(<<n, m>> \in OpToRel(<, Nat))
  BY NatLessThanWellFounded, WFMin
<1>2. \A n \in T : ~(n < m)
  <2> SUFFICES ASSUME NEW n \in T, n < m PROVE FALSE
    OBVIOUS
  <2>1. <<n, m>> \in Nat \X Nat /\ <<n, m>>[1] < <<n, m>>[2]
    OBVIOUS
  <2> QED
    BY <1>1, <2>1 DEF OpToRel
<1> QED
  BY <1>2

\* A bounded one is finite.
LEMMA BoundedIsFinite ==
    ASSUME NEW T, T \subseteq Nat, NEW b \in Nat, \A n \in T : n <= b
    PROVE  IsFiniteSet(T)
<1>1. T \in SUBSET Nat
  OBVIOUS
<1> QED
  BY <1>1, FS_BoundedSetOfNaturals

\* And has a largest member.
LEMMA LargestNatural ==
    ASSUME NEW T, T \subseteq Nat, T # {}, NEW b \in Nat, \A n \in T : n <= b
    PROVE  \E m \in T : \A n \in T : n <= m
<1> DEFINE U == {b - n : n \in T}
<1>1. U \subseteq Nat /\ U # {}
  <2>1. \A n \in T : b - n \in Nat
    OBVIOUS
  <2>2. \E n \in T : b - n \in U
    OBVIOUS
  <2> QED
    BY <2>1, <2>2
<1>2. PICK u \in U : \A v \in U : u <= v
  BY <1>1, LeastNatural
<1>3. PICK m \in T : u = b - m
  BY <1>2
<1>4. \A n \in T : b - m <= b - n
  BY <1>2, <1>3
<1>5. m \in Nat /\ \A n \in T : n \in Nat
  OBVIOUS
<1>6. \A n \in T : n <= m
  BY <1>4, <1>5
<1> QED
  BY <1>6

\* The smaller of two numbers is one of them, and at most either.
LEMMA MinOfTwo ==
    ASSUME NEW a \in Int, NEW b \in Int
    PROVE  Min({a, b}) \in {a, b} /\ Min({a, b}) <= a /\ Min({a, b}) <= b
<1>1. \E x \in {a, b} : \A y \in {a, b} : x <= y
  <2>1. CASE a <= b
    BY <2>1
  <2>2. CASE b <= a
    BY <2>2
  <2> QED
    BY <2>1, <2>2
<1> QED
  BY <1>1 DEF Min

\* A finite set has a subset of every smaller size.
LEMMA SubsetOfSize ==
    ASSUME NEW S, IsFiniteSet(S), NEW k \in Nat, k <= Cardinality(S)
    PROVE  \E T \in SUBSET S : Cardinality(T) = k
<1>1. Cardinality(S) \in Nat
  BY FS_CardinalityType
<1>2. PICK f : f \in Bijection(1..Cardinality(S), S)
  BY FS_NatBijection, FS_CountingElements, FS_CardinalityType DEF ExistsBijection
<1> DEFINE T == {f[i] : i \in 1..k}
           g == [i \in 1..k |-> f[i]]
<1>3. g \in Bijection(1..k, T)
  <2>1. \A i \in 1..k : i \in 1..Cardinality(S)
    BY <1>1
  <2>2. \A i, j \in 1..k : f[i] = f[j] => i = j
    BY <1>2, <2>1 DEF Bijection, Injection, IsInjective
  <2> QED
    BY <2>2, Fun_IsBij
<1>4. T \subseteq S
  BY <1>1, <1>2 DEF Bijection, Injection
<1>5. Cardinality(1..k) = k /\ IsFiniteSet(1..k)
  BY FS_Interval
<1>6. Cardinality(T) = k
  BY <1>3, <1>5, FS_Bijection DEF ExistsBijection
<1> QED
  BY <1>4, <1>6

-----------------------------------------------------------------------------
(* What a job takes out of a response.                                     *)

\* A response speaks of published items of the kinds it reports, and of one issuer.
LEMMA ResponseItems ==
    ASSUME NEW request \in {"submissions", "facts", "search", "series", "observations"}, NEW cik
    PROVE  \A x \in DOMAIN Response(request, cik) :
              /\ x \in Published /\ x.kind \in Reports(request)
              /\ request \in {"submissions", "facts"} => x.of = cik
BY DEF Response

\* The first bonds are bonds of the response.
LEMMA FirstBondsAreBonds ==
    ASSUME NEW said, Reported(said, "bond") \subseteq Published
    PROVE  FirstBonds(said) \subseteq Reported(said, "bond")
<1> DEFINE bonds == Reported(said, "bond")
<1>1. \A x \in bonds : x.kind = "bond" /\ x.no \in Figis /\ x = [kind |-> "bond", of |-> "figi", no |-> x.no]
  <2> SUFFICES ASSUME NEW x \in bonds
               PROVE x.kind = "bond" /\ x.no \in Figis /\ x = [kind |-> "bond", of |-> "figi", no |-> x.no]
    OBVIOUS
  <2>1. x \in AllItems /\ x.kind = "bond"
    BY DEF Published, Reported
  <2>2. x \in Items("bond")
    BY <2>1, ItemFields
  <2>3. x \in [kind : {"bond"}, of : {"figi"}, no : Figis]
    BY <2>2 DEF Items
  <2>4. x.kind = "bond" /\ x.no \in Figis
    BY <2>3
  <2>5. x = [kind |-> x.kind, of |-> x.of, no |-> x.no] /\ x.of = "figi"
    BY <2>3
  <2> QED
    BY <2>4, <2>5
<1> DEFINE f == [x \in bonds |-> x.no]
<1>2. f \in Injection(bonds, Figis)
  <2>1. f \in [bonds -> Figis]
    BY <1>1
  <2>2. \A x, y \in bonds : f[x] = f[y] => x = y
    BY <1>1
  <2> QED
    BY <2>1, <2>2 DEF Injection, IsInjective
<1>3. IsFiniteSet(bonds)
  BY <1>2, FigisAssumption, FS_Injection
<1>4. Cardinality(bonds) \in Nat
  BY <1>3, FS_CardinalityType
<1>5. Min({Window, Cardinality(bonds)}) \in Nat /\ Min({Window, Cardinality(bonds)}) <= Cardinality(bonds)
  <2> DEFINE n == Cardinality(bonds)
  <2>1. Window \in Nat /\ n \in Nat
    BY <1>4, WindowAssumption
  <2> HIDE DEF n
  <2>2. Min({Window, n}) \in {Window, n} /\ Min({Window, n}) <= n
    BY <2>1, MinOfTwo
  <2>3. Min({Window, n}) \in Nat /\ Min({Window, n}) <= n
    BY <2>1, <2>2
  <2> QED
    BY <2>3 DEF n
<1>6. \E s \in SUBSET bonds : Cardinality(s) = Min({Window, Cardinality(bonds)})
  BY <1>3, <1>5, SubsetOfSize
<1> QED
  BY <1>6 DEF FirstBonds

\* The newest observation that is not missing is taken from the response.
LEMMA NewestIsTaken ==
    ASSUME today \in Nat, NEW x \in Dated, NEW cik
    PROVE  \E y \in Observations(Response("observations", cik)) :
              y.kind = "observation" /\ y.no >= x.no
<1> DEFINE said == Response("observations", cik)
           seen == Reported(said, "observation")
<1>1. seen = {y \in Published : y.kind = "observation"}
  BY DEF Reported, Response, Reports
<1>2. \A y \in seen : y.no \in Nat /\ y.no <= today /\ y = [kind |-> "observation", of |-> "fred", no |-> y.no]
  BY <1>1, PublishedDays
<1>3. Dated = {y \in seen : y.no \notin MissingDates}
  BY <1>1 DEF Dated
<1> DEFINE nos == {y.no : y \in Dated}
<1>4. nos \subseteq Nat /\ nos # {} /\ \A n \in nos : n <= today
  BY <1>2, <1>3
<1>5. PICK m \in nos : \A n \in nos : n <= m
  BY <1>4, LargestNatural
<1>6. PICK y \in Dated : y.no = m
  BY <1>5
<1> DEFINE newer == {z \in seen : z.no > y.no}
           f == [z \in newer |-> z.no]
<1>7. \A d \in Days : d <= today => [kind |-> "observation", of |-> "fred", no |-> d] \in seen
  <2> SUFFICES ASSUME NEW d \in Days, d <= today
               PROVE  [kind |-> "observation", of |-> "fred", no |-> d] \in seen
    OBVIOUS
  <2>1. [kind |-> "observation", of |-> "fred", no |-> d] \in Items("observation")
    BY DEF Items
  <2>2. [kind |-> "observation", of |-> "fred", no |-> d] \in AllItems
    BY <2>1 DEF AllItems, ItemKinds
  <2> QED
    BY <1>1, <2>2 DEF Published
<1>8. \A z \in seen : z.no \in Days
  <2> SUFFICES ASSUME NEW z \in seen PROVE z.no \in Days
    OBVIOUS
  <2>1. z \in AllItems /\ z.kind = "observation"
    BY <1>1 DEF Published
  <2> QED
    BY <2>1, ItemFields
<1> DEFINE all == {z.no : z \in seen}
<1>9. PICK e \in all : \A n \in all : n <= e
  <2>1. all \subseteq Nat /\ all # {} /\ \A n \in all : n <= today
    BY <1>2, <1>3
  <2> QED
    BY <2>1, LargestNatural
<1> DEFINE gap == {d \in Days : m < d /\ d <= e}
<1>10. Cardinality(newer) < Window
  <2>1. m \in Days /\ e \in Days /\ m \in Nat /\ e \in Nat /\ e <= today
    BY <1>2, <1>3, <1>6, <1>8, <1>9
  <2>2. gap \subseteq MissingDates
    <3> SUFFICES ASSUME NEW d \in gap, d \notin MissingDates PROVE FALSE
      OBVIOUS
    <3>1. d \in Nat /\ d <= today
      BY <2>1, WindowAssumption
    <3>2. [kind |-> "observation", of |-> "fred", no |-> d] \in Dated
      BY <1>3, <1>7, <3>1
    <3>3. d \in nos
      BY <3>2
    <3> QED
      BY <1>5, <2>1, <3>1, <3>3
  <2>3. Cardinality(gap) < Window
    BY <2>1, <2>2, WindowAssumption
  <2>4. IsFiniteSet(gap)
    <3>1. gap \subseteq Nat /\ \A d \in gap : d <= e
      BY <2>1, WindowAssumption
    <3> HIDE DEF gap
    <3> QED
      BY <2>1, <3>1, BoundedIsFinite
  <2>5. f \in Injection(newer, gap)
    <3>1. f \in [newer -> gap]
      BY <1>6, <1>8, <1>9
    <3>2. \A z, u \in newer : f[z] = f[u] => z = u
      BY <1>2
    <3> QED
      BY <3>1, <3>2 DEF Injection, IsInjective
  <2>6. IsFiniteSet(newer) /\ Cardinality(newer) <= Cardinality(gap)
    BY <2>4, <2>5, FS_Injection
  <2>7. Cardinality(newer) \in Nat /\ Cardinality(gap) \in Nat /\ Window \in Nat
    BY <2>4, <2>6, FS_CardinalityType, WindowAssumption
  <2> QED
    BY <2>3, <2>6, <2>7
<1>11. y \in Newest(seen, Window)
  BY <1>3, <1>10 DEF Newest
<1>12. y \in Observations(said)
  BY <1>3, <1>11 DEF Observations
<1>13. y.kind = "observation" /\ x.no \in nos /\ x.no \in Nat /\ y.no \in Nat
  BY <1>2, <1>3
<1> QED
  BY <1>5, <1>6, <1>12, <1>13

\* What a session takes from the response to its next request.
LEMMA WantedItems ==
    ASSUME NEW job, NEW request \in {"submissions", "facts", "search", "series", "observations"}
    PROVE  LET wanted == Wanted(job, request, Response(request, job.cik))
           IN /\ wanted \subseteq Published
              /\ request \in {"submissions", "facts"} => \A x \in wanted : x.of = job.cik
              /\ \A x \in wanted :
                   /\ request = "submissions" =>
                        x.kind = IF job.name = "filings" THEN "filing" ELSE "issuer"
                   /\ request = "facts" => x.kind = job.name
                   /\ request = "search" => x.kind = "bond"
                   /\ request = "series" => x.kind = "series"
                   /\ request = "observations" => x.kind = "observation"
<1> DEFINE said == Response(request, job.cik)
           wanted == Wanted(job, request, said)
<1>1. \A x \in DOMAIN said : x \in Published /\ (request \in {"submissions", "facts"} => x.of = job.cik)
  BY ResponseItems
<1>2. CASE request = "submissions"
  BY <1>1, <1>2 DEF Wanted, FilingsSince, Reported
<1>3. CASE request = "facts"
  BY <1>1, <1>3 DEF Wanted, Datapoint, Newest, Reported
<1>4. CASE request = "search"
  <2>1. Reported(said, "bond") \subseteq Published
    BY <1>1 DEF Reported
  <2>2. wanted \subseteq Reported(said, "bond")
    BY <1>4, <2>1, FirstBondsAreBonds DEF Wanted
  <2> QED
    BY <1>1, <1>4, <2>2 DEF Reported
<1>5. CASE request = "series"
  BY <1>1, <1>5 DEF Wanted, Reported
<1>6. CASE request = "observations"
  BY <1>1, <1>6 DEF Wanted, Observations, Newest, Reported
<1> QED
  BY <1>2, <1>3, <1>4, <1>5, <1>6

-----------------------------------------------------------------------------
(* The steps of a job.                                                     *)

\* A payload is appended: the old ones stay where they are.
LEMMA AppendPayload ==
    ASSUME NEW p, payloads \in Seq({payloads[i] : i \in DOMAIN payloads}),
           payloads' = Append(payloads, p)
    PROVE  /\ payloads' \in Seq({payloads'[i] : i \in DOMAIN payloads'})
           /\ Len(payloads) + 1 \in DOMAIN payloads'
           /\ payloads'[Len(payloads) + 1] = p
           /\ DOMAIN payloads \subseteq DOMAIN payloads'
           /\ \A i \in DOMAIN payloads : payloads'[i] = payloads[i]
           /\ \A i \in DOMAIN payloads' : i \in DOMAIN payloads \/ i = Len(payloads) + 1
<1> DEFINE S == {payloads[i] : i \in DOMAIN payloads} \cup {p}
           n == Len(payloads)
<1>1. payloads \in Seq(S) /\ p \in S /\ n \in Nat
  OBVIOUS
<1>2. /\ payloads' \in Seq(S) /\ Len(payloads') = n + 1 /\ payloads'[n + 1] = p
      /\ \A i \in 1..n : payloads'[i] = payloads[i]
  BY <1>1
<1>3. DOMAIN payloads = 1..n /\ DOMAIN payloads' = 1..(n + 1)
  BY <1>1, <1>2
<1>4. payloads' \in Seq({payloads'[i] : i \in DOMAIN payloads'})
  BY <1>2, <1>3
<1>5. \A i \in 1..(n + 1) : i \in 1..n \/ i = n + 1
  BY <1>1
<1> QED
  BY <1>1, <1>2, <1>3, <1>4, <1>5

\* A session after a fetch.
AfterFetch(s, id, wanted) ==
    [job |-> s.job, plan |-> Tail(s.plan), payload |-> id, todo |-> wanted, reading |-> s.reading,
     tx |-> [rows |-> s.tx.rows, provs |-> s.tx.provs, kept |-> s.tx.kept \cup {id},
             links |-> s.tx.links, registry |-> s.tx.registry]]

\* The four updates of a fetch, field by field.
LEMMA FetchedFields ==
    ASSUME NEW s, SessionShape(s), NEW id, NEW wanted
    PROVE  [[[[s EXCEPT !.plan = Tail(s.plan)] EXCEPT !.payload = id] EXCEPT !.todo = wanted]
              EXCEPT !.tx = [s.tx EXCEPT !.kept = s.tx.kept \cup {id}]] = AfterFetch(s, id, wanted)
<1>1. PICK a : a = [s EXCEPT !.plan = Tail(s.plan)]
  OBVIOUS
<1>2. /\ a = [job |-> s.job, plan |-> Tail(s.plan), payload |-> s.payload, todo |-> s.todo,
              reading |-> s.reading, tx |-> s.tx]
      /\ SessionShape(a)
  BY <1>1, SetPlan DEF SessionShape
<1>3. PICK b : b = [a EXCEPT !.payload = id]
  OBVIOUS
<1>4. /\ b = [job |-> s.job, plan |-> Tail(s.plan), payload |-> id, todo |-> s.todo,
              reading |-> s.reading, tx |-> s.tx]
      /\ SessionShape(b)
  BY <1>2, <1>3, SetPayload DEF SessionShape
<1>5. PICK c : c = [b EXCEPT !.todo = wanted]
  OBVIOUS
<1>6. /\ c = [job |-> s.job, plan |-> Tail(s.plan), payload |-> id, todo |-> wanted,
              reading |-> s.reading, tx |-> s.tx]
      /\ SessionShape(c)
  BY <1>4, <1>5, SetTodo DEF SessionShape
<1>7. PICK t : t = [s.tx EXCEPT !.kept = s.tx.kept \cup {id}]
  OBVIOUS
<1>8. t = [rows |-> s.tx.rows, provs |-> s.tx.provs, kept |-> s.tx.kept \cup {id},
           links |-> s.tx.links, registry |-> s.tx.registry]
  BY <1>7 DEF SessionShape, WorkShape
<1>9. [c EXCEPT !.tx = t] = AfterFetch(s, id, wanted)
  <2>1. [c EXCEPT !.tx = t] =
           [job |-> c.job, plan |-> c.plan, payload |-> c.payload, todo |-> c.todo,
            reading |-> c.reading, tx |-> t]
    BY <1>6, SetTx
  <2>2. /\ c.job = s.job /\ c.plan = Tail(s.plan) /\ c.payload = id /\ c.todo = wanted
        /\ c.reading = s.reading
    BY <1>6
  <2> QED
    BY <1>8, <2>1, <2>2, Zenon DEF AfterFetch
<1> QED
  BY <1>1, <1>3, <1>5, <1>7, <1>9, Zenon

\* What a fetch brings a session keeps its invariant.
LEMMA FetchedInv ==
    ASSUME RefInv, NEW w \in Ingesters, NEW s, s = ingest[w], NEW db, db = stored.rows,
           s.plan # <<>>, s.todo = {}, s.reading = {},
           NEW request, request = Head(s.plan), NEW said, said = Response(request, s.job.cik),
           NEW wanted, wanted = Wanted(s.job, request, said),
           NEW id, id = Len(payloads) + 1,
           payloads' = Append(payloads, RawPayload(said)), UNCHANGED <<today, stored>>
    PROVE  SessionInv(AfterFetch(s, id, wanted), db)'
<1>1. PICK t : t = AfterFetch(s, id, wanted)
  OBVIOUS
<1>2. /\ t.job = s.job /\ t.plan = Tail(s.plan) /\ t.payload = id /\ t.todo = wanted
      /\ t.reading = {} /\ t.tx.rows = s.tx.rows /\ t.tx.provs = s.tx.provs
      /\ t.tx.kept = s.tx.kept \cup {id} /\ t.tx.registry = s.tx.registry
      /\ InHand(t) = wanted /\ Sees(t, db) = Sees(s, db) /\ InHand(s) = {}
  BY <1>1 DEF AfterFetch, InHand, Sees
<1>3. SessionInv(s, db) /\ PlanFits(s)
  BY DEF RefInv, SessionInv
<1>4. /\ id \in DOMAIN payloads' /\ DOMAIN payloads \subseteq DOMAIN payloads'
      /\ \A i \in DOMAIN payloads : payloads'[i] = payloads[i]
      /\ Published' = Published /\ Dated' = Dated /\ Grows
  BY AppendPayload DEF RefInv, RefShape, Grows, Published, Dated
<1>5. request \in {"submissions", "facts", "search", "series", "observations"}
  BY <1>3, NextRequest
<1>6. /\ wanted \subseteq Published
      /\ request \in {"submissions", "facts"} => \A x \in wanted : x.of = s.job.cik
      /\ \A x \in wanted :
           /\ request = "submissions" => x.kind = IF s.job.name = "filings" THEN "filing" ELSE "issuer"
           /\ request = "facts" => x.kind = s.job.name
           /\ request = "search" => x.kind = "bond"
           /\ request = "series" => x.kind = "series"
           /\ request = "observations" => x.kind = "observation"
  BY <1>5, WantedItems
<1>7. PlanFits(t)'
  BY <1>2, <1>3, NextRequest DEF PlanFits
<1>8. ReadsPublished(t)'
  <2>1. ReadsPublished(s)
    BY <1>3 DEF SessionInv
  <2> QED
    BY <1>2, <1>4, <1>6, <2>1 DEF ReadsPublished
<1>9. KnowsIssuer(t, db)
  <2>1. KnowsIssuer(s, db)
    BY <1>3 DEF SessionInv
  <2>2. t.plan = <<"facts">> /\ t.job.name = "fact" => IssuerItem(s.job.cik) \in wanted
    <3> SUFFICES ASSUME t.plan = <<"facts">>, t.job.name = "fact"
                 PROVE  IssuerItem(s.job.cik) \in wanted
      OBVIOUS
    <3>1. request = "submissions" /\ s.job.cik \in Ciks
      BY <1>2, <1>3, NextRequest
    <3>2. IssuerItem(s.job.cik) \in Published
      BY <3>1, IssuerPublished
    <3>3. IssuerItem(s.job.cik) \in DOMAIN said
      BY <3>1, <3>2 DEF Response, Reports, IssuerItem
    <3> QED
      BY <1>2, <3>1, <3>3 DEF Wanted, Reported, IssuerItem
  <2>3. \A x \in wanted : x.kind \in {"filing", "fact", "aggregate"} =>
            x.of = s.job.cik /\ IssuerRow(Sees(s, db), s.job.cik) # {}
    <3> SUFFICES ASSUME NEW x \in wanted, x.kind \in {"filing", "fact", "aggregate"}
                 PROVE  x.of = s.job.cik /\ IssuerRow(Sees(s, db), s.job.cik) # {}
      OBVIOUS
    <3>1. request \in {"submissions", "facts"} /\ (request = "submissions" => s.job.name = "filings")
      BY <1>5, <1>6
    <3>2. s.job.name \in {"aggregate", "filings"} \/ (s.job.name = "fact" /\ s.plan = <<"facts">>)
      BY <1>3, <3>1, NextRequest
    <3>3. IssuerRow(db, s.job.cik) # {} \/ IssuerRow(Sees(s, db), s.job.cik) # {}
      BY <1>2, <2>1, <3>2 DEF KnowsIssuer
    <3>4. db \subseteq Sees(s, db)
      BY DEF Sees
    <3> QED
      BY <1>6, <3>1, <3>3, <3>4, IssuerStays
  <2> QED
    BY <1>2, <2>1, <2>2, <2>3 DEF KnowsIssuer
<1>10. \A r \in t.tx.rows : Traced(r, t.tx, Sees(t, db))'
  <2> SUFFICES ASSUME NEW r \in t.tx.rows PROVE Traced(r, t.tx, Sees(t, db))'
    OBVIOUS
  <2>1. Traced(r, s.tx, Sees(s, db))
    BY <1>2, <1>3 DEF SessionInv
  <2> QED
    BY <1>2, <1>4, <2>1, TracedGrows
<1>11. KeepsPromise(t, db)'
  <2>1. KeepsPromise(s, db)
    BY <1>3 DEF SessionInv
  <2>2. \A x \in InHand(t) : x.kind = "series" => t.plan = <<"observations">>
    <3> SUFFICES ASSUME NEW x \in wanted, x.kind = "series" PROVE t.plan = <<"observations">>
      BY <1>2
    <3>1. request = "series"
      <4>1. request # "facts" \/ s.job.name = "fact" \/ s.job.name = "aggregate"
        BY <1>3, NextRequest
      <4> QED
        BY <1>5, <1>6, <4>1
    <3> QED
      BY <1>2, <1>3, <3>1, NextRequest
  <2>3. ASSUME NEW p \in t.tx.registry, t.plan # <<"observations">>, NEW x \in payloads[p].dated
        PROVE  ShownBy(x, t, db)
    <3>1. p \in DOMAIN payloads
      BY <1>2, <2>1, <2>3 DEF KeepsPromise
    <3>2. CASE request = "observations"
      <4>1. x \in Dated
        BY <3>1, <2>3 DEF RefInv, StoreInv
      <4>2. today \in Nat
        BY DEF RefInv, RefShape
      <4>3. PICK y \in Observations(Response("observations", s.job.cik)) :
               y.kind = "observation" /\ y.no >= x.no
        BY <4>1, <4>2, NewestIsTaken
      <4>4. y \in wanted
        BY <3>2, <4>3 DEF Wanted
      <4> QED
        BY <1>2, <4>3, <4>4 DEF ShownBy
    <3>3. CASE request # "observations"
      <4>1. s.plan # <<"observations">>
        BY <3>3
      <4>2. ShownBy(x, s, db)
        BY <1>2, <2>1, <2>3, <4>1 DEF KeepsPromise
      <4> QED
        BY <1>2, <4>2 DEF ShownBy
    <3> QED
      BY <3>2, <3>3
  <2>4. \A p \in t.tx.registry : p \in DOMAIN payloads
    BY <1>2, <2>1 DEF KeepsPromise
  <2> QED
    BY <1>4, <2>2, <2>3, <2>4 DEF KeepsPromise, ShownBy, ShownIn
<1>12. SessionInv(t, db)'
  BY <1>7, <1>8, <1>9, <1>10, <1>11 DEF SessionInv, KnowsIssuer
<1> QED
  BY <1>1, <1>12

\* A fetch, which a response without a usable datapoint ends.
LEMMA FetchKeeps ==
    ASSUME RefInv, NEW w \in Ingesters, Fetch(w) PROVE RefInv'
<1>1. PICK s : s = ingest[w]
  OBVIOUS
<1>2. PICK request : request = Head(s.plan)
  OBVIOUS
<1>3. PICK said : said = Response(request, s.job.cik)
  OBVIOUS
<1>4. PICK wanted : wanted = Wanted(s.job, request, said)
  OBVIOUS
<1>5. PICK id : id = Len(payloads) + 1
  OBVIOUS
<1>6. PICK db : db = stored.rows
  OBVIOUS
<1>7. /\ s.plan # <<>> /\ s.todo = {} /\ s.reading = {}
      /\ payloads' = Append(payloads, RawPayload(said))
      /\ ingest' = IF request = "facts" /\ wanted = {}
                   THEN [ingest EXCEPT ![w] = Idle]
                   ELSE [ingest EXCEPT ![w].plan = Tail(@), ![w].payload = id,
                                       ![w].todo = wanted, ![w].tx.kept = @ \cup {id}]
      /\ UNCHANGED <<programme, today, stored>>
  BY <1>1, <1>2, <1>3, <1>4, <1>5 DEF Fetch
<1>8. SessionShape(s) /\ ingest = [v \in Ingesters |-> ingest[v]]
  BY <1>1 DEF RefInv, RefShape
<1>9. /\ payloads' \in Seq({payloads'[i] : i \in DOMAIN payloads'})
      /\ id \in DOMAIN payloads' /\ payloads'[id] = RawPayload(said)
      /\ \A i \in DOMAIN payloads' : i \in DOMAIN payloads \/ i = id
      /\ Grows
  BY <1>5, <1>7, AppendPayload DEF RefInv, RefShape, Grows, Published, Dated
<1>10. PICK t : Becomes(w, t) /\ SessionShape(t) /\ SessionInv(t, db)'
  <2>1. CASE request = "facts" /\ wanted = {}
    <3>1. Becomes(w, Idle)
      BY <1>7, <1>8, <2>1 DEF Becomes
    <3>2. SessionInv(Idle, db) /\ SessionShape(Idle)
      BY IdleInv
    <3>3. SessionInv(Idle, db)'
      BY <1>9, <3>2, SessionWaits
    <3> QED
      BY <3>1, <3>2, <3>3
  <2>2. CASE ~(request = "facts" /\ wanted = {})
    <3>1. /\ ingest' = [v \in Ingesters |-> ingest'[v]]
          /\ \A v \in Ingesters \ {w} : ingest'[v] = ingest[v]
          /\ ingest'[w] = [[[[s EXCEPT !.plan = Tail(s.plan)] EXCEPT !.payload = id] EXCEPT !.todo = wanted]
                             EXCEPT !.tx = [s.tx EXCEPT !.kept = s.tx.kept \cup {id}]]
      BY <1>1, <1>7, <1>8, <2>2
    <3>2. ingest'[w] = AfterFetch(s, id, wanted)
      <4>1. [[[[s EXCEPT !.plan = Tail(s.plan)] EXCEPT !.payload = id] EXCEPT !.todo = wanted]
               EXCEPT !.tx = [s.tx EXCEPT !.kept = s.tx.kept \cup {id}]] = AfterFetch(s, id, wanted)
        BY <1>8, FetchedFields
      <4> QED
        BY <3>1, <4>1, Zenon
    <3>3. Becomes(w, AfterFetch(s, id, wanted))
      BY <3>1, <3>2 DEF Becomes
    <3>4. SessionInv(AfterFetch(s, id, wanted), db)'
      BY <1>1, <1>2, <1>3, <1>4, <1>5, <1>6, <1>7, FetchedInv
    <3>5. SessionShape(AfterFetch(s, id, wanted))
      BY DEF SessionShape, WorkShape, AfterFetch
    <3> QED
      BY <3>3, <3>4, <3>5
  <2> QED
    BY <2>1, <2>2
<1>11. RefShape'
  BY <1>7, <1>9, <1>10 DEF RefInv, RefShape, Becomes, SessionShape, WorkShape
<1>12. StoreInv'
  <2>1. \A i \in DOMAIN payloads' : i \in DOMAIN payloads \/ payloads'[i].dated \subseteq Dated'
    BY <1>7, <1>9 DEF RawPayload, Grows
  <2> QED
    BY <1>7, <1>9, <2>1, StoreWaits DEF RefInv
<1>13. \A v \in Ingesters : SessionInv(ingest[v], stored.rows)'
  <2> SUFFICES ASSUME NEW v \in Ingesters PROVE SessionInv(ingest[v], stored.rows)'
    OBVIOUS
  <2>1. PICK u : u = ingest'[v]
    OBVIOUS
  <2>2. SessionInv(u, db)'
    <3>1. CASE v = w
      BY <1>10, <2>1, <3>1 DEF Becomes
    <3>2. CASE v # w
      <4>1. u = ingest[v]
        BY <1>10, <2>1, <3>2 DEF Becomes
      <4>2. SessionInv(u, db)
        BY <1>6, <4>1 DEF RefInv
      <4> QED
        BY <1>9, <4>2, SessionWaits
    <3> QED
      BY <3>1, <3>2
  <2> QED
    BY <1>6, <1>7, <2>1, <2>2
<1> QED
  BY <1>11, <1>12, <1>13 DEF RefInv

\* The next item taken from a response is one of its items.
LEMMA FirstIsOne ==
    ASSUME NEW todo, todo # {}, todo \subseteq Published, today \in Nat
    PROVE  First(todo) \in todo
<1>1. \E x \in todo : x.no \in Days => \A y \in todo : y.no <= x.no
  <2>1. CASE \A x \in todo : x.no \in Days
    <3> DEFINE nos == {x.no : x \in todo}
    <3>1. nos \subseteq Nat /\ nos # {} /\ \A n \in nos : n <= today
      BY <2>1, WindowAssumption DEF Published
    <3>2. PICK m \in nos : \A n \in nos : n <= m
      BY <3>1, LargestNatural
    <3>3. PICK x \in todo : x.no = m
      BY <3>2
    <3>4. \A y \in todo : y.no \in nos
      OBVIOUS
    <3> QED
      BY <3>2, <3>3, <3>4
  <2>2. CASE ~(\A x \in todo : x.no \in Days)
    BY <2>2
  <2> QED
    BY <2>1, <2>2
<1> QED
  BY <1>1 DEF First

\* A series is refreshed: its new label is that of the payload in hand, and the
\* observations are still to be asked for.
LEMMA SeriesInv ==
    ASSUME NEW s, NEW db, SessionInv(s, db), NEW x \in s.todo, x.kind = "series",
           NEW t, t.job = s.job, t.plan = s.plan, t.payload = s.payload,
           t.todo = s.todo \ {x}, t.reading = s.reading, t.tx.rows = s.tx.rows,
           t.tx.provs = s.tx.provs, t.tx.kept = s.tx.kept, t.tx.registry = {s.payload}
    PROVE  SessionInv(t, db)
<1>1. InHand(t) \subseteq InHand(s) /\ x \in InHand(s) /\ Sees(t, db) = Sees(s, db)
  BY DEF InHand, Sees
<1>2. PlanFits(t)
  BY DEF SessionInv, PlanFits
<1>3. ReadsPublished(t)
  BY <1>1 DEF SessionInv, ReadsPublished
<1>4. KnowsIssuer(t, db)
  <2>1. KnowsIssuer(s, db) /\ IssuerItem(t.job.cik) # x
    BY DEF SessionInv, IssuerItem
  <2>2. IssuerItem(t.job.cik) \in InHand(s) => IssuerItem(t.job.cik) \in InHand(t)
    BY <2>1 DEF InHand
  <2> QED
    BY <1>1, <2>1, <2>2 DEF KnowsIssuer
<1>5. \A r \in t.tx.rows : Traced(r, t.tx, Sees(t, db))
  BY <1>1 DEF SessionInv, Traced
<1>6. KeepsPromise(t, db)
  <2>1. t.plan = <<"observations">> /\ s.payload \in DOMAIN payloads
    BY <1>1 DEF SessionInv, KeepsPromise, ReadsPublished
  <2> QED
    BY <1>1, <2>1 DEF SessionInv, KeepsPromise
<1> QED
  BY <1>2, <1>3, <1>4, <1>5, <1>6 DEF SessionInv

\* An item is looked up: it is there, or it is what the session writes next.
LEMMA LookInv ==
    ASSUME NEW s, NEW db, SessionInv(s, db), NEW x \in s.todo, s.reading = {},
           NEW t, t.job = s.job, t.plan = s.plan, t.payload = s.payload,
           t.todo = s.todo \ {x}, t.tx.rows = s.tx.rows, s.tx.provs \subseteq t.tx.provs,
           t.tx.kept = s.tx.kept, t.tx.registry = s.tx.registry,
           \/ t.reading = {x}
           \/ t.reading = {} /\ Existing(Sees(s, db), x) # {}
    PROVE  SessionInv(t, db)
<1>1. InHand(t) \subseteq InHand(s) /\ x \in InHand(s) /\ Sees(t, db) = Sees(s, db)
  BY DEF InHand, Sees
<1>2. \A y \in InHand(s) : y \in InHand(t) \/ (y = x /\ Existing(Sees(s, db), x) # {})
  BY DEF InHand
<1>3. PlanFits(t)
  BY DEF SessionInv, PlanFits
<1>4. ReadsPublished(t)
  BY <1>1 DEF SessionInv, ReadsPublished
<1>5. KnowsIssuer(t, db)
  <2>1. KnowsIssuer(s, db)
    BY DEF SessionInv
  <2>2. IssuerItem(t.job.cik) \in InHand(s) =>
           IssuerItem(t.job.cik) \in InHand(t) \/ IssuerRow(Sees(t, db), t.job.cik) # {}
    BY <1>1, <1>2 DEF IssuerItem, IssuerRow
  <2> QED
    BY <1>1, <2>1, <2>2 DEF KnowsIssuer
<1>6. \A r \in t.tx.rows : Traced(r, t.tx, Sees(t, db))
  BY <1>1 DEF SessionInv, Traced
<1>7. KeepsPromise(t, db)
  <2>1. ASSUME NEW z, ShownBy(z, s, db) PROVE ShownBy(z, t, db)
    <3>1. CASE ShownIn(z, Sees(s, db))
      BY <1>1, <3>1 DEF ShownBy
    <3>2. CASE \E y \in InHand(s) : y.kind = "observation" /\ y.no >= z.no
      <4>1. PICK y \in InHand(s) : y.kind = "observation" /\ y.no >= z.no
        BY <3>2
      <4>2. CASE y \in InHand(t)
        BY <4>1, <4>2 DEF ShownBy
      <4>3. CASE y = x /\ Existing(Sees(s, db), x) # {}
        <5>1. PICK r \in Existing(Sees(s, db), x) : TRUE
          BY <4>3
        <5>2. r \in Sees(s, db) /\ r.item = y
          BY <4>1, <4>3, <5>1 DEF Existing
        <5> QED
          BY <1>1, <4>1, <5>2 DEF ShownBy, ShownIn
      <4> QED
        BY <1>2, <4>1, <4>2, <4>3
    <3> QED
      BY <2>1, <3>1, <3>2 DEF ShownBy
  <2> QED
    BY <1>1, <2>1 DEF SessionInv, KeepsPromise
<1> QED
  BY <1>3, <1>4, <1>5, <1>6, <1>7 DEF SessionInv

\* The audit of an item adds to the provenance of the transaction, and to nothing
\* else but the links of its payloads.
LEMMA AuditAdds ==
    ASSUME RefInv, NEW w \in Ingesters, NEW x
    PROVE  /\ WorkShape(Audit(w, x))
           /\ Audit(w, x).rows = ingest[w].tx.rows /\ Audit(w, x).kept = ingest[w].tx.kept
           /\ Audit(w, x).registry = ingest[w].tx.registry
           /\ ingest[w].tx.provs \subseteq Audit(w, x).provs
<1>1. PICK t : t = ingest[w].tx
  OBVIOUS
<1>2. PICK p : p = Provenance(w, x)
  OBVIOUS
<1>3. PICK l : l = LinkProvenance(t.links, p)
  OBVIOUS
<1>4. WorkShape(t)
  BY <1>1 DEF RefInv, RefShape, SessionShape
<1>5. PICK a : a = [t EXCEPT !.provs = t.provs \cup {p}]
  OBVIOUS
<1>6. a = [rows |-> t.rows, provs |-> t.provs \cup {p}, kept |-> t.kept, links |-> t.links,
           registry |-> t.registry]
  BY <1>4, <1>5 DEF WorkShape
<1>7. [a EXCEPT !.links = l] =
         [rows |-> t.rows, provs |-> t.provs \cup {p}, kept |-> t.kept, links |-> l,
          registry |-> t.registry]
  BY <1>6
<1>8. Audit(w, x) = t \/ Audit(w, x) = [a EXCEPT !.links = l]
  <2>1. Audit(w, x) = t \/ Audit(w, x) = [[t EXCEPT !.provs = t.provs \cup {p}] EXCEPT !.links = l]
    BY <1>1, <1>2, <1>3, <1>4 DEF Audit
  <2> QED
    BY <1>5, <2>1, Zenon
<1>9. CASE Audit(w, x) = t
  BY <1>1, <1>4, <1>9
<1>10. CASE Audit(w, x) = [a EXCEPT !.links = l]
  BY <1>1, <1>7, <1>10 DEF WorkShape
<1> QED
  BY <1>8, <1>9, <1>10

\* The next item of a response is taken.
LEMMA TakeKeeps ==
    ASSUME RefInv, NEW w \in Ingesters, Take(w) PROVE RefInv'
<1>1. PICK s : s = ingest[w]
  OBVIOUS
<1>2. PICK db : db = stored.rows
  OBVIOUS
<1>3. PICK x : x = First(s.todo)
  OBVIOUS
<1>4. /\ s.reading = {} /\ s.todo # {} /\ (UpsertSeries(w, x) \/ Look(w, x))
      /\ UNCHANGED <<programme, today, payloads, stored>>
  BY <1>1, <1>3 DEF Take
<1>5. SessionShape(s) /\ SessionInv(s, db) /\ ingest = [v \in Ingesters |-> ingest[v]]
  BY <1>1, <1>2 DEF RefInv, RefShape
<1>6. x \in s.todo
  <2>1. s.todo \subseteq Published
    BY <1>5 DEF SessionInv, ReadsPublished, InHand
  <2> QED
    BY <1>3, <1>4, <2>1, FirstIsOne DEF RefInv, RefShape
<1>7. CASE UpsertSeries(w, x)
  <2>1. PICK r : r = [s.tx EXCEPT !.registry = {s.payload}]
    OBVIOUS
  <2>2. PICK a : a = [s EXCEPT !.todo = s.todo \ {x}]
    OBVIOUS
  <2>3. /\ ingest' = [v \in Ingesters |-> ingest'[v]]
        /\ \A v \in Ingesters \ {w} : ingest'[v] = ingest[v]
        /\ ingest'[w] = [[s EXCEPT !.todo = s.todo \ {x}]
                           EXCEPT !.tx = [s.tx EXCEPT !.registry = {s.payload}]]
    BY <1>1, <1>5, <1>7 DEF UpsertSeries
  <2>4. a = [job |-> s.job, plan |-> s.plan, payload |-> s.payload, todo |-> s.todo \ {x},
             reading |-> s.reading, tx |-> s.tx]
    BY <1>5, <2>2, SetTodo
  <2>5. r = [rows |-> s.tx.rows, provs |-> s.tx.provs, kept |-> s.tx.kept, links |-> s.tx.links,
             registry |-> {s.payload}]
    BY <1>5, <2>1 DEF SessionShape, WorkShape
  <2>6. ingest'[w] = [a EXCEPT !.tx = r]
    BY <2>1, <2>2, <2>3, Zenon
  <2>7. PICK t : t = ingest'[w]
    OBVIOUS
  <2>8. t = [job |-> s.job, plan |-> s.plan, payload |-> s.payload, todo |-> s.todo \ {x},
             reading |-> s.reading, tx |-> r]
    BY <2>4, <2>6, <2>7
  <2>9. SessionShape(t) /\ Becomes(w, t)
    <3>1. WorkShape(r)
      BY <2>5 DEF WorkShape
    <3>2. SessionShape(t)
      BY <2>8, <3>1 DEF SessionShape
    <3> QED
      BY <2>3, <2>7, <3>2 DEF Becomes
  <2>10. SessionInv(t, db)
    BY <1>5, <1>6, <1>7, <2>5, <2>8, SeriesInv DEF UpsertSeries
  <2> QED
    BY <1>2, <1>4, <2>9, <2>10, OneSessionMoves
<1>8. CASE Look(w, x)
  <2>1. PICK r : r = Audit(w, x)
    OBVIOUS
  <2>2. PICK a : a = [s EXCEPT !.todo = s.todo \ {x}]
    OBVIOUS
  <2>3. PICK z : /\ z = {x} \/ (z = {} /\ Existing(Sees(s, db), x) # {})
                 /\ ingest' = [ingest EXCEPT ![w].todo = @ \ {x}, ![w].tx = r, ![w].reading = z]
    BY <1>1, <1>2, <1>8, <2>1 DEF Look, Visible, Sees
  <2>4. /\ ingest' = [v \in Ingesters |-> ingest'[v]]
        /\ \A v \in Ingesters \ {w} : ingest'[v] = ingest[v]
        /\ ingest'[w] = [[[s EXCEPT !.todo = s.todo \ {x}] EXCEPT !.tx = r] EXCEPT !.reading = z]
    BY <1>1, <1>5, <2>3
  <2>5. a = [job |-> s.job, plan |-> s.plan, payload |-> s.payload, todo |-> s.todo \ {x},
             reading |-> s.reading, tx |-> s.tx]
    BY <1>5, <2>2, SetTodo
  <2>6. PICK b : b = [a EXCEPT !.tx = r]
    OBVIOUS
  <2>7. b = [job |-> s.job, plan |-> s.plan, payload |-> s.payload, todo |-> s.todo \ {x},
             reading |-> s.reading, tx |-> r]
    BY <2>5, <2>6
  <2>8. ingest'[w] = [b EXCEPT !.reading = z]
    BY <2>2, <2>4, <2>6, Zenon
  <2>9. PICK t : t = ingest'[w]
    OBVIOUS
  <2>10. t = [job |-> s.job, plan |-> s.plan, payload |-> s.payload, todo |-> s.todo \ {x},
              reading |-> z, tx |-> r]
    BY <2>7, <2>8, <2>9
  <2>11. /\ WorkShape(r) /\ r.rows = s.tx.rows /\ r.kept = s.tx.kept
         /\ r.registry = s.tx.registry /\ s.tx.provs \subseteq r.provs
    BY <1>1, <2>1, AuditAdds
  <2>12. SessionShape(t) /\ Becomes(w, t)
    <3>1. SessionShape(t)
      BY <2>10, <2>11 DEF SessionShape
    <3> QED
      BY <2>4, <2>9, <3>1 DEF Becomes
  <2>13. SessionInv(t, db)
    BY <1>4, <1>5, <1>6, <2>3, <2>10, <2>11, LookInv
  <2> QED
    BY <1>2, <1>4, <2>12, <2>13, OneSessionMoves
<1> QED
  BY <1>4, <1>7, <1>8

\* A new row says what the payload in hand said of the item, for the issuer of
\* the job.
LEMMA NewRowTraced ==
    ASSUME RefInv, NEW w \in Ingesters, NEW s, s = ingest[w], NEW db, db = stored.rows,
           NEW x \in s.reading, NEW t, Provenance(w, x) \in t.provs, s.tx.kept \subseteq t.kept,
           NEW eb, Sees(s, db) \subseteq eb
    PROVE  /\ Traced(NewRow(w, x), t, eb)
           /\ NewRow(w, x).item = x /\ x \in Published
<1>1. PICK row : row = NewRow(w, x)
  OBVIOUS
<1>2. PICK cik : cik = s.job.cik
  OBVIOUS
<1>3. /\ row.item = x /\ row.prov = [item |-> x, payload |-> s.payload]
      /\ row.value = payloads[s.payload].said[x]
      /\ row.issuer = IF x.kind \in {"issuer", "observation"} THEN {}
                      ELSE {r.prov : r \in IssuerRow(Sees(s, db), cik)}
  BY <1>1, <1>2 DEF NewRow, Provenance, Visible, Sees
<1>4. SessionInv(s, db) /\ x \in InHand(s)
  BY DEF RefInv, InHand
<1>5. s.payload \in s.tx.kept /\ s.tx.kept \subseteq DOMAIN payloads /\ x \in Published
  BY <1>4 DEF SessionInv, ReadsPublished
<1>6. x.kind \in {"filing", "fact", "aggregate"} => x.of = cik /\ IssuerRow(Sees(s, db), cik) # {}
  BY <1>2, <1>4 DEF SessionInv, KnowsIssuer
<1>7. \A i \in IssuerRow(Sees(s, db), cik) : i \in eb /\ i.item.kind = "issuer" /\ i.item.of = cik
  BY DEF IssuerRow, Existing
<1>8. row.prov \in t.provs
  BY <1>3 DEF Provenance
<1>9. \A p \in row.issuer : \E i \in eb : i.item.kind = "issuer" /\ i.prov = p
  BY <1>3, <1>7
<1>10. row.item.kind \in {"filing", "fact", "aggregate"} =>
          \E i \in eb : i.prov \in row.issuer /\ i.item.of = row.item.of
  BY <1>3, <1>6, <1>7
<1>11. Traced(row, t, eb)
  <2>1. /\ row.prov.item = row.item /\ row.prov.payload = s.payload
        /\ payloads[row.prov.payload].said[row.item] = row.value
    <3>1. row.prov.item = x /\ row.prov.payload = s.payload
      BY <1>3
    <3>2. row.item = x /\ row.value = payloads[s.payload].said[x]
      BY <1>3
    <3> QED
      BY <3>1, <3>2, Zenon
  <2>2. s.payload \in t.kept /\ s.payload \in DOMAIN payloads
    BY <1>5
  <2> QED
    BY <1>8, <1>9, <1>10, <2>1, <2>2 DEF Traced
<1> QED
  BY <1>1, <1>3, <1>5, <1>11

\* A row is written: the session has done with the item.
LEMMA WroteInv ==
    ASSUME RefInv, NEW w \in Ingesters, NEW s, s = ingest[w], NEW db, db = stored.rows,
           NEW x \in s.reading,
           NEW t, t.job = s.job, t.plan = s.plan, t.payload = s.payload, t.todo = s.todo,
           t.reading = {}, t.tx.rows = s.tx.rows \cup {NewRow(w, x)},
           t.tx.provs = s.tx.provs \cup {Provenance(w, x)}, t.tx.kept = s.tx.kept,
           t.tx.registry = s.tx.registry
    PROVE  SessionInv(t, db)
<1>1. SessionInv(s, db)
  BY DEF RefInv
<1>2. PICK row : row = NewRow(w, x)
  OBVIOUS
<1>3. /\ Sees(t, db) = Sees(s, db) \cup {row} /\ InHand(t) \subseteq InHand(s)
      /\ x \in InHand(s) /\ \A y \in InHand(s) : y \in InHand(t) \/ y = x
  BY <1>1, <1>2 DEF Sees, InHand, SessionInv, ReadsPublished
<1>4. Traced(row, t.tx, Sees(t, db)) /\ row.item = x /\ x \in Published
  BY <1>2, <1>3, NewRowTraced
<1>5. PlanFits(t)
  BY <1>1 DEF SessionInv, PlanFits
<1>6. ReadsPublished(t)
  BY <1>1, <1>2, <1>3, <1>4 DEF SessionInv, ReadsPublished
<1>7. KnowsIssuer(t, db)
  <2>1. KnowsIssuer(s, db)
    BY <1>1 DEF SessionInv
  <2>2. \A cik : IssuerRow(Sees(s, db), cik) # {} => IssuerRow(Sees(t, db), cik) # {}
    BY <1>3, IssuerStays
  <2>3. IssuerItem(t.job.cik) \in InHand(s) =>
           IssuerItem(t.job.cik) \in InHand(t) \/ IssuerRow(Sees(t, db), t.job.cik) # {}
    <3>1. x = IssuerItem(t.job.cik) => row \in IssuerRow(Sees(t, db), t.job.cik)
      BY <1>3, <1>4 DEF IssuerItem, IssuerRow, Existing
    <3> QED
      BY <1>3, <3>1
  <2> QED
    BY <1>3, <2>1, <2>2, <2>3 DEF KnowsIssuer
<1>8. \A r \in t.tx.rows : Traced(r, t.tx, Sees(t, db))
  <2>1. \A r \in s.tx.rows : Traced(r, s.tx, Sees(s, db))
    BY <1>1 DEF SessionInv
  <2>2. \A r \in s.tx.rows : Traced(r, t.tx, Sees(t, db))
    BY <1>3, <2>1 DEF Traced
  <2> QED
    BY <1>2, <1>4, <2>2
<1>9. KeepsPromise(t, db)
  <2>1. ASSUME NEW z, ShownBy(z, s, db) PROVE ShownBy(z, t, db)
    <3>1. CASE ShownIn(z, Sees(s, db))
      BY <1>3, <3>1 DEF ShownBy, ShownIn
    <3>2. CASE \E y \in InHand(s) : y.kind = "observation" /\ y.no >= z.no
      <4>1. PICK y \in InHand(s) : y.kind = "observation" /\ y.no >= z.no
        BY <3>2
      <4> QED
        BY <1>3, <1>4, <4>1 DEF ShownBy, ShownIn
    <3> QED
      BY <2>1, <3>1, <3>2 DEF ShownBy
  <2> QED
    BY <1>1, <1>3, <2>1 DEF SessionInv, KeepsPromise
<1> QED
  BY <1>5, <1>6, <1>7, <1>8, <1>9 DEF SessionInv

\* An insert, which the unique index may refuse.
LEMMA InsertKeeps ==
    ASSUME RefInv, NEW w \in Ingesters, Insert(w) PROVE RefInv'
<1>1. PICK s : s = ingest[w]
  OBVIOUS
<1>2. PICK db : db = stored.rows
  OBVIOUS
<1>3. PICK x \in s.reading :
        ingest' = IF Clash(w, x) THEN [ingest EXCEPT ![w] = Idle]
                  ELSE [ingest EXCEPT ![w].reading = {},
                           ![w].tx.rows = @ \cup {NewRow(w, x)},
                           ![w].tx.provs = @ \cup {Provenance(w, x)}]
  BY <1>1 DEF Insert
<1>4. UNCHANGED <<programme, today, payloads, stored>>
  BY DEF Insert
<1>5. SessionShape(s) /\ ingest = [v \in Ingesters |-> ingest[v]]
  BY <1>1 DEF RefInv, RefShape
<1>6. CASE Clash(w, x)
  <2>1. Becomes(w, Idle)
    BY <1>3, <1>5, <1>6 DEF Becomes
  <2> QED
    BY <1>4, <2>1, IdleInv, OneSessionMoves
<1>7. CASE ~Clash(w, x)
  <2>1. PICK row : row = NewRow(w, x)
    OBVIOUS
  <2>2. PICK p : p = Provenance(w, x)
    OBVIOUS
  <2>3. /\ ingest' = [v \in Ingesters |-> ingest'[v]]
        /\ \A v \in Ingesters \ {w} : ingest'[v] = ingest[v]
        /\ ingest'[w] = [[[s EXCEPT !.reading = {}]
                            EXCEPT !.tx = [s.tx EXCEPT !.rows = s.tx.rows \cup {row}]]
                            EXCEPT !.tx = [[s.tx EXCEPT !.rows = s.tx.rows \cup {row}]
                                             EXCEPT !.provs = s.tx.provs \cup {p}]]
    BY <1>1, <1>3, <1>5, <1>7, <2>1, <2>2
  <2>4. PICK a : a = [s EXCEPT !.reading = {}]
    OBVIOUS
  <2>5. a = [job |-> s.job, plan |-> s.plan, payload |-> s.payload, todo |-> s.todo,
             reading |-> {}, tx |-> s.tx]
    BY <1>5, <2>4, SetReading
  <2>6. PICK b : b = [s.tx EXCEPT !.rows = s.tx.rows \cup {row}]
    OBVIOUS
  <2>7. b = [rows |-> s.tx.rows \cup {row}, provs |-> s.tx.provs, kept |-> s.tx.kept,
             links |-> s.tx.links, registry |-> s.tx.registry]
    BY <1>5, <2>6 DEF SessionShape, WorkShape
  <2>8. PICK c : c = [b EXCEPT !.provs = s.tx.provs \cup {p}]
    OBVIOUS
  <2>9. c = [rows |-> s.tx.rows \cup {row}, provs |-> s.tx.provs \cup {p}, kept |-> s.tx.kept,
             links |-> s.tx.links, registry |-> s.tx.registry]
    BY <2>7, <2>8
  <2>10. PICK t : t = ingest'[w]
    OBVIOUS
  <2>11. PICK d : d = [a EXCEPT !.tx = b]
    OBVIOUS
  <2>12. d = [job |-> s.job, plan |-> s.plan, payload |-> s.payload, todo |-> s.todo,
              reading |-> {}, tx |-> b]
    BY <2>5, <2>11
  <2>13. t = [d EXCEPT !.tx = c]
    BY <2>3, <2>4, <2>6, <2>8, <2>10, <2>11, Zenon
  <2>14. t = [job |-> s.job, plan |-> s.plan, payload |-> s.payload, todo |-> s.todo,
              reading |-> {}, tx |-> c]
    BY <2>12, <2>13
  <2>15. WorkShape(c)
    BY <2>9 DEF WorkShape
  <2>16. SessionShape(t) /\ Becomes(w, t)
    <3>1. SessionShape(t)
      BY <2>14, <2>15 DEF SessionShape
    <3> QED
      BY <2>3, <2>10, <3>1 DEF Becomes
  <2>17. /\ t.job = s.job /\ t.plan = s.plan /\ t.payload = s.payload /\ t.todo = s.todo
         /\ t.reading = {} /\ t.tx.rows = s.tx.rows \cup {NewRow(w, x)}
         /\ t.tx.provs = s.tx.provs \cup {Provenance(w, x)} /\ t.tx.kept = s.tx.kept
         /\ t.tx.registry = s.tx.registry
    BY <2>1, <2>2, <2>9, <2>14
  <2>18. SessionInv(t, db)
    BY <1>1, <1>2, <2>17, WroteInv
  <2> QED
    BY <1>2, <1>4, <2>16, <2>18, OneSessionMoves
<1> QED
  BY <1>6, <1>7

\* A commit: what the session saw is what is stored.
LEMMA CommitKeeps ==
    ASSUME RefInv, NEW w \in Ingesters, CommitJob(w) PROVE RefInv'
<1>1. PICK s : s = ingest[w]
  OBVIOUS
<1>2. PICK db : db = stored.rows
  OBVIOUS
<1>3. PICK eb : eb = Sees(s, db)
  OBVIOUS
<1>4. /\ s.plan = <<>> /\ s.todo = {} /\ s.reading = {}
      /\ stored' = [rows |-> db \cup s.tx.rows, provs |-> stored.provs \cup s.tx.provs,
                    kept |-> stored.kept \cup s.tx.kept, links |-> s.tx.links @@ stored.links,
                    registry |-> IF s.tx.registry = {} THEN stored.registry ELSE s.tx.registry]
      /\ ingest' = [ingest EXCEPT ![w] = Idle]
      /\ UNCHANGED <<programme, today, payloads>>
  BY <1>1, <1>2 DEF CommitJob
<1>5. SessionInv(s, db) /\ ingest = [v \in Ingesters |-> ingest[v]]
  BY <1>1, <1>2 DEF RefInv, RefShape
<1>6. Grows /\ stored'.rows = eb /\ db \subseteq eb
  BY <1>3, <1>4 DEF Grows, Published, Dated, Sees
<1>7. Becomes(w, Idle)
  BY <1>4, <1>5 DEF Becomes
<1>8. RefShape'
  <2>1. WorkShape(stored)'
    BY <1>4 DEF WorkShape
  <2>2. \A v \in Ingesters : SessionShape(ingest[v])'
    BY <1>7, IdleInv DEF RefInv, RefShape, Becomes, SessionShape, WorkShape
  <2> QED
    BY <1>4, <1>7, <2>1, <2>2 DEF RefInv, RefShape, Becomes
<1>9. StoreInv'
  <2>1. \A r \in eb : r.item \in Published' /\ Traced(r, stored, eb)'
    <3> SUFFICES ASSUME NEW r \in eb PROVE r.item \in Published' /\ Traced(r, stored, eb)'
      OBVIOUS
    <3>1. PICK u : u = stored'
      OBVIOUS
    <3>2. stored.provs \subseteq u.provs /\ stored.kept \subseteq u.kept
          /\ s.tx.provs \subseteq u.provs /\ s.tx.kept \subseteq u.kept
      BY <1>4, <3>1
    <3>3. Traced(r, u, eb)' /\ r.item \in Published
      <4>1. CASE r \in db
        <5>1. PICK t : t = stored
          OBVIOUS
        <5>2. Traced(r, t, db) /\ r.item \in Published
          BY <1>2, <4>1, <5>1 DEF RefInv, StoreInv
        <5> QED
          BY <1>6, <3>2, <5>1, <5>2, TracedGrows
      <4>2. CASE r \in s.tx.rows
        <5>1. Traced(r, s.tx, Sees(s, db)) /\ r.item \in Published
          BY <1>5, <4>2 DEF SessionInv, ReadsPublished
        <5> QED
          BY <1>3, <1>6, <3>2, <5>1, TracedGrows
      <4> QED
        BY <1>3, <4>1, <4>2 DEF Sees
    <3> QED
      BY <1>6, <3>1, <3>3 DEF Grows
  <2>2. ASSUME NEW p \in stored'.registry
        PROVE  p \in DOMAIN payloads /\ \A x \in payloads[p].dated : ShownIn(x, eb)
    <3>1. CASE p \in s.tx.registry
      <4>1. KeepsPromise(s, db) /\ s.plan # <<"observations">>
        BY <1>4, <1>5 DEF SessionInv
      <4>2. InHand(s) = {}
        BY <1>4 DEF InHand
      <4>3. p \in DOMAIN payloads /\ \A x \in payloads[p].dated : ShownBy(x, s, db)
        BY <3>1, <4>1 DEF KeepsPromise
      <4> QED
        BY <1>3, <4>2, <4>3 DEF ShownBy
    <3>2. CASE p \in stored.registry
      BY <1>2, <1>6, <3>2 DEF RefInv, StoreInv, ShownIn
    <3> QED
      BY <1>4, <2>2, <3>1, <3>2
  <2>3. \A i \in DOMAIN payloads' : payloads'[i].dated \subseteq Dated'
    BY <1>4, <1>6 DEF RefInv, StoreInv, Grows
  <2> QED
    BY <1>4, <1>6, <2>1, <2>2, <2>3 DEF StoreInv, ShownIn
<1>10. \A v \in Ingesters : SessionInv(ingest[v], stored.rows)'
  <2> SUFFICES ASSUME NEW v \in Ingesters PROVE SessionInv(ingest[v], stored.rows)'
    OBVIOUS
  <2>1. PICK u : u = ingest'[v]
    OBVIOUS
  <2>2. SessionInv(u, eb)'
    <3>1. CASE v = w
      <4>1. u = Idle /\ SessionInv(Idle, db)
        BY <1>7, <2>1, <3>1, IdleInv DEF Becomes
      <4> QED
        BY <1>6, <4>1, SessionWaits
    <3>2. CASE v # w
      <4>1. u = ingest[v]
        BY <1>7, <2>1, <3>2 DEF Becomes
      <4>2. SessionInv(u, db)
        BY <1>2, <4>1 DEF RefInv
      <4> QED
        BY <1>6, <4>2, SessionWaits
    <3> QED
      BY <3>1, <3>2
  <2> QED
    BY <1>6, <2>1, <2>2
<1> QED
  BY <1>8, <1>9, <1>10 DEF RefInv

\* A job that fails leaves nothing behind but the payloads it asked for.
LEMMA RollBackKeeps ==
    ASSUME RefInv, NEW w \in Ingesters, RollBackJob(w) PROVE RefInv'
<1>1. Becomes(w, Idle)
  BY DEF RollBackJob, RefInv, RefShape, Becomes
<1> QED
  BY <1>1, IdleInv, OneSessionMoves DEF RollBackJob

\* The next day publishes more, and changes nothing that was said.
LEMMA NextDayKeeps == ASSUME RefInv, NextDay PROVE RefInv'
<1>1. today \in Nat /\ today' = today + 1 /\ UNCHANGED <<programme, payloads, stored, ingest>>
  BY DEF NextDay, RefInv, RefShape
<1>2. Published \subseteq Published'
  <2>1. \A n \in Days : n \in Nat
    BY WindowAssumption
  <2> QED
    BY <1>1, <2>1 DEF Published
<1>3. Grows
  BY <1>1, <1>2 DEF Grows, Dated
<1>4. RefShape'
  BY <1>1 DEF RefInv, RefShape, SessionShape, WorkShape
<1>5. StoreInv'
  BY <1>1, <1>3, StoreWaits DEF RefInv
<1>6. \A v \in Ingesters : SessionInv(ingest[v], stored.rows)'
  <2> SUFFICES ASSUME NEW v \in Ingesters PROVE SessionInv(ingest[v], stored.rows)'
    OBVIOUS
  <2>1. PICK u : u = ingest[v]
    OBVIOUS
  <2>2. PICK db : db = stored.rows
    OBVIOUS
  <2>3. SessionInv(u, db)
    BY <2>1, <2>2 DEF RefInv
  <2>4. SessionInv(u, db)'
    BY <1>3, <2>3, SessionWaits
  <2> QED
    BY <1>1, <2>1, <2>2, <2>4
<1> QED
  BY <1>4, <1>5, <1>6 DEF RefInv

\* Nothing is stored at the start.
LEMMA RefStarts == ASSUME RefInit PROVE RefInv
<1>1. /\ programme \in Programmes /\ today = 0 /\ payloads = <<>> /\ stored = NoWork
      /\ ingest = [w \in Ingesters |-> Idle]
  BY DEF RefInit
<1>2. RefShape
  <2>1. payloads \in Seq({payloads[i] : i \in DOMAIN payloads})
    BY <1>1
  <2>2. WorkShape(stored)
    BY <1>1 DEF NoWork, WorkShape
  <2>3. \A w \in Ingesters : SessionShape(ingest[w])
    BY <1>1, IdleInv
  <2> QED
    BY <1>1, <2>1, <2>2, <2>3 DEF RefShape
<1>3. StoreInv
  BY <1>1 DEF StoreInv, NoWork
<1>4. \A w \in Ingesters : SessionInv(ingest[w], stored.rows)
  BY <1>1, IdleInv
<1> QED
  BY <1>2, <1>3, <1>4 DEF RefInv

\* The invariant of the reference data: every row that is committed, or about to
\* be, is traced to a payload that says so, and no label runs ahead of the
\* observations under it.
THEOREM RefInvariant == RefSpec => []RefInv
<1>1. RefInit => RefInv
  BY RefStarts
<1>2. RefInv /\ [RefNext]_refVars => RefInv'
  <2> SUFFICES ASSUME RefInv, [RefNext]_refVars PROVE RefInv'
    OBVIOUS
  <2>1. ASSUME NEW w \in Ingesters, IngestStep(w) PROVE RefInv'
    BY <2>1, BeginKeeps, FetchKeeps, TakeKeeps, InsertKeeps, CommitKeeps, RollBackKeeps
       DEF IngestStep
  <2>2. CASE NextDay
    BY <2>2, NextDayKeeps
  <2>3. CASE UNCHANGED refVars
    <3>1. RefShape'
      BY <2>3 DEF refVars, RefInv, RefShape, SessionShape, WorkShape
    <3>2. StoreInv'
      BY <2>3 DEF refVars, RefInv, StoreInv, Traced, ShownBy, ShownIn, Published, Dated
    <3>3. ASSUME NEW s, NEW from, SessionInv(s, from) PROVE SessionInv(s, from)'
      BY <2>3, <3>3 DEF refVars, SessionInv, PlanFits, ReadsPublished, KnowsIssuer, KeepsPromise,
         Traced, ShownBy, ShownIn, Published, Dated
    <3> QED
      BY <2>3, <3>1, <3>2, <3>3 DEF refVars, RefInv
  <2> QED
    BY <2>1, <2>2, <2>3 DEF RefNext
<1> QED
  BY <1>1, <1>2, PTL DEF RefSpec

\* Every stored row says what a kept response said of that very item, and belongs
\* to the issuer it was ingested for.
THEOREM RowsAreTraced == RefSpec => []RowsTraceToPayloads
<1>1. RefInv => RowsTraceToPayloads
  <2> SUFFICES ASSUME RefInv, NEW r \in stored.rows
               PROVE /\ r.prov \in stored.provs /\ r.prov.item = r.item
                     /\ r.prov.payload \in stored.kept
                     /\ payloads[r.prov.payload].said[r.item] = r.value
                     /\ r.issuer \subseteq {s.prov : s \in {t \in stored.rows : t.item.kind = "issuer"}}
                     /\ r.item.kind \in {"filing", "fact", "aggregate"} =>
                          \E s \in stored.rows : s.prov \in r.issuer /\ s.item.of = r.item.of
    BY DEF RowsTraceToPayloads
  <2>1. Traced(r, stored, stored.rows)
    BY DEF RefInv, StoreInv
  <2> QED
    BY <2>1 DEF Traced
<1> QED
  BY <1>1, RefInvariant, PTL

\* The label of the market context is never newer than the observation it labels.
THEOREM LabelsKeptFresh == RefSpec => []ContextAsFreshAsLabelled
<1>1. RefInv => ContextAsFreshAsLabelled
  <2> SUFFICES ASSUME RefInv, NEW p \in stored.registry, NEW x \in payloads[p].dated
               PROVE  \E r \in Shown : r.item.no >= x.no
    BY DEF ContextAsFreshAsLabelled
  <2>1. p \in DOMAIN payloads /\ ShownIn(x, stored.rows)
    BY DEF RefInv, StoreInv
  <2>2. x \in Dated
    BY <2>1 DEF RefInv, StoreInv
  <2>3. x.no \in Nat
    BY <2>2, PublishedDays DEF Dated
  <2> DEFINE held == {r \in stored.rows : r.item.kind = "observation"}
             nos == {r.item.no : r \in held}
  <2>4. \A r \in held : r.item.no \in Nat /\ r.item.no <= today
    BY PublishedDays DEF RefInv, StoreInv
  <2>5. PICK q \in held : q.item.no >= x.no
    BY <2>1 DEF ShownIn
  <2>6. nos \subseteq Nat /\ nos # {} /\ \A n \in nos : n <= today
    BY <2>4, <2>5
  <2>7. today \in Nat
    BY DEF RefInv, RefShape
  <2>8. PICK m \in nos : \A n \in nos : n <= m
    BY <2>6, <2>7, LargestNatural
  <2>9. PICK r \in held : r.item.no = m
    BY <2>8
  <2>10. q.item.no <= r.item.no /\ q.item.no \in Nat /\ r.item.no \in Nat
    BY <2>4, <2>8, <2>9
  <2>11. r \in Shown
    BY <2>8, <2>9 DEF Shown
  <2> QED
    BY <2>3, <2>5, <2>10, <2>11
<1> QED
  BY <1>1, RefInvariant, PTL

-----------------------------------------------------------------------------
(* The research desk: business days.                                       *)

\* Of any four days in a row one is a business day; the last one there is, is found.
LEMMA LastBusinessDayIs ==
    ASSUME NEW n \in Int
    PROVE  /\ LastBusinessDay(n) \in Int /\ LastBusinessDay(n) <= n
           /\ \A e \in Int : BusinessDay(e) /\ e <= n => e <= LastBusinessDay(n)
<1>1. FirstWeekday \in Int
  BY DeskAssumption
<1>2. \E d \in (n - 3)..n : BusinessDay(d) /\ \A e \in (d + 1)..n : ~BusinessDay(e)
  <2>1. CASE BusinessDay(n)
    <3>1. n \in (n - 3)..n /\ (n + 1)..n = {}
      OBVIOUS
    <3> QED
      BY <2>1, <3>1
  <2>2. CASE ~BusinessDay(n) /\ BusinessDay(n - 1)
    <3>1. n - 1 \in (n - 3)..n /\ \A e \in ((n - 1) + 1)..n : e = n
      OBVIOUS
    <3> QED
      BY <2>2, <3>1
  <2>3. CASE ~BusinessDay(n) /\ ~BusinessDay(n - 1)
    <3>1. n - 2 \in (n - 3)..n /\ \A e \in ((n - 2) + 1)..n : e = n \/ e = n - 1
      OBVIOUS
    <3>2. BusinessDay(n - 2)
      BY <1>1, <2>3 DEF BusinessDay
    <3> QED
      BY <2>3, <3>1, <3>2
  <2> QED
    BY <2>1, <2>2, <2>3
<1>3. /\ LastBusinessDay(n) \in (n - 3)..n
      /\ \A e \in (LastBusinessDay(n) + 1)..n : ~BusinessDay(e)
  BY <1>2 DEF LastBusinessDay
<1>4. LastBusinessDay(n) \in Int /\ LastBusinessDay(n) <= n
  BY <1>3
<1>5. ASSUME NEW e \in Int, BusinessDay(e), e <= n PROVE e <= LastBusinessDay(n)
  BY <1>3, <1>4, <1>5
<1> QED
  BY <1>4, <1>5

\* Only one business day takes an alert for new: the next one's cycle begins after it.
LEMMA NewOnOneDay ==
    ASSUME NEW day \in Int, NEW d \in Int, NEW e \in Int, BusinessDay(d), BusinessDay(e),
           PreviousBusinessDay(d) < day, day <= d, PreviousBusinessDay(e) < day, day <= e
    PROVE  d = e
<1>1. ASSUME NEW a \in Int, NEW b \in Int, BusinessDay(a), a < b,
             PreviousBusinessDay(b) < day, day <= a
      PROVE  FALSE
  <2>1. b - 1 \in Int /\ a <= b - 1
    BY <1>1
  <2>2. LastBusinessDay(b - 1) \in Int /\ a <= LastBusinessDay(b - 1)
    BY <1>1, <2>1, LastBusinessDayIs
  <2> QED
    BY <1>1, <2>2 DEF PreviousBusinessDay
<1>2. ~(d < e) /\ ~(e < d)
  BY <1>1
<1> QED
  BY <1>2

\* A set without two different members has at most one.
LEMMA AtMostOne ==
    ASSUME NEW S, \A x, y \in S : x = y PROVE Cardinality(S) <= 1
<1>1. CASE S = {}
  BY <1>1, FS_EmptySet
<1>2. CASE S # {}
  <2>1. PICK x \in S : TRUE
    BY <1>2
  <2>2. S = {x}
    BY <2>1
  <2> QED
    BY <2>2, FS_Singleton
<1> QED
  BY <1>1, <1>2

-----------------------------------------------------------------------------
(* Runs, and the latest of them.                                           *)

RunRecords ==
    [pipeline : Pipelines, mode : Modes, status : {"running", "success", "errors"},
     researchDay : 0..LastDay, completed : Nat]

Finished == {i \in DOMAIN runs : runs[i].completed > 0}

\* Runs complete one after the other.
RunsInv ==
    /\ runs \in Seq(RunRecords)
    /\ \A i \in DOMAIN runs :
          /\ runs[i].status = "running" <=> runs[i].completed = 0
          /\ runs[i].completed <= Cardinality(Finished)

DailySuccess(p) ==
    {i \in DOMAIN runs : runs[i].pipeline = p /\ runs[i].status = "success" /\ runs[i].mode \in Daily}

\* Only finitely many runs have finished.
LEMMA FinishedFinite ==
    ASSUME RunsInv PROVE IsFiniteSet(Finished) /\ Cardinality(Finished) \in Nat
<1>1. DOMAIN runs = 1..Len(runs) /\ Len(runs) \in Nat
  BY DEF RunsInv
<1>2. IsFiniteSet(DOMAIN runs)
  BY <1>1, FS_Interval
<1>3. Finished \subseteq DOMAIN runs
  BY DEF Finished
<1>4. IsFiniteSet(Finished)
  BY <1>2, <1>3, FS_Subset
<1> QED
  BY <1>4, FS_CardinalityType

\* The fields of a run.
LEMMA RunFields ==
    ASSUME RunsInv, NEW i \in DOMAIN runs
    PROVE  /\ runs[i] \in RunRecords /\ runs[i].completed \in Nat /\ runs[i].researchDay \in Int
           /\ runs[i].mode \in Modes /\ runs[i].pipeline \in Pipelines
           /\ runs[i] = [pipeline |-> runs[i].pipeline, mode |-> runs[i].mode, status |-> runs[i].status,
                         researchDay |-> runs[i].researchDay, completed |-> runs[i].completed]
<1>1. runs[i] \in RunRecords
  BY DEF RunsInv
<1> QED
  BY <1>1, DeskAssumption DEF RunRecords

\* Some run of a set that is not empty completed last.
LEMMA SomeRunIsLatest ==
    ASSUME RunsInv, NEW S, S \subseteq DOMAIN runs, S # {}
    PROVE  \E i \in S : \A j \in S : runs[j].completed <= runs[i].completed
<1> DEFINE nos == {runs[i].completed : i \in S}
           n == Cardinality(Finished)
<1>1. n \in Nat
  BY FinishedFinite
<1>2. \A i \in S : runs[i].completed \in Nat /\ runs[i].completed <= n
  BY RunFields DEF RunsInv
<1>3. nos \subseteq Nat /\ nos # {} /\ \A k \in nos : k <= n
  BY <1>2
<1>4. PICK m \in nos : \A k \in nos : k <= m
  BY <1>1, <1>3, LargestNatural
<1>5. PICK i \in S : runs[i].completed = m
  BY <1>4
<1>6. \A j \in S : runs[j].completed <= runs[i].completed
  BY <1>4, <1>5
<1> QED
  BY <1>6

\* The latest of two sets is the latest of the latest of each.
LEMMA LatestOfUnion ==
    ASSUME RunsInv, NEW S, NEW T, S \subseteq DOMAIN runs, T \subseteq DOMAIN runs
    PROVE  LatestOf(LatestOf(S) \cup LatestOf(T)) = LatestOf(S \cup T)
<1>1. \A i \in S \cup T : runs[i].completed \in Nat
  BY RunFields
<1>2. S = {} \/ \E i \in LatestOf(S) : TRUE
  BY SomeRunIsLatest DEF LatestOf
<1>3. T = {} \/ \E i \in LatestOf(T) : TRUE
  BY SomeRunIsLatest DEF LatestOf
<1>4. LatestOf(S) \subseteq S /\ LatestOf(T) \subseteq T
  BY DEF LatestOf
<1>5. ASSUME NEW i \in LatestOf(LatestOf(S) \cup LatestOf(T)), NEW j \in S \cup T
      PROVE  runs[j].completed <= runs[i].completed
  <2>0. i \in S \cup T /\ \A k \in LatestOf(S) \cup LatestOf(T) : runs[k].completed <= runs[i].completed
    BY <1>4, <1>5 DEF LatestOf
  <2>1. CASE j \in S
    <3>1. PICK k \in LatestOf(S) : TRUE
      BY <1>2, <2>1
    <3>2. k \in S /\ runs[j].completed <= runs[k].completed /\ runs[k].completed <= runs[i].completed
      BY <2>0, <2>1, <3>1 DEF LatestOf
    <3> QED
      BY <1>1, <2>0, <2>1, <3>2
  <2>2. CASE j \in T
    <3>1. PICK k \in LatestOf(T) : TRUE
      BY <1>3, <2>2
    <3>2. k \in T /\ runs[j].completed <= runs[k].completed /\ runs[k].completed <= runs[i].completed
      BY <2>0, <2>2, <3>1 DEF LatestOf
    <3> QED
      BY <1>1, <2>0, <2>2, <3>2
  <2> QED
    BY <2>1, <2>2
<1>6. LatestOf(LatestOf(S) \cup LatestOf(T)) \subseteq LatestOf(S \cup T)
  <2> SUFFICES ASSUME NEW i \in LatestOf(LatestOf(S) \cup LatestOf(T)) PROVE i \in LatestOf(S \cup T)
    OBVIOUS
  <2>1. i \in S \cup T
    BY <1>4 DEF LatestOf
  <2> QED
    BY <1>5, <2>1 DEF LatestOf
<1>7. LatestOf(S \cup T) \subseteq LatestOf(LatestOf(S) \cup LatestOf(T))
  BY DEF LatestOf
<1> QED
  BY <1>6, <1>7

\* What the queries look for, by pipeline.
LEMMA LatestDailyIs ==
    ASSUME RunsInv
    PROVE  /\ \A p \in Pipelines : LatestSuccessfulDaily(p) = LatestOf(DailySuccess(p))
           /\ LastDailySuccess =
                LatestOf(DailySuccess("filing_monitor") \cup DailySuccess("market_discovery"))
<1>1. \A p : {i \in Successful(p) : runs[i].mode \in Daily} = DailySuccess(p)
  BY DEF Successful, DailySuccess
<1>2. {i \in DOMAIN runs : runs[i].status = "success" /\ runs[i].mode # "backfill"}
        = DailySuccess("filing_monitor") \cup DailySuccess("market_discovery")
  BY RunFields DEF DailySuccess, Modes, Daily, Pipelines
<1>3. \A p : LatestSuccessfulDaily(p) = LatestOf(DailySuccess(p))
  BY <1>1 DEF LatestSuccessfulDaily, LatestOf
<1> QED
  BY <1>2, <1>3 DEF LastDailySuccess, LatestOf

\* Runs that do not change keep their order.
LEMMA LatestStays ==
    ASSUME NEW S, \A i \in S : runs'[i] = runs[i] PROVE LatestOf(S)' = LatestOf(S)
BY DEF LatestOf

\* The latest runs a page had in hand, as a set.
Followed(runsOfFilings, runsOfDiscovery) == LatestOf(runsOfFilings \cup runsOfDiscovery)

\* What a page that has not asked for filings, has asked for them, has asked for
\* discovery too, has still to ask.
Unasked == {<<"filing", "discovery", "alerts", "context">>,
            <<"members", "status", "filing", "discovery", "counts">>,
            <<"status", "filing", "discovery", "counts">>, <<"filing", "discovery", "counts">>}
FilingsAsked == {<<"discovery", "alerts", "context">>, <<"discovery", "counts">>}
BothAsked == {<<"alerts", "context">>, <<"context">>, <<"counts">>, <<>>}

\* The completed runs among all.
Complete(S) == S \subseteq Finished

\* A page in progress: the latest runs of filings it read, with the latest of
\* discovery it read or would read now, were the latest of both at some moment.
PageInv(v) ==
    \/ v.todo \in Unasked
    \/ /\ v.todo \in FilingsAsked /\ "filing" \in DOMAIN v.got
       /\ Complete(v.got.filing)
       /\ Followed(v.got.filing, LatestSuccessfulDaily("market_discovery")) \in latestSince
    \/ /\ v.todo \in BothAsked /\ {"filing", "discovery"} \subseteq DOMAIN v.got
       /\ Complete(v.got.filing) /\ Complete(v.got.discovery.runs)
       /\ v.got.discovery.date \in Int
       /\ Followed(v.got.filing, v.got.discovery.runs) \in latestSince

ViewInv ==
    \/ view = Closed
    \/ /\ view = [page |-> view.page, todo |-> view.todo, got |-> view.got]
       /\ LastDailySuccess \in latestSince
       /\ screen.page = "none"
       /\ view.page \in {"timeline", "page", "tiles"} \/ (view.page \in {"brief", "watchlist"} /\ PageInv(view))

NewInv ==
    /\ newOn = [a \in Alerts |-> newOn[a]]
    /\ \A a \in Alerts : \A d \in newOn[a] :
          d \in Int /\ PreviousBusinessDay(d) < a.asOf /\ a.asOf <= d

DeskInv ==
    /\ RunsInv /\ date \in Nat
    /\ ViewInv
    /\ CycleFollowsDailyRuns
    /\ NewInv

\* What the rest of the world leaves as it is.
LEMMA PageWaits ==
    ASSUME DeskInv, UNCHANGED <<runs, view, screen, latestSince, newOn>>, date' \in Nat
    PROVE  DeskInv'
<1>1. RunsInv'
  BY DEF DeskInv, RunsInv, Finished
<1>2. ViewInv'
  BY DEF DeskInv, ViewInv, PageInv, Complete, Finished, Followed, LatestOf, LatestSuccessfulDaily,
     Successful, LastDailySuccess
<1>3. CycleFollowsDailyRuns' /\ NewInv'
  BY DEF DeskInv, CycleFollowsDailyRuns, NewInv
<1> QED
  BY <1>1, <1>2, <1>3 DEF DeskInv

\* A page is opened.
LEMMA OpenKeeps ==
    ASSUME DeskInv, NEW which \in {"brief", "watchlist", "timeline", "page", "tiles"}, Open(which)
    PROVE  DeskInv'
<1>1. /\ view' = [page |-> which, todo |-> Plan(which), got |-> <<>>]
      /\ screen' = [page |-> "none"] /\ latestSince' = {LastDailySuccess}
      /\ UNCHANGED <<date, runs, newOn>>
  BY DEF Open
<1>2. RunsInv'
  BY <1>1 DEF DeskInv, RunsInv, Finished
<1>3. LastDailySuccess' = LastDailySuccess
  BY <1>1 DEF LastDailySuccess
<1>4. which \in {"brief", "watchlist"} => Plan(which) \in Unasked
  <2>1. Plan("brief") = <<"filing", "discovery", "alerts", "context">>
    BY DEF Plan
  <2>2. Plan("watchlist") = <<"members", "status", "filing", "discovery", "counts">>
    BY DEF Plan
  <2> QED
    BY <2>1, <2>2 DEF Unasked
<1>5. ViewInv'
  BY <1>1, <1>3, <1>4 DEF ViewInv, PageInv
<1>6. CycleFollowsDailyRuns'
  BY <1>1 DEF CycleFollowsDailyRuns
<1>7. NewInv'
  BY <1>1 DEF DeskInv, NewInv
<1> QED
  BY <1>1, <1>2, <1>5, <1>6, <1>7 DEF DeskInv

\* The next query of a page, and what is left.
LEMMA NextQuery ==
    ASSUME NEW todo
    PROVE  /\ todo \in Unasked /\ Head(todo) # "filing" => Tail(todo) \in Unasked
           /\ todo \in Unasked /\ Head(todo) = "filing" => Tail(todo) \in FilingsAsked
           /\ todo \in FilingsAsked => Head(todo) = "discovery" /\ Tail(todo) \in BothAsked
           /\ todo \in BothAsked /\ todo # <<>> =>
                 Head(todo) \in {"alerts", "context", "counts"} /\ Tail(todo) \in BothAsked
<1>1. /\ Head(<<"filing", "discovery", "alerts", "context">>) = "filing"
      /\ Tail(<<"filing", "discovery", "alerts", "context">>) = <<"discovery", "alerts", "context">>
  OBVIOUS
<1>2. /\ Head(<<"members", "status", "filing", "discovery", "counts">>) = "members"
      /\ Tail(<<"members", "status", "filing", "discovery", "counts">>) =
            <<"status", "filing", "discovery", "counts">>
  OBVIOUS
<1>3. /\ Head(<<"status", "filing", "discovery", "counts">>) = "status"
      /\ Tail(<<"status", "filing", "discovery", "counts">>) = <<"filing", "discovery", "counts">>
  OBVIOUS
<1>4. /\ Head(<<"filing", "discovery", "counts">>) = "filing"
      /\ Tail(<<"filing", "discovery", "counts">>) = <<"discovery", "counts">>
  OBVIOUS
<1>5. /\ Head(<<"discovery", "alerts", "context">>) = "discovery"
      /\ Tail(<<"discovery", "alerts", "context">>) = <<"alerts", "context">>
  OBVIOUS
<1>6. /\ Head(<<"discovery", "counts">>) = "discovery" /\ Tail(<<"discovery", "counts">>) = <<"counts">>
      /\ Head(<<"alerts", "context">>) = "alerts" /\ Tail(<<"alerts", "context">>) = <<"context">>
  OBVIOUS
<1>7. /\ Head(<<"context">>) = "context" /\ Tail(<<"context">>) = <<>>
      /\ Head(<<"counts">>) = "counts" /\ Tail(<<"counts">>) = <<>>
  OBVIOUS
<1>8. todo \in FilingsAsked => Head(todo) = "discovery" /\ Tail(todo) \in BothAsked
  BY <1>5, <1>6 DEF FilingsAsked, BothAsked
<1>9. todo \in BothAsked /\ todo # <<>> =>
         Head(todo) \in {"alerts", "context", "counts"} /\ Tail(todo) \in BothAsked
  BY <1>6, <1>7 DEF BothAsked
<1>10. todo \in Unasked /\ Head(todo) # "filing" => Tail(todo) \in Unasked
  BY <1>1, <1>2, <1>3, <1>4 DEF Unasked
<1>11. todo \in Unasked /\ Head(todo) = "filing" => Tail(todo) \in FilingsAsked
  BY <1>1, <1>2, <1>3, <1>4 DEF Unasked, FilingsAsked
<1> QED
  BY <1>8, <1>9, <1>10, <1>11

\* What is read of a run that succeeded is complete.
LEMMA SuccessIsComplete ==
    ASSUME RunsInv, NEW p
    PROVE  Complete(DailySuccess(p)) /\ Complete(LatestOf(DailySuccess(p)))
           /\ DailySuccess(p) \subseteq DOMAIN runs
<1>1. \A i \in DailySuccess(p) : i \in DOMAIN runs /\ runs[i].completed # 0 /\ runs[i].completed \in Nat
  BY RunFields DEF DailySuccess, RunsInv
<1>2. DailySuccess(p) \subseteq Finished
  BY <1>1 DEF Finished
<1> QED
  BY <1>1, <1>2 DEF Complete, LatestOf

\* The latest runs of filings, read now, with the latest of discovery are the
\* latest of both.
LEMMA FollowedNow ==
    ASSUME RunsInv
    PROVE  Followed(LatestSuccessfulDaily("filing_monitor"), LatestSuccessfulDaily("market_discovery"))
             = LastDailySuccess
<1>1. {"filing_monitor", "market_discovery"} = Pipelines
  BY DEF Pipelines
<1> QED
  BY <1>1, LatestDailyIs, SuccessIsComplete, LatestOfUnion DEF Followed

\* A page keeps an answer.
LEMMA GotSet ==
    ASSUME NEW a, NEW p, NEW t, NEW g, NEW h, a = [page |-> p, todo |-> t, got |-> g]
    PROVE  [a EXCEPT !.got = h] = [page |-> p, todo |-> t, got |-> h]
OBVIOUS

\* A query is answered.
LEMMA QueryKeeps == ASSUME DeskInv, Query PROVE DeskInv'
<1>1. PICK v : v = view
  OBVIOUS
<1>2. PICK query : query = Head(v.todo)
  OBVIOUS
<1>3. PICK answer \in Answers(query, v.got) :
         view' = [view EXCEPT !.todo = Tail(@), !.got = Noted(@, query, answer)]
  BY <1>1, <1>2 DEF Query
<1>4. v.todo # <<>> /\ UNCHANGED <<date, runs, screen, latestSince, newOn>>
  BY <1>1 DEF Query
<1>5. view # Closed
  BY <1>1, <1>4 DEF Closed
<1>6. /\ v = [page |-> v.page, todo |-> v.todo, got |-> v.got]
      /\ LastDailySuccess \in latestSince /\ screen.page = "none"
      /\ v.page \in {"timeline", "page", "tiles"} \/ (v.page \in {"brief", "watchlist"} /\ PageInv(v))
  BY <1>1, <1>5 DEF DeskInv, ViewInv
<1>7. PICK got : got = Noted(v.got, query, answer)
  OBVIOUS
<1>8. PICK u : u = [page |-> v.page, todo |-> Tail(v.todo), got |-> got]
  OBVIOUS
<1>9. view' = u
  <2>1. PICK a : a = [v EXCEPT !.todo = Tail(v.todo)]
    OBVIOUS
  <2>2. a = [page |-> v.page, todo |-> Tail(v.todo), got |-> v.got]
    BY <1>6, <2>1
  <2>3. [a EXCEPT !.got = got] = u
    <3>1. PICK p, t, g : p = v.page /\ t = Tail(v.todo) /\ g = v.got
      OBVIOUS
    <3>2. a = [page |-> p, todo |-> t, got |-> g]
      BY <2>2, <3>1
    <3>3. [a EXCEPT !.got = got] = [page |-> p, todo |-> t, got |-> got]
      BY ONLY <3>2, GotSet
    <3> QED
      BY <1>8, <3>1, <3>3
  <2>4. view' = [[v EXCEPT !.todo = Tail(v.todo)] EXCEPT !.got = Noted(v.got, query, answer)]
    BY <1>1, <1>3
  <2> QED
    BY <1>7, <2>1, <2>3, <2>4, Zenon
<1>10. /\ query \in DOMAIN got /\ got[query] = answer
       /\ \A q \in DOMAIN v.got : q \in DOMAIN got /\ (q # query => got[q] = v.got[q])
  BY <1>7 DEF Noted
<1>11. LastDailySuccess' = LastDailySuccess /\ Finished' = Finished
       /\ LatestSuccessfulDaily("market_discovery")' = LatestSuccessfulDaily("market_discovery")
  BY <1>4 DEF LastDailySuccess, Finished, LatestSuccessfulDaily, Successful
<1>12. RunsInv /\ date \in Nat
  BY DEF DeskInv
<1>13. v.page \in {"brief", "watchlist"} => PageInv(u)
  <2> SUFFICES ASSUME PageInv(v) PROVE PageInv(u)
    BY <1>6
  <2>0. u.todo = Tail(v.todo) /\ u.got = got
    BY <1>8
  <2>1. CASE v.todo \in Unasked /\ query # "filing"
    BY <1>2, <2>0, <2>1, NextQuery DEF PageInv
  <2>2. CASE v.todo \in Unasked /\ query = "filing"
    <3>1. u.todo \in FilingsAsked
      BY <1>2, <2>0, <2>2, NextQuery
    <3>2. got["filing"] = LatestSuccessfulDaily("filing_monitor") /\ "filing" \in DOMAIN got
      BY <1>10, <2>2 DEF Answers
    <3>3. Followed(got["filing"], LatestSuccessfulDaily("market_discovery")) \in latestSince
      BY <1>6, <1>12, <3>2, FollowedNow
    <3>4. Complete(got["filing"])
      BY <1>12, <3>2, LatestDailyIs, SuccessIsComplete DEF Pipelines
    <3> QED
      BY <2>0, <3>1, <3>2, <3>3, <3>4 DEF PageInv
  <2>3. CASE v.todo \in FilingsAsked
    <3>1. query = "discovery" /\ u.todo \in BothAsked
      BY <1>2, <2>0, <2>3, NextQuery
    <3>2. got["discovery"] = [runs |-> LatestSuccessfulDaily("market_discovery"), date |-> date]
          /\ "discovery" \in DOMAIN got
      BY <1>10, <3>1 DEF Answers
    <3>3. /\ Complete(v.got.filing) /\ "filing" \in DOMAIN v.got
          /\ Followed(v.got.filing, LatestSuccessfulDaily("market_discovery")) \in latestSince
      <4>1. v.todo \notin Unasked
        <5>1. Head(v.todo) = "discovery"
          BY <2>3, NextQuery
        <5>2. \A t \in Unasked : Head(t) # "discovery"
          BY DEF Unasked
        <5> QED
          BY <5>1, <5>2
      <4>2. v.todo \notin BothAsked
        BY <2>3, NextQuery DEF FilingsAsked
      <4> QED
        BY <2>3, <4>1, <4>2 DEF PageInv
    <3>4. got["filing"] = v.got["filing"] /\ "filing" \in DOMAIN got
      BY <1>10, <3>1, <3>3
    <3>5. Complete(LatestSuccessfulDaily("market_discovery"))
      BY <1>12, LatestDailyIs, SuccessIsComplete DEF Pipelines
    <3>6. got["discovery"].runs = LatestSuccessfulDaily("market_discovery")
          /\ got["discovery"].date \in Int
      BY <1>12, <3>2
    <3> QED
      BY <2>0, <3>1, <3>2, <3>3, <3>4, <3>5, <3>6 DEF PageInv
  <2>4. CASE v.todo \in BothAsked
    <3>1. query \in {"alerts", "context", "counts"} /\ u.todo \in BothAsked
      BY <1>2, <1>4, <2>0, <2>4, NextQuery
    <3>2. /\ {"filing", "discovery"} \subseteq DOMAIN v.got
          /\ Complete(v.got.filing) /\ Complete(v.got.discovery.runs)
          /\ v.got.discovery.date \in Int
          /\ Followed(v.got.filing, v.got.discovery.runs) \in latestSince
      BY <2>4 DEF PageInv, BothAsked, Unasked, FilingsAsked
    <3>3. got["filing"] = v.got["filing"] /\ got["discovery"] = v.got["discovery"]
          /\ {"filing", "discovery"} \subseteq DOMAIN got
      BY <1>10, <3>1, <3>2
    <3> QED
      BY <2>0, <3>1, <3>2, <3>3 DEF PageInv
  <2> QED
    BY <2>1, <2>2, <2>3, <2>4 DEF PageInv
<1>14. ViewInv'
  <2>1. u.page = v.page /\ u = [page |-> u.page, todo |-> u.todo, got |-> u.got]
    BY <1>8
  <2>2. PageInv(u) => PageInv(u)'
    BY <1>4, <1>11 DEF PageInv, Complete, Followed, LatestOf
  <2> QED
    BY <1>4, <1>6, <1>9, <1>11, <1>13, <2>1, <2>2 DEF ViewInv
<1>15. RunsInv' /\ CycleFollowsDailyRuns' /\ NewInv'
  BY <1>4, <1>6, <1>11 DEF DeskInv, RunsInv, CycleFollowsDailyRuns, NewInv
<1> QED
  BY <1>4, <1>14, <1>15 DEF DeskInv

\* The cycle of a page that has asked everything.
LEMMA CycleShown ==
    ASSUME RunsInv, NEW v, PageInv(v), v.todo = <<>>
    PROVE  /\ Cycle(v.got).run \in latestSince
           /\ Cycle(v.got).latest \in Int
           /\ Cycle(v.got).preceding = PreviousBusinessDay(Cycle(v.got).latest)
<1>1. /\ Complete(v.got.filing) /\ Complete(v.got.discovery.runs) /\ v.got.discovery.date \in Int
      /\ Followed(v.got.filing, v.got.discovery.runs) \in latestSince
  BY DEF PageInv, Unasked, FilingsAsked
<1>2. PICK run : run = LatestOf(v.got.filing \cup v.got.discovery.runs)
  OBVIOUS
<1>3. run \subseteq DOMAIN runs /\ run \in latestSince
  BY <1>1, <1>2 DEF LatestOf, Complete, Finished, Followed
<1>4. PICK latest : latest = IF run = {} THEN MostRecentBusinessDay(v.got.discovery.date)
                             ELSE runs[CHOOSE i \in run : TRUE].researchDay
  OBVIOUS
<1>5. latest \in Int
  <2>1. CASE run = {}
    BY <1>1, <1>4, <2>1, LastBusinessDayIs DEF MostRecentBusinessDay
  <2>2. CASE run # {}
    <3>1. PICK i : i = CHOOSE j \in run : TRUE
      OBVIOUS
    <3>2. i \in DOMAIN runs
      BY <1>3, <2>2, <3>1
    <3> QED
      BY <1>4, <2>2, <3>1, <3>2, RunFields
  <2> QED
    BY <2>1, <2>2
<1>6. Cycle(v.got) = [latest |-> latest, preceding |-> PreviousBusinessDay(latest), run |-> run]
  BY <1>2, <1>4 DEF Cycle
<1> QED
  BY <1>3, <1>5, <1>6

\* A page is shown.
LEMMA ShowKeeps == ASSUME DeskInv, Show PROVE DeskInv'
<1>1. PICK v : v = view
  OBVIOUS
<1>2. /\ v # Closed /\ v.todo = <<>> /\ screen' = Assembled(v.page, v.got)
      /\ newOn' = IF v.page # "brief" THEN newOn
                  ELSE [a \in Alerts |-> newOn[a] \cup
                          {d \in {screen'.cycle.latest} : a \in screen'.new}]
      /\ view' = Closed /\ UNCHANGED <<date, runs, latestSince>>
  BY <1>1 DEF Show
<1>3. v.page \in {"timeline", "page", "tiles"} \/ (v.page \in {"brief", "watchlist"} /\ PageInv(v))
  BY <1>1, <1>2 DEF DeskInv, ViewInv
<1>4. RunsInv
  BY DEF DeskInv
<1>5. PICK cycle : cycle = Cycle(v.got)
  OBVIOUS
<1>6. v.page \in {"brief", "watchlist"} =>
         /\ cycle.run \in latestSince /\ cycle.latest \in Int
         /\ cycle.preceding = PreviousBusinessDay(cycle.latest)
  BY <1>2, <1>3, <1>4, <1>5, CycleShown
<1>7. CASE v.page = "brief"
  <2>1. PICK new : new = {a \in v.got.alerts : IsNewDevelopment(a, cycle)}
    OBVIOUS
  <2>2. screen' = Brief(v.got)
    BY <1>2, <1>7 DEF Assembled
  <2>3. screen'.page = "brief" /\ screen'.cycle = cycle /\ screen'.new = new
    BY <1>5, <2>1, <2>2 DEF Brief
  <2>4. CycleFollowsDailyRuns'
    BY <1>2, <1>6, <1>7, <2>3 DEF CycleFollowsDailyRuns
  <2>5. newOn' = [a \in Alerts |-> newOn[a] \cup {d \in {cycle.latest} : a \in new}]
    BY <1>2, <1>7, <2>3
  <2>6. \A a \in new : cycle.preceding < a.asOf /\ a.asOf <= cycle.latest
    BY <2>1 DEF IsNewDevelopment
  <2>7. NewInv'
    <3>1. ASSUME NEW a \in Alerts, NEW d \in newOn'[a]
          PROVE  d \in Int /\ PreviousBusinessDay(d) < a.asOf /\ a.asOf <= d
      <4>1. d \in newOn[a] \/ (d = cycle.latest /\ a \in new)
        BY <2>5, <3>1
      <4>2. CASE d \in newOn[a]
        BY <4>2 DEF DeskInv, NewInv
      <4>3. CASE d = cycle.latest /\ a \in new
        BY <1>6, <1>7, <2>6, <4>3
      <4> QED
        BY <4>1, <4>2, <4>3
    <3>2. newOn' = [a \in Alerts |-> newOn'[a]]
      BY <2>5
    <3> QED
      BY <3>1, <3>2 DEF NewInv
  <2> QED
    BY <1>2, <1>4, <2>4, <2>7 DEF DeskInv, ViewInv, RunsInv, Finished
<1>8. CASE v.page = "watchlist"
  <2>1. screen' = WatchlistRows(v.got)
    BY <1>2, <1>8 DEF Assembled
  <2>2. screen'.cycle = cycle
    BY <1>5, <2>1 DEF WatchlistRows
  <2>3. CycleFollowsDailyRuns'
    BY <1>2, <1>6, <1>8, <2>2 DEF CycleFollowsDailyRuns
  <2> QED
    BY <1>2, <1>4, <1>8, <2>3 DEF DeskInv, ViewInv, RunsInv, Finished, NewInv
<1>9. CASE v.page \in {"timeline", "page", "tiles"}
  <2>1. screen'.page \in {"timeline", "page", "tiles"}
    BY <1>2, <1>9 DEF Assembled
  <2>2. CycleFollowsDailyRuns'
    BY <2>1 DEF CycleFollowsDailyRuns
  <2> QED
    BY <1>2, <1>4, <1>9, <2>2 DEF DeskInv, ViewInv, RunsInv, Finished, NewInv
<1> QED
  BY <1>3, <1>7, <1>8, <1>9

\* A run starts: nothing complete changes.
LEMMA RunAppended ==
    ASSUME RunsInv, NEW run \in RunRecords, run.status = "running", run.completed = 0,
           runs' = Append(runs, run)
    PROVE  /\ RunsInv' /\ Finished' = Finished
           /\ \A i \in DOMAIN runs : i \in DOMAIN runs' /\ runs'[i] = runs[i]
           /\ \A p : DailySuccess(p)' = DailySuccess(p)
<1> DEFINE n == Len(runs)
<1>1. /\ n \in Nat /\ DOMAIN runs = 1..n /\ DOMAIN runs' = 1..(n + 1) /\ runs' \in Seq(RunRecords)
      /\ runs'[n + 1] = run /\ \A i \in 1..n : runs'[i] = runs[i]
  BY DEF RunsInv
<1>2. \A i \in 1..(n + 1) : i \in 1..n \/ i = n + 1
  BY <1>1
<1>3. \A i \in 1..n : i \in 1..(n + 1)
  BY <1>1
<1>4. Finished' = Finished
  BY <1>1, <1>2, <1>3 DEF Finished
<1>5. \A p : DailySuccess(p)' = DailySuccess(p)
  BY <1>1, <1>2, <1>3 DEF DailySuccess
<1>6. \A i \in DOMAIN runs' : /\ runs'[i].status = "running" <=> runs'[i].completed = 0
                              /\ runs'[i].completed <= Cardinality(Finished)
  <2> SUFFICES ASSUME NEW i \in DOMAIN runs'
               PROVE  /\ runs'[i].status = "running" <=> runs'[i].completed = 0
                      /\ runs'[i].completed <= Cardinality(Finished)
    OBVIOUS
  <2>1. CASE i \in 1..n
    BY <1>1, <2>1 DEF RunsInv
  <2>2. CASE i = n + 1
    BY <1>1, <2>2, FinishedFinite
  <2> QED
    BY <1>1, <1>2, <2>1, <2>2
<1>7. RunsInv'
  BY <1>1, <1>4, <1>6 DEF RunsInv
<1> QED
  BY <1>1, <1>3, <1>4, <1>5, <1>7

\* The fields of runs after a step.
LEMMA NextRunFields ==
    ASSUME RunsInv'
    PROVE  \A i \in DOMAIN runs' : /\ runs'[i].completed \in Nat /\ runs'[i].mode \in Modes
                                    /\ runs'[i].pipeline \in Pipelines
<1> SUFFICES ASSUME NEW i \in DOMAIN runs'
             PROVE /\ runs'[i].completed \in Nat /\ runs'[i].mode \in Modes
                   /\ runs'[i].pipeline \in Pipelines
  OBVIOUS
<1>1. runs'[i] \in RunRecords
  BY DEF RunsInv
<1> QED
  BY <1>1 DEF RunRecords

\* A run that ends completes after all that are complete.
LEMMA RunEnds ==
    ASSUME RunsInv, NEW i \in DOMAIN runs, NEW status \in {"success", "errors"}, FinishRun(i, status)
    PROVE  /\ RunsInv' /\ DOMAIN runs' = DOMAIN runs /\ Finished' = Finished \cup {i}
           /\ i \notin Finished
           /\ \A j \in DOMAIN runs \ {i} : runs'[j] = runs[j]
           /\ \A j \in Finished : runs'[j] = runs[j] /\ runs'[j].completed < runs'[i].completed
           /\ runs'[i].status = status /\ runs'[i].mode = runs[i].mode
           /\ runs'[i].pipeline = runs[i].pipeline
<1> DEFINE n == Cardinality(Finished)
<1>1. runs[i].status = "running" /\ runs[i].completed = 0 /\ i \notin Finished
  <2>1. runs[i].status = "running"
    BY DEF FinishRun
  <2>2. runs[i].completed = 0
    BY <2>1 DEF RunsInv
  <2> QED
    BY <2>1, <2>2 DEF Finished
<1>2. n \in Nat /\ IsFiniteSet(Finished)
  BY FinishedFinite
<1>3. Finished = {j \in DOMAIN runs : runs[j].completed > 0}
  BY DEF Finished
<1>4. PICK r : r = [runs[i] EXCEPT !.status = status]
  OBVIOUS
<1>5. r = [pipeline |-> runs[i].pipeline, mode |-> runs[i].mode, status |-> status,
           researchDay |-> runs[i].researchDay, completed |-> runs[i].completed]
  BY <1>4, RunFields
<1>6. PICK q : q = [r EXCEPT !.completed = 1 + n]
  OBVIOUS
<1>7. q = [pipeline |-> runs[i].pipeline, mode |-> runs[i].mode, status |-> status,
           researchDay |-> runs[i].researchDay, completed |-> 1 + n]
  BY <1>5, <1>6
<1>8. runs' = [runs EXCEPT ![i] = q]
  <2>1. runs' = [runs EXCEPT ![i].status = status, ![i].completed = 1 + n]
    BY <1>3 DEF FinishRun
  <2>2. runs \in Seq(RunRecords) /\ runs = [j \in DOMAIN runs |-> runs[j]]
    BY DEF RunsInv
  <2>3. /\ DOMAIN runs' = DOMAIN runs /\ runs' = [j \in DOMAIN runs |-> runs'[j]]
        /\ \A j \in DOMAIN runs \ {i} : runs'[j] = runs[j]
        /\ runs'[i] = [[runs[i] EXCEPT !.status = status] EXCEPT !.completed = 1 + n]
    BY <2>1, <2>2
  <2>4. runs'[i] = q
    BY <1>4, <1>6, <2>3, Zenon
  <2> QED
    BY <2>2, <2>3, <2>4
<1>9. q \in RunRecords
  <2>1. runs[i].researchDay \in 0..LastDay /\ runs[i].mode \in Modes /\ runs[i].pipeline \in Pipelines
    BY RunFields DEF RunRecords
  <2> QED
    BY <1>2, <1>7, <2>1 DEF RunRecords
<1>10. /\ runs' \in Seq(RunRecords) /\ DOMAIN runs' = DOMAIN runs /\ runs'[i] = q
       /\ \A j \in DOMAIN runs \ {i} : runs'[j] = runs[j]
  BY <1>8, <1>9 DEF RunsInv
<1>11. Finished' = Finished \cup {i}
  BY <1>2, <1>7, <1>10 DEF Finished
<1>12. Cardinality(Finished') = n + 1
  BY <1>1, <1>2, <1>11, FS_AddElement
<1>13. \A j \in DOMAIN runs' : /\ runs'[j].status = "running" <=> runs'[j].completed = 0
                               /\ runs'[j].completed <= n + 1
  <2> SUFFICES ASSUME NEW j \in DOMAIN runs
               PROVE  /\ runs'[j].status = "running" <=> runs'[j].completed = 0
                      /\ runs'[j].completed <= n + 1
    BY <1>10
  <2>1. CASE j = i
    BY <1>2, <1>7, <1>10, <2>1
  <2>2. CASE j # i
    <3>1. runs'[j] = runs[j] /\ runs[j].completed \in Nat /\ runs[j].completed <= n
      BY <1>10, <2>2, RunFields DEF RunsInv
    <3> QED
      BY <1>2, <3>1 DEF RunsInv
  <2> QED
    BY <2>1, <2>2
<1>14. RunsInv'
  BY <1>10, <1>12, <1>13 DEF RunsInv
<1>15. ASSUME NEW j \in Finished PROVE runs'[j] = runs[j] /\ runs'[j].completed < runs'[i].completed
  <2>1. j \in DOMAIN runs /\ j # i
    BY <1>1 DEF Finished
  <2>2. runs'[j] = runs[j] /\ runs[j].completed \in Nat /\ runs[j].completed <= n
    BY <1>10, <2>1, RunFields DEF RunsInv
  <2>3. runs'[i].completed = 1 + n
    BY <1>7, <1>10
  <2> QED
    BY <1>2, <2>2, <2>3
<1> QED
  BY <1>1, <1>7, <1>10, <1>11, <1>14, <1>15

\* What was read of complete runs says the same after a step that changes none.
LEMMA FollowedStays ==
    ASSUME NEW F, NEW D, Complete(F), Complete(D), \A i \in Finished : runs'[i] = runs[i]
    PROVE  Followed(F, D)' = Followed(F, D)
<1>1. \A i \in F \cup D : runs'[i] = runs[i]
  BY DEF Complete
<1>2. LatestOf(F \cup D)' = LatestOf(F \cup D)
  BY <1>1, LatestStays
<1> QED
  BY <1>2 DEF Followed

\* The daily runs of each pipeline have not changed, or one more run is the latest.
LEMMA PageFollows ==
    ASSUME RunsInv, RunsInv', NEW v, PageInv(v), latestSince \subseteq latestSince',
           Finished \subseteq Finished', \A i \in Finished : runs'[i] = runs[i],
           \/ DailySuccess("market_discovery")' = DailySuccess("market_discovery")
           \/ \E i \in Finished' \ Finished :
                /\ LatestSuccessfulDaily("market_discovery")' = {i}
                /\ {i} \in latestSince'
                /\ \A j \in Finished : runs'[j].completed < runs'[i].completed
    PROVE  PageInv(v)'
<1>1. \A S : Complete(S) => Complete(S)'
  BY DEF Complete
<1>2. CASE v.todo \in Unasked
  BY <1>2 DEF PageInv
<1>3. CASE /\ v.todo \in FilingsAsked /\ "filing" \in DOMAIN v.got /\ Complete(v.got.filing)
           /\ Followed(v.got.filing, LatestSuccessfulDaily("market_discovery")) \in latestSince
  <2>1. PICK F : F = v.got.filing
    OBVIOUS
  <2>2. PICK D : D = LatestSuccessfulDaily("market_discovery")
    OBVIOUS
  <2>3. D = LatestOf(DailySuccess("market_discovery")) /\ Complete(D)
        /\ Complete(DailySuccess("market_discovery"))
    BY <2>2, LatestDailyIs, SuccessIsComplete DEF Pipelines
  <2>4. CASE DailySuccess("market_discovery")' = DailySuccess("market_discovery")
    <3>1. PICK S : S = DailySuccess("market_discovery")
      OBVIOUS
    <3>2. LatestOf(S)' = LatestOf(S)
      BY <2>3, <3>1, LatestStays DEF Complete
    <3>3. LatestSuccessfulDaily("market_discovery")' = LatestOf(DailySuccess("market_discovery"))'
      <4>1. {i \in Successful("market_discovery") : runs[i].mode \in Daily}'
              = DailySuccess("market_discovery")'
        BY DEF Successful, DailySuccess
      <4> QED
        BY <4>1 DEF LatestSuccessfulDaily, LatestOf
    <3>4. LatestSuccessfulDaily("market_discovery")' = D
      BY <2>3, <2>4, <3>1, <3>2, <3>3
    <3>5. Followed(F, D)' = Followed(F, D)
      BY <1>3, <2>1, <2>3, FollowedStays
    <3>6. Followed(F, LatestSuccessfulDaily("market_discovery"))' = Followed(F, D)
      BY <3>4, <3>5 DEF Followed, LatestOf
    <3> QED
      BY <1>1, <1>3, <2>1, <2>2, <3>6 DEF PageInv
  <2>5. ASSUME NEW i \in Finished' \ Finished,
               LatestSuccessfulDaily("market_discovery")' = {i},
               {i} \in latestSince',
               \A j \in Finished : runs'[j].completed < runs'[i].completed
        PROVE  PageInv(v)'
    <3>1. \A j \in Finished : runs'[j].completed \in Nat /\ runs'[i].completed \in Nat
      <4>1. \A j \in Finished' : j \in DOMAIN runs'
        BY DEF Finished
      <4>2. \A j \in DOMAIN runs' : runs'[j].completed \in Nat
        BY NextRunFields
      <4> QED
        BY <4>1, <4>2
    <3>2. F \subseteq Finished
      BY <1>3, <2>1 DEF Complete
    <3>3. {k \in F \cup {i} : \A j \in F \cup {i} : runs'[j].completed <= runs'[k].completed} = {i}
      <4>1. runs'[i].completed \in Nat
        <5>1. i \in DOMAIN runs'
          BY <2>5 DEF Finished
        <5>2. runs'[i] \in RunRecords
          BY <5>1 DEF RunsInv
        <5> QED
          BY <5>2 DEF RunRecords
      <4>2. \A j \in F : runs'[j].completed \in Nat /\ runs'[j].completed < runs'[i].completed
        BY <2>5, <3>1, <3>2
      <4> QED
        BY <4>1, <4>2
    <3>4. Followed(F, LatestSuccessfulDaily("market_discovery"))' = {i}
      BY <2>5, <3>3 DEF Followed, LatestOf
    <3> QED
      BY <1>1, <1>3, <2>1, <2>5, <3>4 DEF PageInv
  <2> QED
    BY <2>4, <2>5
<1>4. CASE /\ v.todo \in BothAsked /\ {"filing", "discovery"} \subseteq DOMAIN v.got
           /\ Complete(v.got.filing) /\ Complete(v.got.discovery.runs)
           /\ v.got.discovery.date \in Int
           /\ Followed(v.got.filing, v.got.discovery.runs) \in latestSince
  <2>1. Followed(v.got.filing, v.got.discovery.runs)' = Followed(v.got.filing, v.got.discovery.runs)
    BY <1>4, FollowedStays
  <2> QED
    BY <1>1, <1>4, <2>1 DEF PageInv
<1> QED
  BY <1>2, <1>3, <1>4 DEF PageInv

\* A view that is not touched goes on while runs start and end.
LEMMA ViewGoesOn ==
    ASSUME DeskInv, RunsInv', UNCHANGED <<date, view, screen, newOn>>,
           latestSince \subseteq latestSince', LastDailySuccess' \in latestSince' \/ view = Closed,
           Finished \subseteq Finished', \A i \in Finished : runs'[i] = runs[i],
           \/ DailySuccess("market_discovery")' = DailySuccess("market_discovery")
           \/ \E i \in Finished' \ Finished :
                /\ LatestSuccessfulDaily("market_discovery")' = {i}
                /\ {i} \in latestSince'
                /\ \A j \in Finished : runs'[j].completed < runs'[i].completed
    PROVE  DeskInv'
<1>1. PICK v : v = view
  OBVIOUS
<1>2. PageInv(v) => PageInv(v)'
  BY PageFollows DEF DeskInv
<1>3. ViewInv'
  <2>1. CASE view = Closed
    BY <2>1 DEF ViewInv
  <2>2. CASE view # Closed
    BY <1>1, <1>2, <2>2 DEF DeskInv, ViewInv
  <2> QED
    BY <2>1, <2>2
<1>4. CycleFollowsDailyRuns' /\ NewInv'
  BY DEF DeskInv, CycleFollowsDailyRuns, NewInv
<1> QED
  BY <1>3, <1>4 DEF DeskInv

\* The sets of runs that the queries and the history look at, after a step.
LEMMA LatestNext ==
    ASSUME RunsInv, RunsInv'
    PROVE  /\ \A p : LatestSuccessfulDaily(p)' = LatestOf(DailySuccess(p))'
           /\ LastDailySuccess' =
                LatestOf(DailySuccess("filing_monitor") \cup DailySuccess("market_discovery"))'
<1>1. \A p : {i \in Successful(p) : runs[i].mode \in Daily}' = DailySuccess(p)'
  BY DEF Successful, DailySuccess
<1>2. \A i \in DOMAIN runs' : runs'[i].mode \in Modes /\ runs'[i].pipeline \in Pipelines
  BY NextRunFields
<1>3. {i \in DOMAIN runs : runs[i].status = "success" /\ runs[i].mode # "backfill"}'
        = (DailySuccess("filing_monitor") \cup DailySuccess("market_discovery"))'
  BY <1>2 DEF DailySuccess, Modes, Daily, Pipelines
<1>4. \A p : LatestSuccessfulDaily(p)' = LatestOf(DailySuccess(p))'
  BY <1>1 DEF LatestSuccessfulDaily, LatestOf
<1> QED
  BY <1>3, <1>4 DEF LastDailySuccess, LatestOf

\* The last daily success is the same when the runs that finished are.
LEMMA LastStays ==
    ASSUME RunsInv, RunsInv', \A i \in Finished : runs'[i] = runs[i],
           \A p : DailySuccess(p)' = DailySuccess(p)
    PROVE  LastDailySuccess' = LastDailySuccess
<1>1. PICK S : S = DailySuccess("filing_monitor") \cup DailySuccess("market_discovery")
  OBVIOUS
<1>2. \A i \in S : runs'[i] = runs[i]
  BY <1>1, SuccessIsComplete DEF Complete
<1>3. LatestOf(S)' = LatestOf(S)
  BY <1>2, LatestStays
<1>4. LastDailySuccess' = LatestOf(S)'
  BY <1>1, LatestNext DEF LatestOf
<1>5. LastDailySuccess = LatestOf(S)
  BY <1>1, LatestDailyIs
<1> QED
  BY <1>3, <1>4, <1>5

\* A run starts: no page depends on it yet.
LEMMA StartKeeps ==
    ASSUME DeskInv, NEW p \in Pipelines, NEW m \in Modes, NEW d \in 0..LastDay, StartRun(p, m, d)
    PROVE  DeskInv'
<1>1. PICK run : run = [pipeline |-> p, mode |-> m, status |-> "running", researchDay |-> d,
                        completed |-> 0]
  OBVIOUS
<1>2. /\ run \in RunRecords /\ run.status = "running" /\ run.completed = 0
      /\ runs' = Append(runs, run) /\ UNCHANGED <<date, view, screen, latestSince, newOn>>
  BY <1>1 DEF StartRun, RunRecords
<1>3. /\ RunsInv' /\ Finished' = Finished
      /\ \A i \in DOMAIN runs : i \in DOMAIN runs' /\ runs'[i] = runs[i]
      /\ \A q : DailySuccess(q)' = DailySuccess(q)
  BY <1>2, RunAppended DEF DeskInv
<1>4. \A i \in Finished : runs'[i] = runs[i]
  BY <1>3 DEF Finished
<1>5. LastDailySuccess' = LastDailySuccess
  BY <1>3, <1>4, LastStays DEF DeskInv
<1>6. LastDailySuccess' \in latestSince' \/ view = Closed
  BY <1>2, <1>5 DEF DeskInv, ViewInv
<1> QED
  BY <1>2, <1>3, <1>4, <1>6, ViewGoesOn

\* A run ends, and is the latest from now on when it succeeded.
LEMMA FinishKeeps ==
    ASSUME DeskInv, NEW i \in DOMAIN runs, NEW status \in {"success", "errors"}, FinishRun(i, status)
    PROVE  DeskInv'
<1>1. /\ latestSince' = latestSince \cup {LastDailySuccess'}
      /\ UNCHANGED <<date, view, screen, newOn>>
  BY DEF FinishRun
<1>2. RunsInv
  BY DEF DeskInv
<1>3. /\ RunsInv' /\ DOMAIN runs' = DOMAIN runs /\ Finished' = Finished \cup {i} /\ i \notin Finished
      /\ \A j \in DOMAIN runs \ {i} : runs'[j] = runs[j]
      /\ \A j \in Finished : runs'[j] = runs[j] /\ runs'[j].completed < runs'[i].completed
      /\ runs'[i].status = status /\ runs'[i].mode = runs[i].mode
      /\ runs'[i].pipeline = runs[i].pipeline
  BY <1>2, RunEnds
<1>4. runs[i].status = "running"
  BY DEF FinishRun
<1>5. CASE status = "success" /\ runs[i].mode \in Daily /\ runs[i].pipeline = "market_discovery"
  <2>1. /\ DailySuccess("market_discovery")' = DailySuccess("market_discovery") \cup {i}
        /\ DailySuccess("filing_monitor")' = DailySuccess("filing_monitor")
    BY <1>3, <1>4, <1>5 DEF DailySuccess
  <2>2. /\ DailySuccess("market_discovery") \subseteq Finished
        /\ DailySuccess("filing_monitor") \subseteq Finished
    BY <1>2, SuccessIsComplete DEF Complete
  <2>3. \A j \in Finished : runs'[j].completed \in Nat /\ runs'[i].completed \in Nat
    BY <1>3, NextRunFields DEF Finished
  <2>4. runs'[i].completed <= runs'[i].completed
    <3>1. runs'[i] \in RunRecords
      BY <1>3 DEF RunsInv
    <3> QED
      BY <3>1 DEF RunRecords
  <2>5. \A S : S \subseteq Finished =>
           {k \in S \cup {i} : \A j \in S \cup {i} : runs'[j].completed <= runs'[k].completed} = {i}
    BY <1>3, <2>3, <2>4
  <2>6. LatestSuccessfulDaily("market_discovery")' = {i}
    BY <1>2, <1>3, <2>1, <2>2, <2>5, LatestNext DEF LatestOf
  <2>7. LastDailySuccess' = {i}
    <3>1. PICK S : S = DailySuccess("filing_monitor") \cup DailySuccess("market_discovery")
      OBVIOUS
    <3>2. (DailySuccess("filing_monitor") \cup DailySuccess("market_discovery"))' = S \cup {i}
      BY <2>1, <3>1
    <3>3. LastDailySuccess' =
            {k \in S \cup {i} : \A j \in S \cup {i} : runs'[j].completed <= runs'[k].completed}
      BY <1>2, <1>3, <3>2, LatestNext DEF LatestOf
    <3> QED
      BY <2>2, <2>5, <3>1, <3>3
  <2>8. i \in Finished' \ Finished /\ {i} \in latestSince'
    BY <1>1, <1>3, <2>7
  <2> QED
    BY <1>1, <1>3, <2>6, <2>8, ViewGoesOn
<1>6. CASE ~(status = "success" /\ runs[i].mode \in Daily /\ runs[i].pipeline = "market_discovery")
  <2>1. DailySuccess("market_discovery")' = DailySuccess("market_discovery")
    BY <1>3, <1>4, <1>6 DEF DailySuccess
  <2> QED
    BY <1>1, <1>3, <2>1, ViewGoesOn
<1> QED
  BY <1>5, <1>6

\* The desk starts with no runs and no page open.
LEMMA DeskStarts == ASSUME DeskInit PROVE DeskInv
<1>1. runs = <<>> /\ date = 0 /\ view = Closed /\ screen = [page |-> "none"]
      /\ newOn = [a \in Alerts |-> {}]
  BY DEF DeskInit
<1>2. RunsInv
  BY <1>1 DEF RunsInv
<1>3. CycleFollowsDailyRuns
  BY <1>1 DEF CycleFollowsDailyRuns
<1> QED
  BY <1>1, <1>2, <1>3 DEF DeskInv, ViewInv, NewInv

\* The invariant of the desk: the cycle in hand is that of runs that were the
\* latest, and an alert is new in the cycle it falls into.
THEOREM DeskInvariant == DeskSpec => []DeskInv
<1>1. DeskInit => DeskInv
  BY DeskStarts
<1>2. DeskInv /\ [DeskNext]_deskVars => DeskInv'
  <2> SUFFICES ASSUME DeskInv, [DeskNext]_deskVars PROVE DeskInv'
    OBVIOUS
  <2>1. ASSUME NEW which \in {"brief", "watchlist", "timeline", "page", "tiles"}, Open(which)
        PROVE  DeskInv'
    BY <2>1, OpenKeeps
  <2>2. CASE Query
    BY <2>2, QueryKeeps
  <2>3. CASE Show
    BY <2>3, ShowKeeps
  <2>4. CASE Midnight
    BY <2>4, PageWaits DEF Midnight, DeskInv
  <2>5. ASSUME NEW p \in Pipelines, NEW m \in Modes, NEW d \in 0..LastDay, StartRun(p, m, d)
        PROVE  DeskInv'
    BY <2>5, StartKeeps
  <2>6. ASSUME NEW i \in DOMAIN runs, NEW s \in {"success", "errors"}, FinishRun(i, s)
        PROVE  DeskInv'
    BY <2>6, FinishKeeps
  <2>7. ASSUME NEW a \in Alerts, Raise(a) PROVE DeskInv'
    BY <2>7, PageWaits DEF Raise, DeskInv
  <2>8. ASSUME NEW a \in Alerts, NEW s \in {"acknowledged", "dismissed"}, Settle(a, s) PROVE DeskInv'
    BY <2>8, PageWaits DEF Settle, DeskInv
  <2>9. ASSUME NEW i \in Issuers, NEW l \in Lists, ChangeList(i, l) PROVE DeskInv'
    BY <2>9, PageWaits DEF ChangeList, DeskInv
  <2>10. CASE UNCHANGED deskVars
    BY <2>10, PageWaits DEF deskVars, DeskInv
  <2> QED
    BY <2>1, <2>2, <2>3, <2>4, <2>5, <2>6, <2>7, <2>8, <2>9, <2>10 DEF DeskNext
<1> QED
  BY <1>1, <1>2, PTL DEF DeskSpec

\* A brief follows a run that was the latest while it was assembled, and takes no
\* alert for new on two business days.
THEOREM BriefKeepsCycle == DeskSpec => []BriefKeepsItsCycle
<1>1. DeskInv => BriefKeepsItsCycle
  <2> SUFFICES ASSUME DeskInv PROVE BriefKeepsItsCycle
    OBVIOUS
  <2>1. NewOncePerBusinessDay
    <3> SUFFICES ASSUME NEW a \in Alerts
                 PROVE  Cardinality({d \in newOn[a] : BusinessDay(d)}) <= 1
      BY DEF NewOncePerBusinessDay
    <3>1. \A d \in newOn[a] : d \in Int /\ PreviousBusinessDay(d) < a.asOf /\ a.asOf <= d
      BY DEF DeskInv, NewInv
    <3>2. a.asOf \in Int
      BY DeskAssumption
    <3>3. \A d, e \in {c \in newOn[a] : BusinessDay(c)} : d = e
      BY <3>1, <3>2, NewOnOneDay
    <3> QED
      BY <3>3, AtMostOne
  <2> QED
    BY <2>1 DEF DeskInv, BriefKeepsItsCycle
<1> QED
  BY <1>1, DeskInvariant, PTL

-----------------------------------------------------------------------------
(* Demo data: what a row looks like, and what it refers to.                *)

OwnTables == {"issuer", "security", "position", "provenance", "calculation", "input"}

RowFits(r) ==
    /\ r.issuer \in AllIssuers
    /\ r.table \in OwnTables \cup Research
    /\ r.table = "issuer" => r = Issuer(r.issuer)
    /\ r.table = "security" => r = Security(r.issuer, r.layer)
    /\ r.table = "position" => r = Position(r.issuer, r.layer)
    /\ r.table = "provenance" =>
          /\ r = Source(r.issuer, r.layer, r.role)
          /\ r.role \in {"issuer", "value", "principal", "position"}
          /\ r.role \in {"issuer", "value"} => r.layer = 0
          /\ r.role = "value" => r.issuer = "demo"
          /\ r.role = "principal" /\ r.issuer = "demo" => r.layer \in Layers \cup {0}
    /\ r.table = "calculation" => r = Calculation("demo", r.layer)
    /\ r.table = "input" =>
          /\ r.issuer = "demo" /\ r.calculation = Calculation("demo", r.calculation.layer)
          /\ r.of = Source("demo", r.of.layer, r.of.role)

\* A source that names a row is there for the row, but for what a deletion left.
SourcesUsed(db) ==
    /\ \A i \in AllIssuers : \A l : Source(i, l, "position") \in db \ orphans => Position(i, l) \in db
    /\ \A i \in AllIssuers : \A l : Source(i, l, "principal") \in db \ orphans /\ HasSecurity(i, l) =>
          Security(i, l) \in db
    /\ \A l : Calculation("demo", l) \in db => Source("demo", l, "position") \in db

RowsInv(db) ==
    /\ \A r \in db : RowFits(r)
    /\ Consistent(db)
    /\ SourcesUsed(db)

NoCalculated(r) == r.issuer = "demo" => r.role # "position"
OrphansInv == \A r \in orphans : r.table = "provenance" /\ NoCalculated(r)

\* What has come since the last check: every real security among it, and nothing
\* that belongs to a calculation.
LateInv(i, late) ==
    /\ \A r \in late : /\ r \in rows /\ r.issuer = i
                       /\ r.table \in {"security", "position", "provenance"} \cup Research
                       /\ r.table = "provenance" => NoCalculated(r)
    /\ Security(i, 0) \in rows => {Security(i, 0), Source(i, 0, "principal")} \subseteq late

\* What was read is all there is, but for what has come since.
ReadInv(i, sources, calculations, late) ==
    /\ sources \subseteq RowsOf(rows, "provenance", i)
    /\ RowsOf(rows, "provenance", i) \subseteq ((sources \cup Unowned(i)) \cup late) \cup orphans
    /\ calculations = RowsOf(rows, "calculation", i)
    /\ Source(i, 0, "principal") \in sources => Source(i, 0, "principal") \in late

\* What is deleted can go, and is not real unless it came since.
GoneInv(i, gone, late) ==
    /\ \A r \in gone : r \in rows /\ r.issuer = i /\ r.table \in OwnTables /\ (RealRow(r) => r \in late)
    /\ Consistent(rows \ gone)

\* What the statements so far have deleted.
DoneInv(i, n, sources, calculations, gone, late) ==
    /\ n \in 1..7
    /\ n > 1 => RowsOf(rows, "input", i) \subseteq gone
    /\ n > 2 => RowsOf(rows, "position", i) \subseteq gone \cup late
    /\ n > 3 => RowsOf(rows, "security", i) \subseteq gone \cup late
    /\ n > 4 => Issuer(i) \in gone
    /\ n > 5 => sources \subseteq gone
    /\ n > 6 => calculations \subseteq gone

CleanupInv ==
    /\ cleanup = [issuer |-> cleanup.issuer, unchecked |-> cleanup.unchecked, outcome |-> cleanup.outcome]
    /\ deletion = [sources |-> deletion.sources, calculations |-> deletion.calculations,
                   gone |-> deletion.gone, next |-> deletion.next, late |-> deletion.late]
    /\ Deleting => cleanup.issuer \in Synthetic /\ Issuer(cleanup.issuer) \in rows
    /\ cleanup.outcome \notin {"checked", "deleting"} => deletion = NoDeletion
    /\ cleanup.outcome = "checked" => deletion.gone = {}
    /\ cleanup.outcome \in {"checked", "deleting"} => LateInv(cleanup.issuer, deletion.late)
    /\ cleanup.outcome = "deleting" =>
          /\ ReadInv(cleanup.issuer, deletion.sources, deletion.calculations, deletion.late)
          /\ GoneInv(cleanup.issuer, deletion.gone, deletion.late)
          /\ DoneInv(cleanup.issuer, deletion.next, deletion.sources, deletion.calculations,
                     deletion.gone, deletion.late)

PageSourced == \A s \in page.shown : s.source # {}

SynthInv == RowsInv(rows) /\ OrphansInv /\ CleanupInv /\ PageSourced

\* The rows a row refers to, by table.
LEMMA RefsBy ==
    ASSUME NEW r, RowFits(r)
    PROVE  /\ r.table = "issuer" => Refs(r) = {Source(r.issuer, 0, "issuer")}
           /\ r.table = "security" => Refs(r) = {Issuer(r.issuer), Source(r.issuer, r.layer, "principal")}
           /\ r.table = "position" =>
                 /\ {Issuer(r.issuer), Source(r.issuer, r.layer, "position")} \subseteq Refs(r)
                 /\ HasSecurity(r.issuer, r.layer) => Security(r.issuer, r.layer) \in Refs(r)
                 /\ Refs(r) \subseteq {Issuer(r.issuer), Source(r.issuer, r.layer, "position"),
                                       Security(r.issuer, r.layer)}
           /\ r.table = "provenance" =>
                 /\ r.issuer = "demo" /\ r.role = "position" => Calculation("demo", r.layer) \in Refs(r)
                 /\ Refs(r) # {} => r.issuer = "demo" /\ r.role = "position"
                 /\ Refs(r) \subseteq {Calculation("demo", r.layer)}
           /\ r.table = "calculation" => Refs(r) = {}
           /\ r.table = "input" => Refs(r) = {r.calculation, r.of}
           /\ r.table \in Research => Refs(r) = {Issuer(r.issuer)}
<1>1. CASE r.table = "issuer"
  BY <1>1, SyntheticAssumption DEF Refs
<1>2. CASE r.table = "security"
  BY <1>2, SyntheticAssumption DEF Refs
<1>3. CASE r.table = "position"
  BY <1>3, SyntheticAssumption DEF Refs
<1>4. CASE r.table = "provenance"
  BY <1>4, SyntheticAssumption DEF Refs
<1>5. CASE r.table = "calculation"
  BY <1>5, SyntheticAssumption DEF Refs
<1>6. CASE r.table = "input"
  BY <1>6, SyntheticAssumption DEF Refs
<1>7. CASE r.table \in Research
  <2>1. r.table \notin OwnTables
    BY <1>7, SyntheticAssumption DEF OwnTables
  <2>2. Refs(r) = {Issuer(r.issuer)}
    BY <2>1 DEF Refs, OwnTables
  <2> QED
    BY <2>1, <2>2 DEF OwnTables
<1> QED
  BY <1>1, <1>2, <1>3, <1>4, <1>5, <1>6, <1>7 DEF RowFits, OwnTables

\* The kinds of rows, by their fields.
LEMMA RowKinds ==
    ASSUME NEW i, NEW l, NEW role
    PROVE  /\ Issuer(i).table = "issuer" /\ Issuer(i).issuer = i
           /\ Security(i, l).table = "security" /\ Security(i, l).issuer = i /\ Security(i, l).layer = l
           /\ Position(i, l).table = "position" /\ Position(i, l).issuer = i /\ Position(i, l).layer = l
           /\ Source(i, l, role).table = "provenance" /\ Source(i, l, role).issuer = i
           /\ Source(i, l, role).layer = l /\ Source(i, l, role).role = role
           /\ Calculation(i, l).table = "calculation" /\ Calculation(i, l).issuer = i
           /\ Calculation(i, l).layer = l
BY DEF Issuer, Security, Position, Source, Calculation, Row

\* What a row refers to is of its issuer, and of a table that is deleted later.
LEMMA RefsAreOwn ==
    ASSUME NEW r, RowFits(r), NEW q \in Refs(r)
    PROVE  /\ q.issuer = r.issuer
           /\ q.table \in {"issuer", "security", "provenance", "calculation"}
           /\ q.table = "security" => r.table = "position"
           /\ q.table = "issuer" => q = Issuer(r.issuer) /\ r.table \in {"security", "position"} \cup Research
           /\ q.table = "provenance" => r.table \in {"issuer", "security", "position", "input"}
           /\ q.table = "calculation" =>
                 \/ r.table = "input"
                 \/ r.table = "provenance" /\ r.issuer = "demo" /\ r.role = "position"
<1>1. r.table \in {"issuer", "security", "position", "provenance", "calculation", "input"} \cup Research
  BY DEF RowFits, OwnTables
<1>2. CASE r.table = "issuer"
  BY <1>2, RefsBy, RowKinds
<1>3. CASE r.table = "security"
  BY <1>3, RefsBy, RowKinds
<1>4. CASE r.table = "position"
  BY <1>4, RefsBy, RowKinds
<1>5. CASE r.table = "provenance"
  BY <1>5, RefsBy, RowKinds
<1>6. CASE r.table = "calculation"
  BY <1>6, RefsBy
<1>7. CASE r.table = "input"
  BY <1>7, RefsBy, RowKinds DEF RowFits
<1>8. CASE r.table \in Research
  BY <1>8, RefsBy, RowKinds
<1> QED
  BY <1>1, <1>2, <1>3, <1>4, <1>5, <1>6, <1>7, <1>8

-----------------------------------------------------------------------------
(* The deletion of an issuer, statement by statement.                      *)

\* What is read before the first statement is all that is the issuer's.
LEMMA ReadsOwned ==
    ASSUME RowsInv(rows), OrphansInv, NEW i \in Synthetic, Issuer(i) \in rows,
           NEW late, LateInv(i, late),
           NEW sources, sources = SourcesOf(rows, Owned(i)),
           NEW calculations,
           calculations = {r \in rows : r.table = "calculation" /\ \E s \in sources : r \in Refs(s)}
    PROVE  ReadInv(i, sources, calculations, late)
<1>2. \A r \in rows : RowFits(r) /\ r.issuer \in AllIssuers
  BY DEF RowsInv, RowFits
<1>3. \A r \in Owned(i) : r \in rows /\ r.issuer = i
  BY RowKinds DEF Owned, RowsOf
<1>4. sources \subseteq RowsOf(rows, "provenance", i)
  <2> SUFFICES ASSUME NEW r \in sources PROVE r.issuer = i
    BY DEF SourcesOf, RowsOf
  <2>1. PICK o \in Owned(i) : r \in Refs(o)
    BY DEF SourcesOf
  <2> QED
    BY <1>2, <1>3, <2>1, RefsAreOwn
<1>5. ASSUME NEW r \in RowsOf(rows, "provenance", i), r \notin orphans
      PROVE  r \in sources \/ r \in Unowned(i)
  <2>1. /\ r \in rows /\ r = Source(i, r.layer, r.role) /\ i \in AllIssuers
        /\ r.table = "provenance" /\ RowFits(r)
    BY <1>2 DEF RowsOf, RowFits
  <2>2. r.role \in {"issuer", "value", "principal", "position"}
    BY <2>1 DEF RowFits
  <2>3. CASE r.role = "issuer"
    <3>1. r = Source(i, 0, "issuer")
      BY <2>1, <2>3 DEF RowFits
    <3>2. Issuer(i) \in Owned(i) /\ r \in Refs(Issuer(i))
      BY <1>2, <3>1, RefsBy, RowKinds DEF Owned
    <3> QED
      BY <2>1, <3>2 DEF SourcesOf
  <2>4. CASE r.role = "value"
    <3>1. r.issuer = "demo" /\ r.layer = 0
      BY <2>1, <2>4 DEF RowFits
    <3> QED
      BY <2>1, <2>4, <3>1, RowKinds DEF Unowned
  <2>5. CASE r.role = "principal" /\ HasSecurity(i, r.layer)
    <3>1. Security(i, r.layer) \in rows
      BY <1>5, <2>1, <2>5 DEF RowsInv, SourcesUsed
    <3>2. Security(i, r.layer) \in Owned(i)
      BY <3>1, RowKinds DEF Owned, RowsOf
    <3>3. r \in Refs(Security(i, r.layer))
      BY <1>2, <2>1, <2>5, <3>1, RefsBy, RowKinds
    <3> QED
      BY <2>1, <3>2, <3>3 DEF SourcesOf
  <2>6. CASE r.role = "principal" /\ ~HasSecurity(i, r.layer)
    <3>1. i = "demo" /\ r.layer \notin Securities /\ r.layer \in Layers
      BY <2>1, <2>6, RowKinds DEF HasSecurity, RowFits
    <3> QED
      BY <2>1, <2>6, <3>1 DEF Unowned
  <2>7. CASE r.role = "position"
    <3>1. Position(i, r.layer) \in rows
      BY <1>5, <2>1, <2>7 DEF RowsInv, SourcesUsed
    <3>2. Position(i, r.layer) \in Owned(i)
      BY <3>1, RowKinds DEF Owned, RowsOf
    <3>3. r \in Refs(Position(i, r.layer))
      BY <1>2, <2>1, <2>7, <3>1, RefsBy, RowKinds
    <3> QED
      BY <2>1, <3>2, <3>3 DEF SourcesOf
  <2> QED
    BY <2>2, <2>3, <2>4, <2>5, <2>6, <2>7
<1>6. ASSUME NEW r \in RowsOf(rows, "calculation", i) PROVE r \in calculations
  <2>1. r \in rows /\ r = Calculation("demo", r.layer) /\ r.table = "calculation" /\ r.issuer = i
    BY <1>2 DEF RowsOf, RowFits
  <2>2. i = "demo" /\ Source("demo", r.layer, "position") \in rows
    BY <2>1, RowKinds DEF RowsInv, SourcesUsed
  <2>3. PICK s : s = Source("demo", r.layer, "position")
    OBVIOUS
  <2>4. s.table = "provenance" /\ s.issuer = "demo" /\ s.role = "position" /\ s.layer = r.layer
    BY <2>3, RowKinds
  <2>5. s \in sources
    <3>1. s \in RowsOf(rows, "provenance", i) /\ s \notin orphans
      BY <2>2, <2>3, <2>4 DEF RowsOf, OrphansInv, NoCalculated
    <3>2. s \notin Unowned(i)
      BY <2>4, RowKinds DEF Unowned
    <3> QED
      BY <1>5, <3>1, <3>2
  <2>6. r \in Refs(s)
    BY <1>2, <2>1, <2>2, <2>3, <2>4, RefsBy
  <2> QED
    BY <2>1, <2>5, <2>6
<1>7. calculations = RowsOf(rows, "calculation", i)
  <2>1. ASSUME NEW r \in calculations PROVE r.issuer = i
    <3>1. PICK s \in sources : r \in Refs(s)
      OBVIOUS
    <3> QED
      BY <1>2, <1>4, <3>1, RefsAreOwn DEF RowsOf
  <2> QED
    BY <1>6, <2>1 DEF RowsOf
<1>8. ASSUME Source(i, 0, "principal") \in sources PROVE Source(i, 0, "principal") \in late
  <2>1. PICK s : s = Source(i, 0, "principal")
    OBVIOUS
  <2>2. s.table = "provenance" /\ s.issuer = i /\ s.layer = 0 /\ s.role = "principal"
    BY <2>1, RowKinds
  <2>3. PICK o \in Owned(i) : s \in Refs(o)
    BY <1>8, <2>1 DEF SourcesOf
  <2>4. RowFits(o) /\ o.issuer = i /\ o \in rows
    BY <1>2, <1>3
  <2>5. o.table \in {"issuer", "security", "position"}
    BY RowKinds DEF Owned, RowsOf
  <2>6. o.table = "security" /\ o.layer = 0
    BY <2>2, <2>3, <2>4, <2>5, RefsBy, RowKinds
  <2>7. o = Security(i, 0)
    BY <2>4, <2>6 DEF RowFits
  <2> QED
    BY <2>4, <2>7 DEF LateInv
<1> QED
  BY <1>4, <1>5, <1>7, <1>8 DEF ReadInv

\* What a statement deletes is the issuer's own, and real only if it came since.
LEMMA Targeted ==
    ASSUME RowsInv(rows), NEW i \in Synthetic, Issuer(i) \in rows,
           NEW late, LateInv(i, late),
           ReadInv(i, deletion.sources, deletion.calculations, late), NEW n \in 1..6
    PROVE  /\ \A r \in Targets(n, i) : r \in rows /\ r.issuer = i /\ r.table \in OwnTables
                                       /\ (RealRow(r) => r \in late)
           /\ n = 1 => Targets(n, i) = RowsOf(rows, "input", i)
           /\ n = 2 => Targets(n, i) = RowsOf(rows, "position", i)
           /\ n = 3 => Targets(n, i) = RowsOf(rows, "security", i)
           /\ n = 4 => Targets(n, i) = {Issuer(i)}
           /\ n = 5 => Targets(n, i) = deletion.sources
           /\ n = 6 => Targets(n, i) = deletion.calculations
<1>1. \A r \in rows : RowFits(r)
  BY DEF RowsInv
<1>2. /\ n = 1 => Targets(n, i) = {r \in RowsOf(rows, "input", i) : r.calculation \in deletion.calculations}
      /\ n = 2 => Targets(n, i) = RowsOf(rows, "position", i)
      /\ n = 3 => Targets(n, i) = RowsOf(rows, "security", i)
      /\ n = 4 => Targets(n, i) = {Issuer(i)}
      /\ n = 5 => Targets(n, i) = deletion.sources
      /\ n = 6 => Targets(n, i) = deletion.calculations
  BY DEF Targets, AllSecurities
<1>3. ASSUME NEW r \in RowsOf(rows, "input", i) PROVE r.calculation \in deletion.calculations
  <2>1. r \in rows /\ r.table = "input" /\ r.issuer = i /\ RowFits(r)
    BY <1>1 DEF RowsOf
  <2>2. r.calculation \in Refs(r) /\ r.calculation = Calculation("demo", r.calculation.layer)
    BY <2>1, RefsBy DEF RowFits
  <2>3. r.calculation \in rows
    BY <2>1, <2>2 DEF RowsInv, Consistent
  <2>4. r.calculation.table = "calculation" /\ r.calculation.issuer = i
    BY <1>1, <2>1, <2>2, RefsAreOwn, RowKinds
  <2> QED
    BY <2>3, <2>4 DEF RowsOf, ReadInv
<1>4. n = 1 => Targets(n, i) = RowsOf(rows, "input", i)
  BY <1>2, <1>3
<1>5. n = 1 \/ n = 2 \/ n = 3 \/ n = 4 \/ n = 5 \/ n = 6
  OBVIOUS
<1>6. ASSUME NEW r \in Targets(n, i) PROVE r \in rows /\ r.issuer = i /\ r.table \in OwnTables
  BY <1>2, <1>4, <1>5, <1>6, RowKinds DEF RowsOf, OwnTables, ReadInv
<1>7. ASSUME NEW r \in Targets(n, i), RealRow(r) PROVE r \in late
  <2>1. r \in rows /\ r.issuer = i /\ (r = Security(i, 0) \/ r = Source(i, 0, "principal"))
    BY <1>6, <1>7 DEF RealRow
  <2>2. CASE r = Security(i, 0)
    BY <2>1, <2>2 DEF LateInv
  <2>3. CASE r = Source(i, 0, "principal")
    <3>1. r.table = "provenance"
      BY <2>3, RowKinds
    <3>2. r \in deletion.sources
      BY <1>2, <1>4, <1>5, <3>1, RowKinds DEF RowsOf, ReadInv
    <3> QED
      BY <2>3, <3>2 DEF ReadInv
  <2> QED
    BY <2>1, <2>2, <2>3
<1> QED
  BY <1>2, <1>4, <1>6, <1>7

\* A statement adds what it deletes to what is done.
LEMMA StatementDone ==
    ASSUME RowsInv(rows), NEW i \in Synthetic, Issuer(i) \in rows,
           NEW late, LateInv(i, late),
           ReadInv(i, deletion.sources, deletion.calculations, late), NEW n \in 1..6, NEW gone,
           GoneInv(i, gone, late),
           DoneInv(i, n, deletion.sources, deletion.calculations, gone, late),
           Consistent(rows \ (gone \cup Targets(n, i)))
    PROVE  /\ GoneInv(i, gone \cup Targets(n, i), late)
           /\ DoneInv(i, n + 1, deletion.sources, deletion.calculations, gone \cup Targets(n, i), late)
<1> DEFINE T == Targets(n, i)
<1>1. /\ \A r \in T : r \in rows /\ r.issuer = i /\ r.table \in OwnTables /\ (RealRow(r) => r \in late)
      /\ n = 1 => T = RowsOf(rows, "input", i)
      /\ n = 2 => T = RowsOf(rows, "position", i)
      /\ n = 3 => T = RowsOf(rows, "security", i)
      /\ n = 4 => T = {Issuer(i)}
      /\ n = 5 => T = deletion.sources
      /\ n = 6 => T = deletion.calculations
  BY Targeted
<1>2. Consistent(rows \ (gone \cup T))
  OBVIOUS
<1> HIDE DEF T
<1>3. GoneInv(i, gone \cup T, late)
  BY <1>1, <1>2 DEF GoneInv
<1>4. n = 1 \/ n = 2 \/ n = 3 \/ n = 4 \/ n = 5 \/ n = 6
  OBVIOUS
<1>5. DoneInv(i, n + 1, deletion.sources, deletion.calculations, gone \cup T, late)
  BY <1>1, <1>4 DEF DoneInv
<1> QED
  BY <1>3, <1>5 DEF T

\* A statement that leaves a reference dangling is in the way of research, or of
\* what came since the checks.
LEMMA StatementFails ==
    ASSUME RowsInv(rows), OrphansInv, NEW i \in Synthetic, Issuer(i) \in rows,
           NEW late, LateInv(i, late),
           ReadInv(i, deletion.sources, deletion.calculations, late), NEW n \in 1..6, NEW gone,
           GoneInv(i, gone, late),
           DoneInv(i, n, deletion.sources, deletion.calculations, gone, late),
           late = {}, \A t \in Research : RowsOf(rows, t, i) = {}
    PROVE  Consistent(rows \ (gone \cup Targets(n, i)))
<1> DEFINE T == Targets(n, i)
<1>1. /\ \A r \in T : r \in rows /\ r.issuer = i /\ r.table \in OwnTables /\ (RealRow(r) => r \in late)
      /\ n = 1 => T = RowsOf(rows, "input", i)
      /\ n = 2 => T = RowsOf(rows, "position", i)
      /\ n = 3 => T = RowsOf(rows, "security", i)
      /\ n = 4 => T = {Issuer(i)}
      /\ n = 5 => T = deletion.sources
      /\ n = 6 => T = deletion.calculations
  BY Targeted
<1> HIDE DEF T
<1> SUFFICES ASSUME NEW r \in rows \ (gone \cup T), NEW q \in Refs(r) PROVE q \in rows \ (gone \cup T)
  BY DEF Consistent, T
<1>2. RowFits(r) /\ q \in rows \ gone
  BY DEF RowsInv, GoneInv, Consistent
<1>3. /\ q.issuer = r.issuer
      /\ q.table \in {"issuer", "security", "provenance", "calculation"}
      /\ q.table = "security" => r.table = "position"
      /\ q.table = "issuer" => q = Issuer(r.issuer) /\ r.table \in {"security", "position"} \cup Research
      /\ q.table = "provenance" => r.table \in {"issuer", "security", "position", "input"}
      /\ q.table = "calculation" =>
            \/ r.table = "input"
            \/ r.table = "provenance" /\ r.issuer = "demo" /\ r.role = "position"
  BY <1>2, RefsAreOwn
<1> SUFFICES ASSUME q \in T PROVE FALSE
  BY <1>2
<1>4. r.issuer = i /\ r.table \notin Research
  <2>1. r.issuer = i
    BY <1>1, <1>3
  <2> QED
    BY <2>1 DEF RowsOf
<1>5. CASE n = 1 \/ n = 2
  BY <1>1, <1>3, <1>5 DEF RowsOf
<1>6. CASE n = 3
  <2>1. r \in RowsOf(rows, "position", i)
    BY <1>1, <1>3, <1>4, <1>6 DEF RowsOf
  <2> QED
    BY <1>6, <2>1 DEF DoneInv
<1>7. CASE n = 4
  <2>1. r \in RowsOf(rows, "position", i) \/ r \in RowsOf(rows, "security", i)
    BY <1>1, <1>3, <1>4, <1>7, RowKinds DEF RowsOf
  <2> QED
    BY <1>7, <2>1 DEF DoneInv
<1>8. CASE n = 5
  <2>1. q.table = "provenance"
    BY <1>1, <1>8 DEF ReadInv, RowsOf
  <2>2. \/ r = Issuer(i) \/ r \in RowsOf(rows, "security", i) \/ r \in RowsOf(rows, "position", i)
        \/ r \in RowsOf(rows, "input", i)
    BY <1>2, <1>3, <1>4, <2>1 DEF RowsOf, RowFits
  <2> QED
    BY <1>8, <2>2 DEF DoneInv
<1>9. CASE n = 6
  <2>1. q.table = "calculation"
    BY <1>1, <1>9 DEF ReadInv, RowsOf
  <2>2. CASE r.table = "input"
    <3>1. r \in RowsOf(rows, "input", i)
      BY <1>4, <2>2 DEF RowsOf
    <3> QED
      BY <1>9, <3>1 DEF DoneInv
  <2>3. CASE r.table = "provenance" /\ r.issuer = "demo" /\ r.role = "position"
    <3>1. r \in RowsOf(rows, "provenance", i) /\ r \notin orphans
      BY <1>4, <2>3 DEF RowsOf, OrphansInv, NoCalculated
    <3>2. r \notin Unowned(i)
      BY <2>3, RowKinds DEF Unowned
    <3>3. r \in deletion.sources
      BY <3>1, <3>2 DEF ReadInv
    <3> QED
      BY <1>9, <3>3 DEF DoneInv
  <2> QED
    BY <1>3, <2>1, <2>2, <2>3
<1> QED
  BY <1>5, <1>6, <1>7, <1>8, <1>9

\* When all statements have run, what is left of the issuer is what nothing owned
\* and what came since.
LEMMA DeletionIsWhole ==
    ASSUME RowsInv(rows), NEW i \in Synthetic, Issuer(i) \in rows,
           NEW late, LateInv(i, late), NEW gone, GoneInv(i, gone, late),
           NEW sources, NEW calculations, ReadInv(i, sources, calculations, late),
           DoneInv(i, 7, sources, calculations, gone, late)
    PROVE  \A r \in rows \ gone : r.issuer = i =>
              /\ r.table = "provenance"
              /\ r \in Unowned(i) \/ r \in late \/ r \in orphans
<1> SUFFICES ASSUME NEW r \in rows \ gone, r.issuer = i
             PROVE  /\ r.table = "provenance"
                    /\ r \in Unowned(i) \/ r \in late \/ r \in orphans
  OBVIOUS
<1>1. /\ RowsOf(rows, "input", i) \subseteq gone /\ Issuer(i) \in gone
      /\ sources \subseteq gone /\ calculations \subseteq gone
  BY DEF DoneInv
<1>2. RowFits(r) /\ Refs(r) \subseteq rows \ gone
  BY DEF RowsInv, GoneInv, Consistent
<1>3. Issuer(i) \notin Refs(r)
  BY <1>1, <1>2
<1>4. r.table \notin {"issuer", "input", "calculation"}
  BY <1>1, <1>2 DEF RowsOf, RowFits, ReadInv
<1>5. r.table \notin {"security", "position"} \cup Research
  BY <1>2, <1>3, RefsBy
<1>6. r.table = "provenance"
  BY <1>2, <1>4, <1>5 DEF RowFits, OwnTables
<1> QED
  BY <1>1, <1>6 DEF ReadInv, RowsOf

-----------------------------------------------------------------------------
(* What the steps do to the rows.                                          *)

\* Rows that are added with all they refer to, and their sources with the rows
\* that are named by them.
LEMMA RowsAdded ==
    ASSUME NEW db, RowsInv(db), NEW more,
           \A r \in more : RowFits(r) /\ Refs(r) \subseteq db \cup more,
           \A i \in AllIssuers : \A l : Source(i, l, "position") \in more => Position(i, l) \in db \cup more,
           \A i \in AllIssuers : \A l : Source(i, l, "principal") \in more /\ HasSecurity(i, l) =>
                                            Security(i, l) \in db \cup more,
           \A l : Calculation("demo", l) \in more => Source("demo", l, "position") \in db \cup more
    PROVE  RowsInv(db \cup more)
BY DEF RowsInv, Consistent, SourcesUsed

\* The loans are seeded.
LEMMA LoansAdded == ASSUME RowsInv(rows), SeedLoans PROVE RowsInv(rows')
<1> DEFINE more == {Issuer("loans"), Source("loans", 0, "issuer")}
                     \cup UNION {{Security("loans", l), Source("loans", l, "principal")} : l \in Layers}
<1>1. rows' = rows \cup more
  BY DEF SeedLoans, Commit
<1>2. ASSUME NEW r \in more
      PROVE  \/ r = Issuer("loans") \/ r = Source("loans", 0, "issuer")
             \/ \E l \in Layers : r = Security("loans", l) \/ r = Source("loans", l, "principal")
  OBVIOUS
<1>3. /\ Issuer("loans") \in more /\ Source("loans", 0, "issuer") \in more
      /\ \A l \in Layers : Security("loans", l) \in more /\ Source("loans", l, "principal") \in more
  OBVIOUS
<1>4. \A r \in more : RowFits(r)
  <2> SUFFICES ASSUME NEW r \in more PROVE RowFits(r)
    OBVIOUS
  <2>1. CASE r = Issuer("loans")
    BY <2>1, RowKinds DEF RowFits, AllIssuers, OwnTables
  <2>2. CASE r = Source("loans", 0, "issuer")
    BY <2>2, RowKinds DEF RowFits, AllIssuers, OwnTables
  <2>3. CASE \E l \in Layers : r = Security("loans", l) \/ r = Source("loans", l, "principal")
    BY <2>3, RowKinds DEF RowFits, AllIssuers, OwnTables
  <2> QED
    BY <1>2, <2>1, <2>2, <2>3
<1> HIDE DEF more
<1>5. \A r \in more : Refs(r) \subseteq more
  <2> SUFFICES ASSUME NEW r \in more PROVE Refs(r) \subseteq more
    OBVIOUS
  <2>1. CASE r = Issuer("loans")
    BY <1>3, <1>4, <2>1, RefsBy, RowKinds
  <2>2. CASE r = Source("loans", 0, "issuer")
    BY <1>4, <2>2, RefsBy, RowKinds
  <2>3. CASE \E l \in Layers : r = Security("loans", l)
    <3>1. PICK l \in Layers : r = Security("loans", l)
      BY <2>3
    <3>2. Refs(r) = {Issuer("loans"), Source("loans", l, "principal")}
      BY <1>4, <3>1, RefsBy, RowKinds
    <3> QED
      BY <1>3, <3>2
  <2>4. CASE \E l \in Layers : r = Source("loans", l, "principal")
    BY <1>4, <2>4, RefsBy, RowKinds
  <2> QED
    BY <1>2, <2>1, <2>2, <2>3, <2>4
<1>6. \A i, l : Source(i, l, "position") \notin more /\ Calculation("demo", l) \notin more
  BY <1>2, RowKinds
<1>7. \A i, l : Source(i, l, "principal") \in more => Security(i, l) \in more
  <2> SUFFICES ASSUME NEW i, NEW l, Source(i, l, "principal") \in more PROVE Security(i, l) \in more
    OBVIOUS
  <2>1. i = "loans" /\ l \in Layers
    BY <1>2, RowKinds
  <2> QED
    BY <1>3, <2>1
<1> QED
  BY <1>1, <1>4, <1>5, <1>6, <1>7, RowsAdded

\* Positions of the loans that are there.
LEMMA ReportedAdded == ASSUME RowsInv(rows) PROVE RowsInv(rows \cup ReportedLayers)
<1>1. ASSUME NEW r \in ReportedLayers
      PROVE  \E l : /\ r = Position("loans", l) \/ r = Source("loans", l, "position")
                    /\ Security("loans", l) \in rows
                    /\ Position("loans", l) \in ReportedLayers
                    /\ Source("loans", l, "position") \in ReportedLayers
  <2>1. PICK s \in SyntheticSecurities("loans") :
           r = Position("loans", s.layer) \/ r = Source("loans", s.layer, "position")
    BY <1>1 DEF ReportedLayers
  <2>2. s \in rows /\ s = Security("loans", s.layer)
    BY <2>1 DEF SyntheticSecurities, AllSecurities, RowsOf, RowsInv, RowFits
  <2>3. Position("loans", s.layer) \in ReportedLayers /\ Source("loans", s.layer, "position") \in ReportedLayers
    BY <1>1, <2>1 DEF ReportedLayers
  <2> QED
    BY <2>1, <2>2, <2>3
<1>2. \A r \in ReportedLayers : RowFits(r)
  <2> SUFFICES ASSUME NEW r \in ReportedLayers PROVE RowFits(r)
    OBVIOUS
  <2>1. PICK l : r = Position("loans", l) \/ r = Source("loans", l, "position")
    BY <1>1
  <2>2. CASE r = Position("loans", l)
    BY <2>2, RowKinds DEF RowFits, AllIssuers, OwnTables
  <2>3. CASE r = Source("loans", l, "position")
    BY <2>3, RowKinds DEF RowFits, AllIssuers, OwnTables
  <2> QED
    BY <2>1, <2>2, <2>3
<1>3. \A r \in ReportedLayers : Refs(r) \subseteq rows \cup ReportedLayers
  <2> SUFFICES ASSUME NEW r \in ReportedLayers PROVE Refs(r) \subseteq rows \cup ReportedLayers
    OBVIOUS
  <2>1. PICK l : /\ r = Position("loans", l) \/ r = Source("loans", l, "position")
                 /\ Security("loans", l) \in rows
                 /\ Source("loans", l, "position") \in ReportedLayers
    BY <1>1
  <2>2. CASE r = Position("loans", l)
    <3>1. Refs(r) \subseteq {Issuer("loans"), Source("loans", l, "position"), Security("loans", l)}
      BY <1>2, <2>2, RefsBy, RowKinds
    <3>2. Refs(Security("loans", l)) = {Issuer("loans"), Source("loans", l, "principal")}
      BY <2>1, RefsBy, RowKinds DEF RowsInv
    <3>3. Issuer("loans") \in rows
      BY <2>1, <3>2 DEF RowsInv, Consistent
    <3> QED
      BY <2>1, <3>1, <3>3
  <2>3. CASE r = Source("loans", l, "position")
    BY <1>2, <2>3, RefsBy, RowKinds
  <2> QED
    BY <2>1, <2>2, <2>3
<1>4. \A i, l : Source(i, l, "position") \in ReportedLayers => Position(i, l) \in ReportedLayers
  <2> SUFFICES ASSUME NEW i, NEW l, Source(i, l, "position") \in ReportedLayers
               PROVE  Position(i, l) \in ReportedLayers
    OBVIOUS
  <2>1. PICK m : /\ Source(i, l, "position") = Position("loans", m)
                    \/ Source(i, l, "position") = Source("loans", m, "position")
                 /\ Position("loans", m) \in ReportedLayers
    BY <1>1
  <2>2. i = "loans" /\ l = m
    BY <2>1, RowKinds
  <2> QED
    BY <2>1, <2>2
<1>5. \A i, l : Source(i, l, "principal") \notin ReportedLayers /\ Calculation(i, l) \notin ReportedLayers
  <2>1. ASSUME NEW i, NEW l, NEW r \in ReportedLayers
        PROVE  r # Source(i, l, "principal") /\ r # Calculation(i, l)
    <3>1. PICK m : r = Position("loans", m) \/ r = Source("loans", m, "position")
      BY <1>1
    <3> QED
      BY <3>1, RowKinds
  <2> QED
    BY <2>1
<1> QED
  BY <1>2, <1>3, <1>4, <1>5, RowsAdded

\* The demo issuer, with its capital structure and the calculations behind it.
LEMMA DemoAdded ==
    ASSUME NEW db, RowsInv(db)
    PROVE  RowsInv(db \cup DemoRows) /\ \A r \in DemoRows : r.issuer = "demo"
<1> DEFINE Layer(l) == {Source("demo", l, "principal"), Calculation("demo", l),
                        Source("demo", l, "position"), Position("demo", l)} \cup Inputs("demo", l)
<1>0. DemoRows = {Issuer("demo"), Source("demo", 0, "issuer"), Source("demo", 0, "value")}
                   \cup (UNION {Layer(l) : l \in Layers}) \cup {Security("demo", l) : l \in Securities}
  BY DEF DemoRows
<1> HIDE DEF Layer
<1>0a. \A r : r \in DemoRows <=>
          \/ r = Issuer("demo") \/ r = Source("demo", 0, "issuer") \/ r = Source("demo", 0, "value")
          \/ \E l \in Layers : r \in Layer(l)
          \/ \E l \in Securities : r = Security("demo", l)
  <2> DEFINE layers == UNION {Layer(l) : l \in Layers}
             securities == {Security("demo", l) : l \in Securities}
  <2>1. \A r : r \in layers <=> \E l \in Layers : r \in Layer(l)
    OBVIOUS
  <2>2. \A r : r \in securities <=> \E l \in Securities : r = Security("demo", l)
    OBVIOUS
  <2>3. DemoRows = {Issuer("demo"), Source("demo", 0, "issuer"), Source("demo", 0, "value")}
                     \cup layers \cup securities
    BY <1>0
  <2> HIDE DEF layers, securities
  <2> QED
    BY <2>1, <2>2, <2>3
<1>1. ASSUME NEW r \in DemoRows
      PROVE  \/ r = Issuer("demo") \/ r = Source("demo", 0, "issuer") \/ r = Source("demo", 0, "value")
             \/ \E l \in Layers :
                  \/ r = Source("demo", l, "principal") \/ r = Calculation("demo", l)
                  \/ r = Source("demo", l, "position") \/ r = Position("demo", l)
                  \/ r \in Inputs("demo", l)
             \/ \E l \in Securities : r = Security("demo", l)
  BY <1>0a, <1>1 DEF Layer
<1>2. /\ Issuer("demo") \in DemoRows /\ Source("demo", 0, "issuer") \in DemoRows
      /\ Source("demo", 0, "value") \in DemoRows
      /\ \A l \in Layers : /\ Source("demo", l, "principal") \in DemoRows
                           /\ Calculation("demo", l) \in DemoRows
                           /\ Source("demo", l, "position") \in DemoRows
                           /\ Position("demo", l) \in DemoRows
      /\ \A l \in Securities : Security("demo", l) \in DemoRows
  <2>1. \A l \in Layers : Layer(l) \subseteq DemoRows
    BY <1>0a
  <2>2. \A l \in Layers : /\ Source("demo", l, "principal") \in Layer(l)
                           /\ Calculation("demo", l) \in Layer(l)
                           /\ Source("demo", l, "position") \in Layer(l)
                           /\ Position("demo", l) \in Layer(l)
    BY DEF Layer
  <2> QED
    BY <1>0a, <2>1, <2>2
<1>3. ASSUME NEW l \in Layers, NEW r \in Inputs("demo", l)
      PROVE  /\ r.table = "input" /\ r.issuer = "demo" /\ r.calculation = Calculation("demo", l)
             /\ \/ r.of = Source("demo", 0, "value")
                \/ \E m \in Layers : r.of = Source("demo", m, "principal")
  <2>1. PICK s \in {Source("demo", 0, "value")} \cup {Source("demo", m, "principal") : m \in 1..l} :
           r = [calculation |-> Calculation("demo", l), table |-> "input", issuer |-> "demo", of |-> s]
    BY <1>3 DEF Inputs
  <2>2. \A m \in 1..l : m \in Layers
    BY SyntheticAssumption, FS_CardinalityType
  <2> QED
    BY <2>1, <2>2
<1>4. \A r \in DemoRows : RowFits(r)
  <2> SUFFICES ASSUME NEW r \in DemoRows PROVE RowFits(r)
    OBVIOUS
  <2>1. CASE r = Issuer("demo") \/ r = Source("demo", 0, "issuer") \/ r = Source("demo", 0, "value")
    BY <2>1, RowKinds DEF RowFits, AllIssuers, OwnTables
  <2>2. CASE \E l \in Layers : \/ r = Source("demo", l, "principal") \/ r = Calculation("demo", l)
                               \/ r = Source("demo", l, "position") \/ r = Position("demo", l)
    BY <2>2, RowKinds DEF RowFits, AllIssuers, OwnTables
  <2>3. CASE \E l \in Layers : r \in Inputs("demo", l)
    <3>1. PICK l \in Layers : r \in Inputs("demo", l)
      BY <2>3
    <3>2. /\ r.table = "input" /\ r.issuer = "demo" /\ r.calculation = Calculation("demo", l)
          /\ \/ r.of = Source("demo", 0, "value")
             \/ \E m \in Layers : r.of = Source("demo", m, "principal")
      BY <1>3, <3>1
    <3> QED
      BY <3>2, RowKinds DEF RowFits, AllIssuers, OwnTables
  <2>4. CASE \E l \in Securities : r = Security("demo", l)
    BY <2>4, RowKinds DEF RowFits, AllIssuers, OwnTables
  <2> QED
    BY <1>1, <2>1, <2>2, <2>3, <2>4
<1>5. \A r \in DemoRows : Refs(r) \subseteq DemoRows
  <2> SUFFICES ASSUME NEW r \in DemoRows PROVE Refs(r) \subseteq DemoRows
    OBVIOUS
  <2>0. RowFits(r)
    BY <1>4
  <2>1. CASE r = Issuer("demo") \/ r = Source("demo", 0, "issuer") \/ r = Source("demo", 0, "value")
    BY <1>2, <2>0, <2>1, RefsBy, RowKinds
  <2>2. CASE \E l \in Layers : r = Source("demo", l, "principal") \/ r = Calculation("demo", l)
    BY <2>0, <2>2, RefsBy, RowKinds
  <2>3. CASE \E l \in Layers : r = Source("demo", l, "position")
    <3>1. PICK l \in Layers : r = Source("demo", l, "position")
      BY <2>3
    <3>2. Refs(r) \subseteq {Calculation("demo", l)}
      BY <2>0, <3>1, RefsBy, RowKinds
    <3> QED
      BY <1>2, <3>2
  <2>4. CASE \E l \in Layers : r = Position("demo", l)
    <3>1. PICK l \in Layers : r = Position("demo", l)
      BY <2>4
    <3>2. Refs(r) = {Issuer("demo"), Source("demo", l, "position")}
                      \cup {s \in {Security("demo", l)} : HasSecurity("demo", l)}
      BY <3>1, RowKinds DEF Refs
    <3>3. HasSecurity("demo", l) => l \in Securities
      <4>1. l \in Nat \ {0}
        BY SyntheticAssumption, FS_CardinalityType
      <4> QED
        BY <4>1 DEF HasSecurity
    <3> QED
      BY <1>2, <3>2, <3>3
  <2>5. CASE \E l \in Layers : r \in Inputs("demo", l)
    <3>1. PICK l \in Layers : r \in Inputs("demo", l)
      BY <2>5
    <3>2. Refs(r) = {r.calculation, r.of}
      BY <1>3, <2>0, <3>1, RefsBy
    <3> QED
      BY <1>2, <1>3, <3>1, <3>2
  <2>6. CASE \E l \in Securities : r = Security("demo", l)
    <3>1. PICK l \in Securities : r = Security("demo", l)
      BY <2>6
    <3>2. Refs(r) = {Issuer("demo"), Source("demo", l, "principal")}
      BY <2>0, <3>1, RefsBy, RowKinds
    <3>3. l \in Layers
      BY SyntheticAssumption
    <3> QED
      BY <1>2, <3>2, <3>3
  <2> QED
    BY <1>1, <2>1, <2>2, <2>3, <2>4, <2>5, <2>6
<1>6. ASSUME NEW i, NEW l, NEW role, Source(i, l, role) \in DemoRows
      PROVE  i = "demo" /\ (role \in {"principal", "position"} => l \in Layers)
  <2>1. PICK r : r = Source(i, l, role)
    OBVIOUS
  <2>2. r.table = "provenance" /\ r.issuer = i /\ r.layer = l /\ r.role = role /\ r \in DemoRows
    BY <1>6, <2>1, RowKinds
  <2>3. CASE \E m \in Layers : r \in Inputs("demo", m)
    BY <1>3, <2>2, <2>3
  <2>4. CASE r = Issuer("demo") \/ r = Source("demo", 0, "issuer") \/ r = Source("demo", 0, "value")
    BY <2>2, <2>4, RowKinds
  <2>5. CASE \E m \in Layers : \/ r = Source("demo", m, "principal") \/ r = Calculation("demo", m)
                               \/ r = Source("demo", m, "position") \/ r = Position("demo", m)
    BY <2>2, <2>5, RowKinds
  <2>6. CASE \E m \in Securities : r = Security("demo", m)
    BY <2>2, <2>6, RowKinds
  <2> QED
    BY <1>1, <2>2, <2>3, <2>4, <2>5, <2>6
<1>7. \A i, l : Source(i, l, "position") \in DemoRows => Position(i, l) \in DemoRows
  BY <1>2, <1>6
<1>8. \A i, l : Source(i, l, "principal") \in DemoRows /\ HasSecurity(i, l) => Security(i, l) \in DemoRows
  <2>1. \A l \in Layers : l \in Nat \ {0}
    BY SyntheticAssumption, FS_CardinalityType
  <2> QED
    BY <1>2, <1>6, <2>1 DEF HasSecurity
<1>9. ASSUME NEW l, Calculation("demo", l) \in DemoRows PROVE Source("demo", l, "position") \in DemoRows
  <2>1. PICK r : r = Calculation("demo", l)
    OBVIOUS
  <2>2. r.table = "calculation" /\ r.layer = l /\ r \in DemoRows
    BY <1>9, <2>1, RowKinds
  <2>3. l \in Layers
    <3>1. CASE \E m \in Layers : r \in Inputs("demo", m)
      BY <1>3, <2>2, <3>1
    <3>2. CASE r = Issuer("demo") \/ r = Source("demo", 0, "issuer") \/ r = Source("demo", 0, "value")
      BY <2>2, <3>2, RowKinds
    <3>3. CASE \E m \in Layers : \/ r = Source("demo", m, "principal") \/ r = Calculation("demo", m)
                                 \/ r = Source("demo", m, "position") \/ r = Position("demo", m)
      BY <2>2, <3>3, RowKinds
    <3>4. CASE \E m \in Securities : r = Security("demo", m)
      BY <2>2, <3>4, RowKinds
    <3> QED
      BY <1>1, <2>2, <3>1, <3>2, <3>3, <3>4
  <2> QED
    BY <1>2, <2>3
<1>10. \A r \in DemoRows : r.issuer = "demo"
  <2> SUFFICES ASSUME NEW r \in DemoRows PROVE r.issuer = "demo"
    OBVIOUS
  <2>1. CASE \E l \in Layers : r \in Inputs("demo", l)
    BY <1>3, <2>1
  <2>2. CASE r = Issuer("demo") \/ r = Source("demo", 0, "issuer") \/ r = Source("demo", 0, "value")
    BY <2>2, RowKinds
  <2>3. CASE \E l \in Layers : \/ r = Source("demo", l, "principal") \/ r = Calculation("demo", l)
                               \/ r = Source("demo", l, "position") \/ r = Position("demo", l)
    BY <2>3, RowKinds
  <2>4. CASE \E l \in Securities : r = Security("demo", l)
    BY <2>4, RowKinds
  <2> QED
    BY <1>1, <2>1, <2>2, <2>3, <2>4
<1> QED
  BY <1>4, <1>5, <1>7, <1>8, <1>9, <1>10, RowsAdded

\* A seeding of the capital structure.
LEMMA StructureAdded == ASSUME RowsInv(rows), SeedCapitalStructure PROVE RowsInv(rows')
<1>1. RowsInv(rows \cup ReportedLayers)
  BY ReportedAdded
<1>2. RowsInv((rows \cup ReportedLayers) \cup DemoRows)
  BY <1>1, DemoAdded
<1>3. rows' = rows \cup ReportedLayers \/ rows' = (rows \cup ReportedLayers) \cup DemoRows
  BY DEF SeedCapitalStructure, Commit
<1> QED
  BY <1>1, <1>2, <1>3

\* Research on an issuer that is there.
LEMMA ResearchAdded ==
    ASSUME RowsInv(rows), NEW t \in Research, NEW i \in AllIssuers, WriteResearch(t, i)
    PROVE  RowsInv(rows')
<1> DEFINE more == {Row(t, i, 0, "none")}
<1>1. Issuer(i) \in rows /\ rows' = rows \cup more
  BY DEF WriteResearch, Commit
<1>2. \A r \in more : r.table = t /\ r.issuer = i /\ t \notin OwnTables
  <2>1. t \notin OwnTables
    BY SyntheticAssumption DEF OwnTables
  <2>2. Row(t, i, 0, "none").table = t /\ Row(t, i, 0, "none").issuer = i
    BY DEF Row
  <2> QED
    BY <2>1, <2>2
<1>3. \A r \in more : RowFits(r)
  BY <1>2 DEF RowFits, OwnTables
<1>4. \A r \in more : Refs(r) \subseteq rows \cup more
  <2>1. \A r \in more : Refs(r) = {Issuer(i)}
    BY <1>2, <1>3, RefsBy
  <2> QED
    BY <1>1, <2>1
<1>5. \A j, l, role : Source(j, l, role) \notin more /\ Calculation(j, l) \notin more
  <2>1. \A j, l, role : /\ Source(j, l, role).table \in OwnTables
                        /\ Calculation(j, l).table \in OwnTables
    BY RowKinds DEF OwnTables
  <2> QED
    BY <1>2, <2>1
<1> HIDE DEF more
<1> QED
  BY <1>1, <1>3, <1>4, <1>5, RowsAdded

\* Securities are removed with the sources only they referred to.
LEMMA SecuritiesRemoved ==
    ASSUME RowsInv(rows), NEW i \in AllIssuers, RemoveSecurities(i), rows' # rows
    PROVE  /\ RowsInv(rows')
           /\ \A r \in rows \ rows' :
                 /\ r.issuer \in Synthetic /\ ~RealRow(r)
                 /\ r.table = "provenance" \/ (r.table = "security" /\ r.role = "synthetic")
<1> DEFINE gone == SyntheticSecurities(i)
           kept == SourcesOf(rows, {r \in rows \ gone : r.table \in {"security", "issuer", "position"}})
           sources == SourcesOf(rows, gone) \ kept
<1>1. rows' = Transaction(<<gone, sources>>)
  BY DEF RemoveSecurities, Attempt
<1>0. orphans' = orphans
  BY DEF RemoveSecurities
<1>2. rows' = rows \ (gone \cup sources) /\ Consistent(rows')
  <2>1. PICK D : D = <<gone, sources>>
    OBVIOUS
  <2>2. DOMAIN D = 1..2 /\ Len(D) = 2 /\ D[1] = gone /\ D[2] = sources
    BY <2>1
  <2> DEFINE After(n) == rows \ (UNION {D[k] : k \in 1..n})
  <2>3. rows' = Transaction(D)
    BY <1>1, <2>1
  <2> HIDE DEF gone, sources
  <2>4. Transaction(D) = IF \A n \in DOMAIN D : Consistent(After(n)) THEN After(Len(D)) ELSE rows
    BY DEF Transaction
  <2>5. rows' = After(2) /\ Consistent(After(2))
    BY <2>2, <2>3, <2>4
  <2>6. After(2) = rows \ (gone \cup sources)
    <3>1. \A k : k \in 1..2 <=> k = 1 \/ k = 2
      OBVIOUS
    <3>2. UNION {D[k] : k \in 1..2} = D[1] \cup D[2]
      BY <3>1
    <3> QED
      BY <2>2, <3>2
  <2> QED
    BY <2>5, <2>6
<1>3. \A r \in gone : /\ r \in rows /\ r.table = "security" /\ r.role = "synthetic" /\ r.issuer = i
                      /\ r = Security(i, r.layer) /\ RowFits(r) /\ r.layer # 0
  <2> SUFFICES ASSUME NEW r \in gone
               PROVE  /\ r \in rows /\ r.table = "security" /\ r.role = "synthetic" /\ r.issuer = i
                      /\ r = Security(i, r.layer) /\ RowFits(r) /\ r.layer # 0
    OBVIOUS
  <2>1. /\ r \in rows /\ r.table = "security" /\ r.role = "synthetic" /\ r.issuer = i
        /\ RowFits(r) /\ r = Security(i, r.layer)
    BY DEF SyntheticSecurities, AllSecurities, RowsOf, RowsInv, RowFits
  <2>2. Security(i, 0).role = "real"
    BY DEF Security, Row
  <2> QED
    BY <2>1, <2>2
<1>4. \A r \in gone : r.issuer \in Synthetic
  BY <1>3 DEF Security, Row, Synthetic, AllIssuers
<1>5. ASSUME NEW r \in sources
      PROVE  r.table = "provenance" /\ r.issuer \in Synthetic /\ r.role = "principal"
             /\ r \in rows /\ r.layer # 0
  <2>1. PICK o \in gone : r \in Refs(o) /\ r.table = "provenance" /\ r \in rows
    BY DEF SourcesOf
  <2>2. r = Source(o.issuer, o.layer, "principal")
    BY <1>3, <2>1, RefsBy, RowKinds
  <2> QED
    BY <1>3, <1>4, <2>1, <2>2, RowKinds
<1>6. ASSUME NEW j \in AllIssuers, NEW l, Source(j, l, "principal") \in rows' \ orphans, HasSecurity(j, l)
      PROVE  Security(j, l) \in rows'
  <2>1. PICK s : s = Source(j, l, "principal")
    OBVIOUS
  <2>2. s \in rows /\ s \notin orphans /\ s \notin sources
    BY <1>2, <1>6, <2>1
  <2>3. PICK o : o = Security(j, l)
    OBVIOUS
  <2>4. o \in rows
    BY <1>6, <2>1, <2>2, <2>3 DEF RowsInv, SourcesUsed
  <2>5. o.table = "security" /\ o.issuer = j /\ o.layer = l /\ s.table = "provenance" /\ RowFits(o)
    BY <2>1, <2>3, <2>4, RowKinds DEF RowsInv
  <2>6. s \in Refs(o)
    BY <2>1, <2>5, RefsBy
  <2>7. ASSUME o \in gone PROVE FALSE
    <3>1. s \in SourcesOf(rows, gone)
      BY <2>2, <2>5, <2>6, <2>7 DEF SourcesOf
    <3>2. s \in kept
      BY <2>2, <3>1
    <3>3. PICK r \in rows \ gone : r.table \in {"security", "issuer", "position"} /\ s \in Refs(r)
      BY <3>2 DEF SourcesOf
    <3>4. RowFits(r)
      BY <3>3 DEF RowsInv
    <3>5. r.table = "security" /\ s = Source(r.issuer, r.layer, "principal")
      BY <2>1, <3>3, <3>4, RefsBy, RowKinds
    <3>6. r.issuer = j /\ r.layer = l
      BY <2>1, <3>5, RowKinds
    <3>7. r = o
      BY <2>3, <3>4, <3>5, <3>6 DEF RowFits
    <3> QED
      BY <2>7, <3>3, <3>7
  <2> QED
    BY <1>2, <1>5, <2>3, <2>4, <2>5, <2>7
<1>7. ASSUME NEW j \in AllIssuers, NEW l, Source(j, l, "position") \in rows' \ orphans
      PROVE  Position(j, l) \in rows'
  <2>1. Position(j, l) \in rows
    BY <1>2, <1>7 DEF RowsInv, SourcesUsed
  <2> QED
    BY <1>2, <1>3, <1>5, <2>1, RowKinds
<1>8. ASSUME NEW l, Calculation("demo", l) \in rows' PROVE Source("demo", l, "position") \in rows'
  <2>1. Source("demo", l, "position") \in rows
    BY <1>2, <1>8 DEF RowsInv, SourcesUsed
  <2> QED
    BY <1>2, <1>3, <1>5, <2>1, RowKinds
<1> HIDE DEF gone, sources
<1>9. \A r \in rows' : RowFits(r)
  BY <1>2 DEF RowsInv
<1>10. RowsInv(rows')
  BY <1>2, <1>6, <1>7, <1>8, <1>9 DEF RowsInv, SourcesUsed
<1>11. \A r \in rows \ rows' :
          /\ r.issuer \in Synthetic /\ ~RealRow(r)
          /\ r.table = "provenance" \/ (r.table = "security" /\ r.role = "synthetic")
  <2>1. \A r : RealRow(r) => r.layer = 0
    BY RowKinds DEF RealRow
  <2> QED
    BY <1>2, <1>3, <1>4, <1>5, <2>1
<1> QED
  BY <1>10, <1>11

\* A real security with its source, on an issuer that is there.
LEMMA RealAdded ==
    ASSUME RowsInv(rows), NEW i \in Synthetic, AddRealSecurity(i)
    PROVE  RowsInv(rows')
<1> DEFINE more == {Security(i, 0), Source(i, 0, "principal")}
<1>1. Issuer(i) \in rows /\ rows' = rows \cup more /\ i \in AllIssuers
  BY DEF AddRealSecurity, Commit, Synthetic, AllIssuers
<1>2. RowFits(Security(i, 0))
  BY <1>1, RowKinds DEF RowFits, OwnTables
<1>3. RowFits(Source(i, 0, "principal"))
  BY <1>1, RowKinds DEF RowFits, OwnTables
<1>4. Refs(Security(i, 0)) = {Issuer(i), Source(i, 0, "principal")}
  BY <1>2, RefsBy, RowKinds
<1>5. Refs(Source(i, 0, "principal")) = {}
  BY <1>3, RefsBy, RowKinds
<1>6. \A r \in more : RowFits(r) /\ Refs(r) \subseteq rows \cup more
  BY <1>1, <1>2, <1>3, <1>4, <1>5
<1>7. \A j, l : Source(j, l, "position") \notin more /\ Calculation(j, l) \notin more
  BY RowKinds
<1>8. \A j, l : Source(j, l, "principal") \in more => Security(j, l) \in more
  <2> SUFFICES ASSUME NEW j, NEW l, Source(j, l, "principal") \in more PROVE Security(j, l) \in more
    OBVIOUS
  <2>1. j = i /\ l = 0
    BY RowKinds
  <2> QED
    BY <2>1
<1> HIDE DEF more
<1> QED
  BY <1>1, <1>6, <1>7, <1>8, RowsAdded

\* What is left of a deleted issuer still has what it needs, but for the sources of
\* what came while it was deleted.
LEMMA IssuerDeleted ==
    ASSUME SynthInv, CommitDelete
    PROVE  /\ RowsInv(rows)' /\ OrphansInv'
           /\ \A r \in rows \ rows' : /\ r.issuer = cleanup.issuer /\ r.issuer \in Synthetic
                                      /\ r.table \in OwnTables /\ (RealRow(r) => r \in deletion.late)
           /\ \A r \in rows' : r.issuer = cleanup.issuer =>
                 r \in Unowned(cleanup.issuer) \/ r \in deletion.late \/ r \in orphans
<1>1. PICK i, sources, calculations, gone, late :
         /\ i = cleanup.issuer /\ sources = deletion.sources /\ calculations = deletion.calculations
         /\ gone = deletion.gone /\ late = deletion.late
  OBVIOUS
<1>2. /\ RowsInv(rows) /\ OrphansInv /\ i \in Synthetic /\ Issuer(i) \in rows
      /\ LateInv(i, late) /\ ReadInv(i, sources, calculations, late)
      /\ GoneInv(i, gone, late) /\ DoneInv(i, 7, sources, calculations, gone, late)
  BY <1>1 DEF SynthInv, CleanupInv, CommitDelete, Deleting
<1>3. rows' = rows \ gone /\ orphans' = orphans \cup (late \ gone)
  BY <1>1 DEF CommitDelete
<1>4. \A r \in rows \ gone : r.issuer = i =>
              /\ r.table = "provenance"
              /\ r \in Unowned(i) \/ r \in late \/ r \in orphans
  BY <1>2, DeletionIsWhole
<1>5. \A r \in gone : r \in rows /\ r.issuer = i /\ r.table \in OwnTables /\ (RealRow(r) => r \in late)
  BY <1>2 DEF GoneInv
<1>6. Consistent(rows')
  BY <1>2, <1>3 DEF GoneInv
<1>7. ASSUME NEW j \in AllIssuers, NEW l, Source(j, l, "position") \in rows' \ orphans'
      PROVE  Position(j, l) \in rows'
  <2>1. Position(j, l) \in rows
    BY <1>2, <1>3, <1>7 DEF RowsInv, SourcesUsed
  <2>2. Source(j, l, "position") \notin Unowned(i)
    BY RowKinds DEF Unowned
  <2>3. j # i
    BY <1>3, <1>4, <1>7, <2>2, RowKinds
  <2> QED
    BY <1>3, <1>5, <2>1, <2>3, RowKinds
<1>8. ASSUME NEW j \in AllIssuers, NEW l, Source(j, l, "principal") \in rows' \ orphans', HasSecurity(j, l)
      PROVE  Security(j, l) \in rows'
  <2>1. Security(j, l) \in rows
    BY <1>2, <1>3, <1>8 DEF RowsInv, SourcesUsed
  <2>2. CASE j # i
    BY <1>3, <1>5, <2>1, <2>2, RowKinds
  <2>3. CASE j = i
    <3>1. Source(j, l, "principal") \in Unowned(i)
      BY <1>3, <1>4, <1>8, <2>3, RowKinds
    <3>2. i = "demo" /\ l \in Layers \ Securities
      BY <3>1, RowKinds DEF Unowned
    <3>3. 0 \notin Layers
      BY SyntheticAssumption, FS_CardinalityType
    <3> QED
      BY <1>8, <2>3, <3>2, <3>3 DEF HasSecurity
  <2> QED
    BY <2>2, <2>3
<1>9. ASSUME NEW l, Calculation("demo", l) \in rows' PROVE Source("demo", l, "position") \in rows'
  <2>1. Source("demo", l, "position") \in rows
    BY <1>2, <1>3, <1>9 DEF RowsInv, SourcesUsed
  <2>2. i # "demo"
    BY <1>3, <1>4, <1>9, RowKinds
  <2> QED
    BY <1>3, <1>5, <2>1, <2>2, RowKinds
<1>10. RowsInv(rows)'
  <2>1. \A r \in rows' : RowFits(r)
    BY <1>2, <1>3 DEF RowsInv
  <2> QED
    BY <1>6, <1>7, <1>8, <1>9, <2>1 DEF RowsInv, SourcesUsed, RowFits, Consistent
<1>11. OrphansInv'
  <2> SUFFICES ASSUME NEW r \in orphans' PROVE r.table = "provenance" /\ NoCalculated(r)
    BY DEF OrphansInv, NoCalculated
  <2>1. CASE r \in orphans
    BY <1>2, <2>1 DEF OrphansInv
  <2>2. CASE r \in late \ gone
    <3>1. r \in rows \ gone /\ r.issuer = i /\ (r.table = "provenance" => NoCalculated(r))
      BY <1>2, <2>2 DEF LateInv
    <3> QED
      BY <1>4, <3>1
  <2> QED
    BY <1>3, <2>1, <2>2
<1> QED
  BY <1>1, <1>2, <1>3, <1>4, <1>5, <1>10, <1>11

\* Every step keeps what a page shows sourced.
LEMMA PageSteps == ASSUME PageSourced, [SynthNext]_synthVars PROVE PageSourced'
<1>1. \A r, i : Allowed(SourceOf(r), i) => SourceOf(r) # {}
  BY DEF Allowed
<1>2. CASE page' = page
  BY <1>2 DEF PageSourced
<1>3. ASSUME NEW i \in AllIssuers, OpenPage(i) \/ OpenCapitalStructure(i) PROVE PageSourced'
  BY <1>3 DEF PageSourced, OpenPage, OpenCapitalStructure
<1>4. ASSUME NEW roles, ListCreditUniverse(roles) PROVE PageSourced'
  BY <1>1, <1>4 DEF PageSourced, ListCreditUniverse
<1>5. CASE SourceRow
  <2>1. PICK r : page' = [pending |-> page.pending \ {r},
                          shown |-> IF Allowed(SourceOf(r), r.issuer)
                                    THEN page.shown \cup {[row |-> r, source |-> SourceOf(r)]}
                                    ELSE page.shown]
    BY <1>5, Zenon DEF SourceRow
  <2> QED
    BY <1>1, <2>1 DEF PageSourced
<1> QED
  BY <1>2, <1>3, <1>4, <1>5
  DEF SynthNext, synthVars, SeedLoans, SeedCapitalStructure, RemoveSecurities, StartDelete,
      CheckTable, CheckSecurities, ReadOwned, DeleteStatement, CommitDelete, WriteResearch, AddRealSecurity

\* The database starts out whole.
LEMMA RealRowsAreWhole == RowsInv(Real)
<1>1. PICK r1 : r1 = Issuer("real")
  OBVIOUS
<1>2. PICK r2 : r2 = Source("real", 0, "issuer")
  OBVIOUS
<1>3. PICK r3 : r3 = Security("real", 1)
  OBVIOUS
<1>4. PICK r4 : r4 = Source("real", 1, "principal")
  OBVIOUS
<1>5. Real = {r1, r2, r3, r4}
  BY <1>1, <1>2, <1>3, <1>4 DEF Real
<1>6. RowFits(r1)
  BY <1>1, RowKinds DEF RowFits, AllIssuers, OwnTables
<1>7. RowFits(r2)
  BY <1>2, RowKinds DEF RowFits, AllIssuers, OwnTables
<1>8. RowFits(r3)
  BY <1>3, RowKinds DEF RowFits, AllIssuers, OwnTables
<1>9. RowFits(r4)
  BY <1>4, RowKinds DEF RowFits, AllIssuers, OwnTables
<1>10. Refs(r1) = {r2}
  BY <1>1, <1>2, <1>6, RefsBy, RowKinds
<1>11. Refs(r2) = {} /\ Refs(r4) = {}
  BY <1>2, <1>4, <1>7, <1>9, RefsBy, RowKinds
<1>12. Refs(r3) = {r1, r4}
  BY <1>1, <1>3, <1>4, <1>8, RefsBy, RowKinds
<1>13. Consistent(Real)
  BY <1>5, <1>10, <1>11, <1>12 DEF Consistent
<1>14. ASSUME NEW j, NEW l, Source(j, l, "position") \in Real PROVE FALSE
  BY <1>14, RowKinds DEF Real
<1>15. ASSUME NEW j, NEW l, Source(j, l, "principal") \in Real PROVE Security(j, l) \in Real
  <2>1. Source(j, l, "principal") = r4
    BY <1>1, <1>2, <1>3, <1>5, <1>15, RowKinds
  <2>2. j = "real" /\ l = 1
    BY <1>4, <2>1, RowKinds
  <2> QED
    BY <2>2 DEF Real
<1>16. ASSUME NEW l, Calculation("demo", l) \in Real PROVE FALSE
  BY <1>16, RowKinds DEF Real
<1>17. \A r \in Real : RowFits(r)
  BY <1>5, <1>6, <1>7, <1>8, <1>9
<1> QED
  BY <1>13, <1>14, <1>15, <1>16, <1>17 DEF RowsInv, SourcesUsed

\* Rows that another session commits leave a deletion as good as it was.
LEMMA CommitKeepsCleanup ==
    ASSUME SynthInv, NEW more, Commit(more), RowsInv(rows'), cleanup' = cleanup, orphans' = orphans,
           Deleting =>
              /\ \A r \in more : r.issuer = cleanup.issuer =>
                    /\ r.table \in {"security", "position", "provenance"} \cup Research
                    /\ r.table = "provenance" => NoCalculated(r)
              /\ Security(cleanup.issuer, 0) \in more => Source(cleanup.issuer, 0, "principal") \in more
    PROVE  CleanupInv'
<1>1. rows' = rows \cup more
  BY DEF Commit
<1>2. CleanupInv
  BY DEF SynthInv
<1>3. CASE cleanup.outcome \notin {"checked", "deleting"}
  <2>1. deletion' = deletion
    BY <1>3 DEF Commit
  <2> QED
    BY <1>1, <1>2, <1>3, <2>1 DEF CleanupInv, Deleting
<1>4. CASE cleanup.outcome \in {"checked", "deleting"}
  <2>1. PICK i, sources, calculations, gone, n, late :
           /\ i = cleanup.issuer /\ sources = deletion.sources /\ calculations = deletion.calculations
           /\ gone = deletion.gone /\ n = deletion.next /\ late = deletion.late
    OBVIOUS
  <2>2. PICK more2 : more2 = {r \in more : r.issuer = i}
    OBVIOUS
  <2>3. deletion' = [sources |-> sources, calculations |-> calculations, gone |-> gone,
                     next |-> n, late |-> late \cup more2]
    BY <1>2, <1>4, <2>1, <2>2 DEF Commit, CleanupInv
  <2>4. /\ i \in Synthetic /\ Issuer(i) \in rows /\ LateInv(i, late) /\ Deleting
        /\ cleanup.outcome = "checked" => gone = {}
        /\ cleanup.outcome = "deleting" =>
              /\ ReadInv(i, sources, calculations, late) /\ GoneInv(i, gone, late)
              /\ DoneInv(i, n, sources, calculations, gone, late)
    BY <1>2, <1>4, <2>1 DEF CleanupInv, Deleting
  <2>5. /\ \A r \in more2 : /\ r.table \in {"security", "position", "provenance"} \cup Research
                            /\ r.table = "provenance" => NoCalculated(r)
                            /\ r \in more /\ r.issuer = i
        /\ Security(i, 0) \in more => Source(i, 0, "principal") \in more
        /\ Security(i, 0).issuer = i /\ Source(i, 0, "principal").issuer = i
    BY <2>1, <2>2, <2>4, RowKinds
  <2>6. \A r \in more : r \notin gone /\ Refs(r) \cap gone = {}
    BY <2>1 DEF Commit
  <2>7. LateInv(i, late \cup more2)'
    <3>1. \A r \in late \cup more2 :
             /\ r \in rows' /\ r.issuer = i
             /\ r.table \in {"security", "position", "provenance"} \cup Research
             /\ r.table = "provenance" => NoCalculated(r)
      BY <1>1, <2>4, <2>5 DEF LateInv
    <3>2. Security(i, 0) \in rows' => {Security(i, 0), Source(i, 0, "principal")} \subseteq late \cup more2
      BY <1>1, <2>2, <2>4, <2>5 DEF LateInv
    <3> QED
      BY <3>1, <3>2 DEF LateInv
  <2>8. ASSUME NEW t \in OwnTables
        PROVE  /\ RowsOf(rows, t, i) \subseteq RowsOf(rows', t, i)
               /\ RowsOf(rows', t, i) \subseteq RowsOf(rows, t, i) \cup more2
               /\ t \in {"input", "calculation"} => RowsOf(rows', t, i) = RowsOf(rows, t, i)
    <3>1. /\ RowsOf(rows, t, i) \subseteq RowsOf(rows', t, i)
          /\ RowsOf(rows', t, i) \subseteq RowsOf(rows, t, i) \cup more2
      BY <1>1, <2>2 DEF RowsOf
    <3>2. ASSUME t \in {"input", "calculation"}, NEW r \in RowsOf(rows', t, i) PROVE r \in RowsOf(rows, t, i)
      <4>1. r.table = t /\ t \notin Research
        BY <3>2, SyntheticAssumption DEF RowsOf
      <4>2. r \notin more2
        BY <2>5, <3>2, <4>1
      <4> QED
        BY <3>1, <4>2
    <3> QED
      BY <3>1, <3>2
  <2>9. /\ "provenance" \in OwnTables /\ "calculation" \in OwnTables /\ "input" \in OwnTables
        /\ "position" \in OwnTables /\ "security" \in OwnTables
    BY DEF OwnTables
  <2>10. ASSUME cleanup.outcome = "deleting"
         PROVE  /\ ReadInv(i, sources, calculations, late \cup more2)'
                /\ GoneInv(i, gone, late \cup more2)'
                /\ DoneInv(i, n, sources, calculations, gone, late \cup more2)'
    <3>1. ReadInv(i, sources, calculations, late) /\ GoneInv(i, gone, late)
          /\ DoneInv(i, n, sources, calculations, gone, late)
      BY <2>4, <2>10
    <3>2. /\ sources \subseteq RowsOf(rows', "provenance", i)
          /\ RowsOf(rows', "provenance", i) \subseteq
                ((sources \cup Unowned(i)) \cup (late \cup more2)) \cup orphans'
          /\ calculations = RowsOf(rows', "calculation", i)
          /\ Source(i, 0, "principal") \in sources => Source(i, 0, "principal") \in late \cup more2
      <4>1. PICK P, Q : P = RowsOf(rows, "provenance", i) /\ Q = RowsOf(rows', "provenance", i)
        OBVIOUS
      <4>2. P \subseteq Q /\ Q \subseteq P \cup more2
        BY <2>8, <2>9, <4>1
      <4>3. calculations = RowsOf(rows', "calculation", i)
        BY <2>8, <2>9, <3>1 DEF ReadInv
      <4> QED
        BY <3>1, <4>1, <4>2, <4>3 DEF ReadInv
    <3>3. ReadInv(i, sources, calculations, late \cup more2)'
      BY <3>2 DEF ReadInv, Unowned
    <3>4. ASSUME NEW r \in rows' \ gone, NEW q \in Refs(r) PROVE q \in rows' \ gone
      <4>1. q \in rows'
        BY <3>4 DEF RowsInv, Consistent
      <4>2. CASE r \in rows
        BY <1>1, <3>1, <3>4, <4>2 DEF GoneInv, Consistent
      <4>3. CASE r \in more
        BY <2>6, <3>4, <4>1, <4>3
      <4> QED
        BY <1>1, <4>2, <4>3
    <3>5. \A r \in gone : /\ r \in rows' /\ r.issuer = i /\ r.table \in OwnTables
                          /\ (RealRow(r) => r \in late \cup more2)
      BY <1>1, <3>1 DEF GoneInv
    <3>6. GoneInv(i, gone, late \cup more2)'
      BY <3>4, <3>5 DEF GoneInv, Consistent, RealRow
    <3>7. DoneInv(i, n, sources, calculations, gone, late \cup more2)'
      <4>1. /\ RowsOf(rows', "input", i) = RowsOf(rows, "input", i)
            /\ RowsOf(rows', "position", i) \subseteq RowsOf(rows, "position", i) \cup more2
            /\ RowsOf(rows', "security", i) \subseteq RowsOf(rows, "security", i) \cup more2
        BY <2>8, <2>9
      <4>2. /\ n \in 1..7
            /\ n > 1 => RowsOf(rows', "input", i) \subseteq gone
            /\ n > 2 => RowsOf(rows', "position", i) \subseteq gone \cup (late \cup more2)
            /\ n > 3 => RowsOf(rows', "security", i) \subseteq gone \cup (late \cup more2)
            /\ n > 4 => Issuer(i) \in gone
            /\ n > 5 => sources \subseteq gone
            /\ n > 6 => calculations \subseteq gone
        BY <3>1, <4>1, Zenon DEF DoneInv
      <4> QED
        BY <4>2 DEF DoneInv
    <3> QED
      BY <3>3, <3>6, <3>7
  <2>11. /\ cleanup'.issuer = i /\ deletion'.sources = sources /\ deletion'.calculations = calculations
         /\ deletion'.gone = gone /\ deletion'.next = n /\ deletion'.late = late \cup more2
    BY <2>1, <2>3
  <2>12. /\ cleanup' = [issuer |-> cleanup'.issuer, unchecked |-> cleanup'.unchecked, outcome |-> cleanup'.outcome]
         /\ deletion' = [sources |-> deletion'.sources, calculations |-> deletion'.calculations,
                         gone |-> deletion'.gone, next |-> deletion'.next, late |-> deletion'.late]
         /\ Issuer(i) \in rows'
    BY <1>1, <1>2, <2>3, <2>4, <2>11 DEF CleanupInv
  <2> QED
    BY <1>4, <2>4, <2>7, <2>10, <2>11, <2>12 DEF CleanupInv, Deleting
<1> QED
  BY <1>3, <1>4

\* What other sessions commit for an issuer that is there is none of its
\* calculations, and a real security comes with its source.
LEMMA CommitsAreLate ==
    ASSUME SynthInv, NEW more,
           \/ SeedLoans /\ Commit(more) /\ more = {Issuer("loans"), Source("loans", 0, "issuer")}
                     \cup (UNION {{Security("loans", l), Source("loans", l, "principal")} : l \in Layers})
           \/ more = ReportedLayers \cup (IF Issuer("demo") \in rows THEN {} ELSE DemoRows)
           \/ \E t \in Research, i \in AllIssuers : more = {Row(t, i, 0, "none")}
           \/ \E i \in Synthetic : more = {Security(i, 0), Source(i, 0, "principal")},
           Deleting
    PROVE  /\ \A r \in more : r.issuer = cleanup.issuer =>
                 /\ r.table \in {"security", "position", "provenance"} \cup Research
                 /\ r.table = "provenance" => NoCalculated(r)
           /\ Security(cleanup.issuer, 0) \in more => Source(cleanup.issuer, 0, "principal") \in more
<1>1. PICK i : i = cleanup.issuer
  OBVIOUS
<1>2. i \in Synthetic /\ Issuer(i) \in rows /\ Security(i, 0).issuer = i /\ Security(i, 0).table = "security"
      /\ RowsInv(rows)
  BY <1>1, RowKinds DEF SynthInv, CleanupInv
<1> DEFINE Good == /\ \A r \in more : r.issuer = i =>
                         /\ r.table \in {"security", "position", "provenance"} \cup Research
                         /\ r.table = "provenance" => NoCalculated(r)
                   /\ Security(i, 0) \in more => Source(i, 0, "principal") \in more
<1>3. ASSUME SeedLoans, more = {Issuer("loans"), Source("loans", 0, "issuer")}
                     \cup (UNION {{Security("loans", l), Source("loans", l, "principal")} : l \in Layers})
      PROVE  Good
  <2>1. i # "loans"
    BY <1>2, <1>3 DEF SeedLoans
  <2>2. \A r \in more : r.issuer = "loans"
    <3> SUFFICES ASSUME NEW r \in more PROVE r.issuer = "loans"
      OBVIOUS
    <3>1. \/ r = Issuer("loans") \/ r = Source("loans", 0, "issuer")
          \/ \E l \in Layers : r = Security("loans", l) \/ r = Source("loans", l, "principal")
      BY <1>3
    <3> QED
      BY <3>1, RowKinds
  <2> QED
    BY <1>2, <2>1, <2>2
<1>4. ASSUME more = ReportedLayers \cup (IF Issuer("demo") \in rows THEN {} ELSE DemoRows) PROVE Good
  <2>1. ASSUME NEW r \in ReportedLayers
        PROVE  r.issuer = "loans" /\ r.table \in {"position", "provenance"}
    <3>1. PICK l : r = Position("loans", l) \/ r = Source("loans", l, "position")
      BY <2>1 DEF ReportedLayers
    <3> QED
      BY <3>1, RowKinds
  <2>2. ASSUME NEW r \in DemoRows PROVE r.issuer = "demo"
    BY <2>2, DemoAdded DEF SynthInv
  <2>3. ASSUME NEW r \in more, r.issuer = i
        PROVE  r.table \in {"position", "provenance"} /\ r.issuer = "loans"
    <3>1. CASE r \in ReportedLayers
      BY <2>1, <3>1
    <3>2. CASE Issuer("demo") \notin rows /\ r \in DemoRows
      BY <1>2, <2>2, <2>3, <3>2
    <3> QED
      BY <1>4, <3>1, <3>2
  <2>4. Security(i, 0) \notin more
    BY <1>2, <2>3
  <2> QED
    BY <2>3, <2>4 DEF NoCalculated
<1>5. ASSUME NEW t \in Research, NEW j \in AllIssuers, more = {Row(t, j, 0, "none")} PROVE Good
  <2>1. Row(t, j, 0, "none").table = t /\ t \notin {"provenance", "security"}
    BY SyntheticAssumption DEF Row
  <2> QED
    BY <1>2, <1>5, <2>1
<1>6. ASSUME NEW j \in Synthetic, more = {Security(j, 0), Source(j, 0, "principal")} PROVE Good
  <2>1. /\ Security(j, 0).table = "security" /\ Source(j, 0, "principal").table = "provenance"
        /\ Source(j, 0, "principal").role = "principal" /\ Security(j, 0).issuer = j
    BY RowKinds
  <2> QED
    BY <1>2, <1>6, <2>1 DEF NoCalculated
<1>7. Good
  BY <1>3, <1>4, <1>5, <1>6
<1> QED
  BY <1>1, <1>7

\* Every step of another session, as the rows it commits.
LEMMA Commits ==
    ASSUME SynthInv,
           \/ SeedLoans \/ SeedCapitalStructure
           \/ \E t \in Research, i \in AllIssuers : WriteResearch(t, i)
           \/ \E i \in Synthetic : AddRealSecurity(i)
    PROVE  /\ RowsInv(rows') /\ CleanupInv' /\ orphans' = orphans /\ rows \subseteq rows'
           /\ cleanup' = cleanup
<1>1. RowsInv(rows)
  BY DEF SynthInv
<1>2. RowsInv(rows') /\ orphans' = orphans /\ cleanup' = cleanup
  <2>1. CASE SeedLoans
    BY <1>1, <2>1, LoansAdded DEF SeedLoans
  <2>2. CASE SeedCapitalStructure
    BY <1>1, <2>2, StructureAdded DEF SeedCapitalStructure
  <2>3. CASE \E t \in Research, i \in AllIssuers : WriteResearch(t, i)
    BY <1>1, <2>3, ResearchAdded DEF WriteResearch
  <2>4. CASE \E i \in Synthetic : AddRealSecurity(i)
    BY <1>1, <2>4, RealAdded DEF AddRealSecurity
  <2> QED
    BY <2>1, <2>2, <2>3, <2>4
<1>3. PICK more :
           /\ Commit(more)
           /\ \/ SeedLoans /\ more = {Issuer("loans"), Source("loans", 0, "issuer")}
                     \cup (UNION {{Security("loans", l), Source("loans", l, "principal")} : l \in Layers})
              \/ more = ReportedLayers \cup (IF Issuer("demo") \in rows THEN {} ELSE DemoRows)
              \/ \E t \in Research, i \in AllIssuers : more = {Row(t, i, 0, "none")}
              \/ \E i \in Synthetic : more = {Security(i, 0), Source(i, 0, "principal")}
  <2>1. CASE SeedLoans
    BY <2>1 DEF SeedLoans
  <2>2. CASE SeedCapitalStructure
    BY <2>2 DEF SeedCapitalStructure
  <2>3. CASE \E t \in Research, i \in AllIssuers : WriteResearch(t, i)
    BY <2>3 DEF WriteResearch
  <2>4. CASE \E i \in Synthetic : AddRealSecurity(i)
    BY <2>4 DEF AddRealSecurity
  <2> QED
    BY <2>1, <2>2, <2>3, <2>4
<1>4. Deleting =>
              /\ \A r \in more : r.issuer = cleanup.issuer =>
                    /\ r.table \in {"security", "position", "provenance"} \cup Research
                    /\ r.table = "provenance" => NoCalculated(r)
              /\ Security(cleanup.issuer, 0) \in more => Source(cleanup.issuer, 0, "principal") \in more
  BY <1>3, CommitsAreLate
<1>5. CleanupInv'
  BY <1>2, <1>3, <1>4, CommitKeepsCleanup
<1> QED
  BY <1>2, <1>3, <1>5 DEF Commit

\* The fields of a cleanup and a deletion under way.
LEMMA DeletionFields ==
    ASSUME SynthInv, cleanup.outcome \in {"checked", "deleting"}
    PROVE  /\ RowsInv(rows) /\ OrphansInv
           /\ cleanup.issuer \in Synthetic /\ Issuer(cleanup.issuer) \in rows
           /\ LateInv(cleanup.issuer, deletion.late)
           /\ cleanup.outcome = "checked" => deletion.gone = {}
           /\ cleanup.outcome = "deleting" =>
                 /\ ReadInv(cleanup.issuer, deletion.sources, deletion.calculations, deletion.late)
                 /\ GoneInv(cleanup.issuer, deletion.gone, deletion.late)
                 /\ DoneInv(cleanup.issuer, deletion.next, deletion.sources, deletion.calculations,
                            deletion.gone, deletion.late)
BY DEF SynthInv, CleanupInv, Deleting

\* Every step keeps what is known of a cleanup.
LEMMA CleanupSteps == ASSUME SynthInv, [SynthNext]_synthVars PROVE CleanupInv'
<1>0. CleanupInv
  BY DEF SynthInv
<1>1. ASSUME cleanup' = cleanup, deletion' = deletion, rows' = rows, orphans' = orphans PROVE CleanupInv'
  BY <1>0, <1>1 DEF CleanupInv, Deleting, LateInv, ReadInv, GoneInv, DoneInv, Consistent, NoCalculated,
                    RealRow, Unowned, RowsOf, NoDeletion
<1>2. ASSUME NEW i \in AllIssuers, RemoveSecurities(i) PROVE CleanupInv'
  <2>1. /\ cleanup' = [issuer |-> i, unchecked |-> {}, outcome |-> IF rows' = rows THEN "raised" ELSE "removed"]
        /\ deletion' = deletion
    BY <1>2 DEF RemoveSecurities, Attempt
  <2>2. deletion = NoDeletion
    BY <1>0, <1>2 DEF CleanupInv, RemoveSecurities, Deleting
  <2> QED
    BY <2>1, <2>2 DEF CleanupInv, Deleting, NoDeletion
<1>3. ASSUME NEW i \in AllIssuers, StartDelete(i) PROVE CleanupInv'
  <2>0. deletion' = deletion /\ deletion = NoDeletion /\ rows' = rows /\ Issuer(i) \in rows
    BY <1>0, <1>3 DEF CleanupInv, StartDelete, Deleting
  <2>1. CASE i \in Synthetic
    <3>1. cleanup' = [issuer |-> i, unchecked |-> Research \cap RealDependencyTables, outcome |-> "checking"]
      BY <1>3, <2>1 DEF StartDelete
    <3> QED
      BY <2>0, <2>1, <3>1 DEF CleanupInv, Deleting, NoDeletion
  <2>2. CASE i \notin Synthetic
    <3>1. cleanup' = [issuer |-> i, unchecked |-> {}, outcome |-> "refused"]
      BY <1>3, <2>2 DEF StartDelete
    <3> QED
      BY <2>0, <3>1 DEF CleanupInv, Deleting, NoDeletion
  <2> QED
    BY <2>1, <2>2
<1>4. CASE CheckTable
  <2>1. PICK table \in cleanup.unchecked :
          cleanup' = IF RowsOf(rows, table, cleanup.issuer) # {} THEN [cleanup EXCEPT !.outcome = "refused"]
                     ELSE [cleanup EXCEPT !.unchecked = @ \ {table}]
    BY <1>4 DEF CheckTable
  <2>2. PICK i, u : cleanup = [issuer |-> i, unchecked |-> u, outcome |-> "checking"]
    BY <1>0, <1>4 DEF CleanupInv, CheckTable
  <2>3. \/ cleanup' = [issuer |-> i, unchecked |-> u, outcome |-> "refused"]
        \/ cleanup' = [issuer |-> i, unchecked |-> u \ {table}, outcome |-> "checking"]
    BY <2>1, <2>2
  <2>4. /\ rows' = rows /\ i \in Synthetic /\ Issuer(i) \in rows
        /\ deletion' = deletion /\ deletion = NoDeletion
    BY <1>0, <1>4, <2>2 DEF CheckTable, CleanupInv, Deleting
  <2> QED
    BY <2>3, <2>4 DEF CleanupInv, Deleting, NoDeletion
<1>5. CASE CheckSecurities
  <2>1. PICK i, u : cleanup = [issuer |-> i, unchecked |-> u, outcome |-> "checking"]
    BY <1>0, <1>5 DEF CleanupInv, CheckSecurities
  <2>2. /\ rows' = rows /\ i \in Synthetic /\ Issuer(i) \in rows
        /\ deletion' = deletion /\ deletion = NoDeletion
    BY <1>0, <1>5, <2>1 DEF CheckSecurities, CleanupInv, Deleting
  <2>3. CASE AllSecurities(i) = SyntheticSecurities(i)
    <3>1. cleanup' = [issuer |-> i, unchecked |-> u, outcome |-> "checked"]
      BY <1>5, <2>1, <2>3 DEF CheckSecurities
    <3>2. Security(i, 0) \notin rows
      <4>1. Security(i, 0).role = "real" /\ Security(i, 0).table = "security" /\ Security(i, 0).issuer = i
        BY DEF Security, Row
      <4>2. PICK s : s = Security(i, 0)
        OBVIOUS
      <4>3. s \notin SyntheticSecurities(i)
        BY <4>1, <4>2 DEF SyntheticSecurities
      <4> QED
        BY <2>3, <4>1, <4>2, <4>3 DEF AllSecurities, RowsOf
    <3>3. LateInv(i, {})'
      BY <2>2, <3>2 DEF LateInv
    <3> QED
      BY <2>2, <3>1, <3>3 DEF CleanupInv, Deleting, NoDeletion
  <2>4. CASE AllSecurities(i) # SyntheticSecurities(i)
    <3>1. cleanup' = [issuer |-> i, unchecked |-> u, outcome |-> "refused"]
      BY <1>5, <2>1, <2>4 DEF CheckSecurities
    <3> QED
      BY <2>2, <3>1 DEF CleanupInv, Deleting, NoDeletion
  <2> QED
    BY <2>3, <2>4
<1>6. CASE ReadOwned
  <2>1. PICK i, u : cleanup = [issuer |-> i, unchecked |-> u, outcome |-> "checked"]
    BY <1>0, <1>6 DEF CleanupInv, ReadOwned
  <2>2. PICK sources, calculations, late :
           /\ sources = SourcesOf(rows, Owned(i)) /\ late = deletion.late
           /\ calculations = {r \in rows : r.table = "calculation" /\ \E s \in sources : r \in Refs(s)}
    OBVIOUS
  <2>3. deletion' = [sources |-> sources, calculations |-> calculations, gone |-> {}, next |-> 1, late |-> late]
    <3>1. PICK s0, c0, n0 : deletion = [sources |-> s0, calculations |-> c0, gone |-> {},
                                        next |-> n0, late |-> late]
      BY <1>0, <2>1, <2>2 DEF CleanupInv
    <3>2. deletion' = [deletion EXCEPT !.sources = sources, !.next = 1, !.calculations = calculations]
      BY <1>6, <2>1, <2>2, Zenon DEF ReadOwned
    <3> QED
      BY <3>1, <3>2
  <2>4. /\ cleanup' = [issuer |-> i, unchecked |-> u, outcome |-> "deleting"]
        /\ rows' = rows /\ orphans' = orphans
    BY <1>6, <2>1 DEF ReadOwned
  <2>5. /\ RowsInv(rows) /\ OrphansInv /\ i \in Synthetic /\ Issuer(i) \in rows /\ LateInv(i, late)
    BY <2>1, <2>2, DeletionFields
  <2>6. ReadInv(i, sources, calculations, late)
    BY <2>2, <2>5, ReadsOwned
  <2>7. GoneInv(i, {}, late)
    BY <2>5 DEF GoneInv, RowsInv
  <2>8. DoneInv(i, 1, sources, calculations, {}, late)
    BY DEF DoneInv
  <2>9. /\ LateInv(i, late)' /\ ReadInv(i, sources, calculations, late)' /\ GoneInv(i, {}, late)'
        /\ DoneInv(i, 1, sources, calculations, {}, late)'
    BY <2>4, <2>5, <2>6, <2>7, <2>8 DEF LateInv, ReadInv, GoneInv, DoneInv, Unowned, RealRow, NoCalculated,
                                         Consistent
  <2> QED
    BY <2>3, <2>4, <2>5, <2>9 DEF CleanupInv, Deleting
<1>7. CASE DeleteStatement
  <2>1. PICK i, u : cleanup = [issuer |-> i, unchecked |-> u, outcome |-> "deleting"]
    BY <1>0, <1>7 DEF CleanupInv, DeleteStatement
  <2>2. PICK gone, late, n : gone = deletion.gone /\ late = deletion.late /\ n = deletion.next
    OBVIOUS
  <2>3. /\ RowsInv(rows) /\ i \in Synthetic /\ Issuer(i) \in rows /\ LateInv(i, late) /\ n \in 1..6
        /\ ReadInv(i, deletion.sources, deletion.calculations, late) /\ GoneInv(i, gone, late)
        /\ DoneInv(i, n, deletion.sources, deletion.calculations, gone, late)
    BY <1>7, <2>1, <2>2, DeletionFields DEF DeleteStatement
  <2>4. rows' = rows /\ orphans' = orphans
    BY <1>7 DEF DeleteStatement
  <2>5. PICK more : more = gone \cup Targets(n, i)
    OBVIOUS
  <2>6. CASE Consistent(rows \ more)
    <3>1. /\ cleanup' = cleanup
          /\ deletion' = [deletion EXCEPT !.gone = more, !.next = n + 1]
      BY <1>7, <2>1, <2>2, <2>5, <2>6 DEF DeleteStatement
    <3>2. PICK sources, calculations :
             deletion = [sources |-> sources, calculations |-> calculations,
                         gone |-> gone, next |-> n, late |-> late]
      BY <1>0, <2>2 DEF CleanupInv
    <3>3. deletion' = [sources |-> sources, calculations |-> calculations,
                       gone |-> more, next |-> n + 1, late |-> late]
      BY <3>1, <3>2
    <3>4. GoneInv(i, more, late) /\ DoneInv(i, n + 1, sources, calculations, more, late)
          /\ ReadInv(i, sources, calculations, late)
      BY <2>3, <2>5, <2>6, <3>2, StatementDone
    <3>5. /\ LateInv(i, late)' /\ ReadInv(i, sources, calculations, late)' /\ GoneInv(i, more, late)'
          /\ DoneInv(i, n + 1, sources, calculations, more, late)'
      BY <2>3, <2>4, <3>4 DEF LateInv, ReadInv, GoneInv, DoneInv, Unowned, RealRow, NoCalculated, Consistent
    <3>6. cleanup' = [issuer |-> i, unchecked |-> u, outcome |-> "deleting"]
      BY <2>1, <3>1
    <3> QED
      BY <2>3, <2>4, <3>3, <3>5, <3>6 DEF CleanupInv, Deleting
  <2>7. CASE ~Consistent(rows \ more)
    <3>1. cleanup' = [issuer |-> i, unchecked |-> u, outcome |-> "raised"] /\ deletion' = NoDeletion
      BY <1>7, <2>1, <2>2, <2>5, <2>7 DEF DeleteStatement
    <3> QED
      BY <3>1 DEF CleanupInv, Deleting, NoDeletion
  <2> QED
    BY <2>6, <2>7
<1>8. CASE CommitDelete
  <2>1. PICK i, u : cleanup = [issuer |-> i, unchecked |-> u, outcome |-> "deleting"]
    BY <1>0, <1>8 DEF CleanupInv, CommitDelete
  <2>2. cleanup' = [issuer |-> i, unchecked |-> u, outcome |-> "removed"] /\ deletion' = NoDeletion
    BY <1>8, <2>1 DEF CommitDelete
  <2> QED
    BY <2>2 DEF CleanupInv, Deleting, NoDeletion
<1>9. CASE \/ SeedLoans \/ SeedCapitalStructure
           \/ \E t \in Research, i \in AllIssuers : WriteResearch(t, i)
           \/ \E i \in Synthetic : AddRealSecurity(i)
  BY <1>9, Commits
<1>10. ASSUME NEW i, OpenPage(i) \/ OpenCapitalStructure(i) PROVE CleanupInv'
  BY <1>1, <1>10 DEF OpenPage, OpenCapitalStructure
<1>11. ASSUME NEW roles, ListCreditUniverse(roles) PROVE CleanupInv'
  BY <1>1, <1>11 DEF ListCreditUniverse
<1>12. CASE SourceRow
  BY <1>1, <1>12 DEF SourceRow
<1>13. CASE UNCHANGED synthVars
  BY <1>1, <1>13 DEF synthVars
<1> QED
  BY <1>2, <1>3, <1>4, <1>5, <1>6, <1>7, <1>8, <1>9, <1>10, <1>11, <1>12, <1>13 DEF SynthNext

\* Steps that leave rows and orphans, or commit rows, or take some.
LEMMA RowsMove ==
    ASSUME SynthInv, [SynthNext]_synthVars
    PROVE  \/ rows' = rows /\ orphans' = orphans
           \/ rows \subseteq rows' /\ RowsInv(rows') /\ orphans' = orphans
           \/ \E i \in AllIssuers : RemoveSecurities(i) /\ rows' # rows /\ orphans' = orphans
           \/ CommitDelete
<1>1. ASSUME NEW i \in AllIssuers, RemoveSecurities(i) PROVE orphans' = orphans
  BY <1>1 DEF RemoveSecurities
<1>2. CASE \/ SeedLoans \/ SeedCapitalStructure
           \/ \E t \in Research, i \in AllIssuers : WriteResearch(t, i)
           \/ \E i \in Synthetic : AddRealSecurity(i)
  BY <1>2, Commits
<1> QED
  BY <1>1, <1>2 DEF SynthNext, synthVars, StartDelete, OpenPage, OpenCapitalStructure,
      ListCreditUniverse, CheckTable, CheckSecurities, ReadOwned, DeleteStatement, SourceRow

\* The rows are whole when they are and nothing is orphaned.
LEMMA RowsCarry == ASSUME RowsInv(rows'), orphans' = orphans PROVE RowsInv(rows)'
BY DEF RowsInv, SourcesUsed, Consistent, RowFits

\* Every step keeps the database whole.
LEMMA RowsSteps == ASSUME SynthInv, [SynthNext]_synthVars PROVE RowsInv(rows)'
<1>1. RowsInv(rows)
  BY DEF SynthInv
<1>2. CASE rows' = rows /\ orphans' = orphans
  <2>1. RowsInv(rows')
    BY <1>1, <1>2
  <2> QED
    BY <1>2, <2>1, RowsCarry
<1>3. CASE RowsInv(rows') /\ orphans' = orphans
  BY <1>3, RowsCarry
<1>4. ASSUME NEW i \in AllIssuers, RemoveSecurities(i), rows' # rows, orphans' = orphans
      PROVE  RowsInv(rows)'
  BY <1>1, <1>4, SecuritiesRemoved, RowsCarry
<1>5. CASE CommitDelete
  BY <1>5, IssuerDeleted
<1> QED
  BY <1>2, <1>3, <1>4, <1>5, RowsMove

\* What deletions have left is sources that name no calculation.
LEMMA OrphanSteps == ASSUME SynthInv, [SynthNext]_synthVars PROVE OrphansInv'
<1>1. CASE orphans' = orphans
  BY <1>1 DEF SynthInv, OrphansInv, NoCalculated
<1>2. CASE CommitDelete
  BY <1>2, IssuerDeleted
<1> QED
  BY <1>1, <1>2, RowsMove

\* No step of a cleanup takes anything real that was there at its check.
LEMMA CleanupTakesSynthetic == ASSUME SynthInv, [SynthNext]_synthVars PROVE OnlySynthetic
<1>1. RowsInv(rows)
  BY DEF SynthInv
<1>2. CASE rows \subseteq rows'
  BY <1>2 DEF OnlySynthetic
<1>3. ASSUME NEW i \in AllIssuers, RemoveSecurities(i), rows' # rows PROVE OnlySynthetic
  BY <1>1, <1>3, SecuritiesRemoved DEF OnlySynthetic
<1>4. CASE CommitDelete
  BY <1>4, IssuerDeleted DEF OnlySynthetic, OwnTables
<1> QED
  BY <1>2, <1>3, <1>4, RowsMove

\* A deletion takes the issuer whole, or finds something in its way.
LEMMA DeletionIsAllOrNothing == ASSUME SynthInv, [SynthNext]_synthVars PROVE WholeOrNothing
<1>1. ASSUME cleanup' = cleanup PROVE WholeOrNothing
  BY <1>1 DEF WholeOrNothing
<1>2. ASSUME NEW i, RemoveSecurities(i) \/ StartDelete(i) PROVE WholeOrNothing
  BY <1>2 DEF RemoveSecurities, StartDelete, WholeOrNothing, Deleting
<1>3. ASSUME CheckTable \/ CheckSecurities \/ ReadOwned PROVE WholeOrNothing
  BY <1>3 DEF CheckTable, CheckSecurities, ReadOwned, WholeOrNothing
<1>4. CASE DeleteStatement
  <2>1. PICK i, u : cleanup = [issuer |-> i, unchecked |-> u, outcome |-> "deleting"]
    BY <1>4 DEF DeleteStatement, SynthInv, CleanupInv
  <2>2. PICK gone, late, n : gone = deletion.gone /\ late = deletion.late /\ n = deletion.next
    OBVIOUS
  <2>3. /\ RowsInv(rows) /\ OrphansInv /\ i \in Synthetic /\ Issuer(i) \in rows /\ LateInv(i, late)
        /\ ReadInv(i, deletion.sources, deletion.calculations, late) /\ GoneInv(i, gone, late)
        /\ DoneInv(i, n, deletion.sources, deletion.calculations, gone, late) /\ n \in 1..6
    BY <1>4, <2>1, <2>2, DeletionFields DEF DeleteStatement
  <2>4. CASE Consistent(rows \ (gone \cup Targets(n, i)))
    <3>1. cleanup' = cleanup
      BY <1>4, <2>1, <2>2, <2>4 DEF DeleteStatement
    <3> QED
      BY <1>1, <3>1
  <2>5. CASE ~Consistent(rows \ (gone \cup Targets(n, i)))
    <3>1. late # {} \/ \E t \in Research : RowsOf(rows, t, i) # {}
      BY <2>3, <2>5, StatementFails
    <3>2. cleanup' = [issuer |-> i, unchecked |-> u, outcome |-> "raised"] /\ rows' = rows
      BY <1>4, <2>1, <2>2, <2>5 DEF DeleteStatement
    <3> QED
      BY <2>1, <2>2, <3>1, <3>2 DEF WholeOrNothing
  <2> QED
    BY <2>4, <2>5
<1>5. CASE CommitDelete
  <2>1. PICK i, u : cleanup = [issuer |-> i, unchecked |-> u, outcome |-> "deleting"]
    BY <1>5 DEF CommitDelete, SynthInv, CleanupInv
  <2>2. cleanup' = [issuer |-> i, unchecked |-> u, outcome |-> "removed"]
    BY <1>5, <2>1 DEF CommitDelete
  <2>3. \A r \in rows' : r.issuer = i => r \in Unowned(i) \/ r \in deletion.late \/ r \in orphans
    BY <1>5, <2>1, IssuerDeleted
  <2> QED
    BY <2>1, <2>2, <2>3 DEF WholeOrNothing
<1>6. CASE \/ SeedLoans \/ SeedCapitalStructure
           \/ \E t \in Research, i \in AllIssuers : WriteResearch(t, i)
           \/ \E i \in Synthetic : AddRealSecurity(i)
  BY <1>1, <1>6, Commits
<1> QED
  BY <1>1, <1>2, <1>3, <1>4, <1>5, <1>6
  DEF SynthNext, synthVars, OpenPage, OpenCapitalStructure, ListCreditUniverse, SourceRow

\* The inductive invariant of the demo data: rows refer only to rows that are
\* there, a source that names a row comes with it, a deletion under way has read all
\* that is the issuer's but for what has come since and can delete what it has
\* deleted, and what a page shows has its source.
THEOREM SyntheticInvariant == SynthSpec => []SynthInv
<1>1. SynthInit => SynthInv
  <2> SUFFICES ASSUME SynthInit PROVE SynthInv
    OBVIOUS
  <2>1. RowsInv(rows)
    <3>1. RowsInv(Real) /\ rows = Real
      BY RealRowsAreWhole DEF SynthInit
    <3> QED
      BY <3>1
  <2>2. OrphansInv /\ PageSourced
    BY DEF SynthInit, OrphansInv, PageSourced, NoPage
  <2>3. CleanupInv
    BY DEF SynthInit, CleanupInv, Deleting, NoCleanup, NoDeletion
  <2> QED
    BY <2>1, <2>2, <2>3 DEF SynthInv
<1>2. SynthInv /\ [SynthNext]_synthVars => SynthInv'
  <2> SUFFICES ASSUME SynthInv, [SynthNext]_synthVars PROVE SynthInv'
    OBVIOUS
  <2>1. RowsInv(rows)' /\ OrphansInv' /\ CleanupInv'
    BY RowsSteps, CleanupSteps, OrphanSteps
  <2>2. PageSourced'
    BY PageSteps DEF SynthInv
  <2> QED
    BY <2>1, <2>2 DEF SynthInv
<1> QED
  BY <1>1, <1>2, PTL DEF SynthSpec

\* Cleanup is exact (synthetic_cleanup_service.py): nothing real that was there at the
\* last check is lost, a deletion takes the issuer whole but for what came since or
\* meets research or what came, and no page shows a row without its source.
THEOREM CleanupExact == SynthSpec => CleanupIsExact
<1>1. SynthInv => \A s \in page.shown : s.source # {}
  BY DEF SynthInv, PageSourced
<1>2. SynthInv /\ [SynthNext]_synthVars => [OnlySynthetic /\ WholeOrNothing]_synthVars
  BY CleanupTakesSynthetic, DeletionIsAllOrNothing
<1> QED
  BY <1>1, <1>2, SyntheticInvariant, PTL DEF SynthSpec, CleanupIsExact

-----------------------------------------------------------------------------
(* Induction over the numbers, and sums.                                   *)

\* Induction: a set of numbers with 0 and, with a number, the next is all of them.
LEMMA AllNaturals ==
    ASSUME NEW T, 0 \in T, \A n \in Nat : n \in T => n + 1 \in T
    PROVE  Nat \subseteq T
<1> DEFINE U == Nat \ T
<1>1. ASSUME U # {} PROVE FALSE
  <2>1. PICK m \in U : \A n \in U : m <= n
    BY <1>1, LeastNatural
  <2>2. m # 0 /\ m - 1 \in Nat /\ ~(m <= m - 1)
    BY <2>1
  <2>3. m - 1 \in T
    BY <2>1, <2>2
  <2>4. (m - 1) + 1 \in T /\ (m - 1) + 1 = m
    BY <2>2, <2>3
  <2> QED
    BY <2>4
<1> QED
  BY <1>1

\* Sums up to a bound.
PartialTotal(x, k, g) ==
    g = [n \in 0..k |-> IF n = 0 THEN 0 ELSE g[n - 1] + x[n]]

\* The recursive definition of a sum determines it: its values up to every number
\* exist, by induction, and are the same up to a greater one.
LEMMA TotalIsDefined ==
    ASSUME NEW x
    PROVE  Total(x) = [n \in Nat |-> IF n = 0 THEN 0 ELSE Total(x)[n - 1] + x[n]]
<1> SUFFICES \E s : s = [n \in Nat |-> IF n = 0 THEN 0 ELSE s[n - 1] + x[n]]
  BY DEF Total
<1> DEFINE Reached == {k \in Nat : \E g : PartialTotal(x, k, g)}
<1>1. 0 \in Reached
  <2>1. PartialTotal(x, 0, [n \in 0..0 |-> 0])
    BY DEF PartialTotal
  <2> QED
    BY <2>1
<1>2. ASSUME NEW k \in Nat, k \in Reached PROVE k + 1 \in Reached
  <2>1. PICK g : PartialTotal(x, k, g)
    BY <1>2
  <2> DEFINE h == [n \in 0..(k + 1) |-> IF n = k + 1 THEN g[k] + x[k + 1] ELSE g[n]]
  <2>2. PartialTotal(x, k + 1, h)
    BY <2>1 DEF PartialTotal
  <2> QED
    BY <2>2
<1>3. \A k \in Nat : \E g : PartialTotal(x, k, g)
  <2> HIDE DEF Reached
  <2>1. Nat \subseteq Reached
    BY <1>1, <1>2, AllNaturals
  <2> QED
    BY <2>1 DEF Reached
<1> DEFINE G(k) == CHOOSE g : PartialTotal(x, k, g)
           s == [n \in Nat |-> G(n)[n]]
<1>4. \A k \in Nat : PartialTotal(x, k, G(k))
  BY <1>3
<1> HIDE DEF G
<1>5. ASSUME NEW n \in Nat PROVE G(n + 1)[n] = G(n)[n]
  <2> DEFINE Agree == {i \in Nat : i <= n => G(n + 1)[i] = G(n)[i]}
  <2>1. 0 \in Agree
    BY <1>4 DEF PartialTotal
  <2>2. ASSUME NEW i \in Nat, i \in Agree PROVE i + 1 \in Agree
    BY <1>4, <2>2 DEF PartialTotal
  <2>3. Nat \subseteq Agree
    <3> HIDE DEF Agree
    <3> QED
      BY <2>1, <2>2, AllNaturals
  <2> QED
    BY <2>3
<1>6. ASSUME NEW n \in Nat PROVE s[n] = IF n = 0 THEN 0 ELSE s[n - 1] + x[n]
  <2>1. CASE n = 0
    BY <1>4, <2>1 DEF PartialTotal
  <2>2. CASE n # 0
    <3>1. n - 1 \in Nat /\ (n - 1) + 1 = n
      BY <2>2
    <3>2. G(n)[n - 1] = G(n - 1)[n - 1]
      BY <1>5, <3>1
    <3>3. G(n)[n] = G(n)[n - 1] + x[n]
      BY <1>4, <2>2, <3>1 DEF PartialTotal
    <3> QED
      BY <2>2, <3>1, <3>2, <3>3
  <2> QED
    BY <2>1, <2>2
<1> QED
  BY <1>6

-----------------------------------------------------------------------------
(* Search: the hits of a response.                                         *)

\* The queries of a search, and the one a hit answers.
AllQueries == ExactQueries \cup GroupQueries
TierNames == {"exact", "prefix", "text", "similar"}
QueryOf(hit) == <<hit.entity.kind, hit.tier>>

\* The query of a hit has been asked, and those to come are no earlier.
WasAsked(hit) ==
    QueryOf(hit) \in AllQueries \ asked
    /\ \A query \in asked : QueryTurn(QueryOf(hit)) <= QueryTurn(query)

\* Two hits are in the order of their queries; the same row at most as an exact
\* match and in its group.
InOrder(g, h) ==
    /\ QueryTurn(QueryOf(g)) <= QueryTurn(QueryOf(h))
    /\ g.entity = h.entity => ((g.tier = "exact") # (h.tier = "exact"))

\* The inductive invariant of a search.
SearchInv ==
    /\ found \in Seq([entity : Entities, tier : TierNames])
    /\ asked \subseteq AllQueries
    /\ \A i \in DOMAIN found : WasAsked(found[i])
    /\ \A i, j \in DOMAIN found : i < j => InOrder(found[i], found[j])
    /\ \A k \in Kinds : Cardinality(InGroup(k)) <= GroupLimit

\* Queries have a kind that is searched and a tier, and within a kind their turns
\* go by tier.
LEMMA QueriesAreOrdered ==
    ASSUME NEW q \in AllQueries, NEW r \in AllQueries
    PROVE  /\ q[1] \in Kinds /\ q[2] \in TierNames /\ q = <<q[1], q[2]>>
           /\ QueryTurn(q) \in Nat
           /\ q[1] = r[1] /\ QueryTurn(q) <= QueryTurn(r) => Tier(q[2]) <= Tier(r[2])
<1>1. \A k \in Kinds : GroupOrder[k] \in 1..9
  <2>1. \A k \in DOMAIN GroupOrder : GroupOrder[k] \in 1..9
    BY DEF GroupOrder
  <2> QED
    BY <2>1, SearchAssumption DEF Kinds
<1>2. \A t \in TierNames : Tier(t) \in 0..3 /\ (t # "exact" => Tier(t) > 0)
  BY DEF Tier, TierNames
<1>3. Tier("exact") = 0
  BY DEF Tier
<1>4. \A p \in AllQueries : p[1] \in Kinds /\ p[2] \in TierNames /\ p = <<p[1], p[2]>>
  <2>1. \A k : Tiers(k) \subseteq TierNames
    BY DEF Tiers, TierNames
  <2> QED
    BY <2>1 DEF AllQueries, ExactQueries, GroupQueries, TierNames
<1>5. \A p \in AllQueries :
         QueryTurn(p) = IF p[2] = "exact" THEN GroupOrder[p[1]] ELSE 10 * GroupOrder[p[1]] + Tier(p[2])
  BY DEF QueryTurn
<1>6. \A p \in AllQueries : GroupOrder[p[1]] \in 1..9 /\ Tier(p[2]) \in 0..3
  BY <1>1, <1>2, <1>4
<1>7. QueryTurn(q) \in Nat /\ QueryTurn(r) \in Nat
  BY <1>5, <1>6
<1>8. ASSUME q[1] = r[1], QueryTurn(q) <= QueryTurn(r) PROVE Tier(q[2]) <= Tier(r[2])
  <2>1. CASE q[2] = "exact"
    BY <1>3, <1>6, <2>1
  <2>2. CASE q[2] # "exact" /\ r[2] = "exact"
    BY <1>5, <1>6, <1>8, <2>2
  <2>3. CASE q[2] # "exact" /\ r[2] # "exact"
    BY <1>5, <1>6, <1>8, <2>3
  <2> QED
    BY <2>1, <2>2, <2>3
<1> QED
  BY <1>4, <1>7, <1>8

\* What a query returns: rows of its kind, new to the group and no more than fit.
LEMMA FetchedRows ==
    ASSUME SearchInv, NEW kind \in Kinds, NEW tier, NEW batch \in Fetched(kind, tier)
    PROVE  /\ batch \subseteq Entities /\ IsFiniteSet(batch) /\ Cardinality(batch) \in Nat
           /\ \A e \in batch : e.kind = kind /\ (tier # "exact" => e \notin SeenSoFar(kind))
           /\ tier # "exact" => Cardinality(InGroup(kind)) + Cardinality(batch) <= GroupLimit
<1>1. batch \subseteq Candidates(kind, tier) /\ Candidates(kind, tier) \subseteq Entities
  BY DEF Fetched, Candidates
<1>2. /\ IsFiniteSet(batch) /\ Cardinality(batch) \in Nat
      /\ IsFiniteSet(Candidates(kind, tier)) /\ Cardinality(Candidates(kind, tier)) \in Nat
  BY <1>1, SearchAssumption, FS_Subset, FS_CardinalityType
<1>3. ASSUME tier # "exact"
      PROVE  Cardinality(InGroup(kind)) + Cardinality(batch) <= GroupLimit
  <2>1. InGroup(kind) \subseteq 1..Len(found) /\ Len(found) \in Nat
    BY DEF InGroup, SearchInv
  <2>2. IsFiniteSet(1..Len(found))
    BY <2>1, FS_Interval
  <2>3. Cardinality(InGroup(kind)) \in Nat
    BY <2>1, <2>2, FS_Subset, FS_CardinalityType
  <2>4. PICK room, n : /\ room = GroupLimit - Cardinality(InGroup(kind))
                       /\ n = Cardinality(Candidates(kind, tier))
    OBVIOUS
  <2>5. Cardinality(batch) = Min({room, n})
    BY <1>3, <2>4 DEF Fetched
  <2>6. room \in Int /\ n \in Int
    BY <1>2, <2>3, <2>4, SearchAssumption
  <2>7. Cardinality(batch) <= room
    BY <2>5, <2>6, MinOfTwo
  <2> QED
    BY <1>2, <2>3, <2>4, <2>7, SearchAssumption
<1> QED
  BY <1>1, <1>2, <1>3 DEF Candidates

\* The hits of a query are appended: what was found stays, and what is new is of
\* its kind and tier, each row once.
Extends(f, query, batch, n) ==
    /\ f \in Seq([entity : Entities, tier : TierNames]) /\ Len(f) = Len(found) + n
    /\ \A i \in 1..Len(found) : f[i] = found[i]
    /\ \A i \in (Len(found) + 1)..(Len(found) + n) :
          f[i].entity \in batch /\ f[i].tier = query[2]
    /\ \A i, j \in (Len(found) + 1)..(Len(found) + n) : i # j => f[i].entity # f[j].entity

\* What one query adds to what was found.
LEMMA HitsExtend ==
    ASSUME SearchInv, NEW query \in AllQueries, NEW batch \in Fetched(query[1], query[2]),
           NEW order \in Orders(batch)
    PROVE  Extends(found \o Hits(order, query[2]), query, batch, Cardinality(batch))
<1> DEFINE H == Hits(order, query[2])
           n == Cardinality(batch)
           S == [entity : Entities, tier : TierNames]
<1>1. query[1] \in Kinds /\ query[2] \in TierNames
  BY QueriesAreOrdered
<1>2. n \in Nat /\ n = Cardinality(batch) /\ batch \subseteq Entities
  BY <1>1, FetchedRows
<1>3. order \in [1..n -> batch] /\ \A i, j \in 1..n : i # j => order[i] # order[j]
  BY DEF Orders
<1>4. H = [i \in 1..n |-> [entity |-> order[i], tier |-> query[2]]]
  BY <1>3 DEF Hits
<1>5. H \in [1..n -> S]
  BY <1>1, <1>2, <1>3, <1>4
<1> HIDE DEF H, n, S
<1>6. H \in Seq(S) /\ Len(H) = n
  <2>1. H \in Seq(S)
    BY <1>2, <1>5
  <2>2. DOMAIN H = 1..n
    BY <1>5
  <2> QED
    BY <1>2, <2>1, <2>2
<1>7. found \in Seq(S) /\ Len(found) \in Nat
  BY DEF SearchInv, S
<1>8. /\ found \o H \in Seq(S) /\ Len(found \o H) = Len(found) + n
      /\ \A i \in 1..Len(found) : (found \o H)[i] = found[i]
      /\ \A i \in (Len(found) + 1)..(Len(found) + n) : (found \o H)[i] = H[i - Len(found)]
  BY <1>6, <1>7
<1>9. \A i \in (Len(found) + 1)..(Len(found) + n) : i - Len(found) \in 1..n
  BY <1>2, <1>7
<1>12. \A k \in 1..n : H[k].entity = order[k] /\ H[k].tier = query[2]
  BY <1>4
<1>10. \A i \in (Len(found) + 1)..(Len(found) + n) :
          (found \o H)[i].entity = order[i - Len(found)] /\ (found \o H)[i].tier = query[2]
  BY <1>8, <1>9, <1>12
<1>11. \A i, j \in (Len(found) + 1)..(Len(found) + n) :
          i # j => (found \o H)[i].entity # (found \o H)[j].entity
  <2> SUFFICES ASSUME NEW i \in (Len(found) + 1)..(Len(found) + n),
                      NEW j \in (Len(found) + 1)..(Len(found) + n), i # j
               PROVE  order[i - Len(found)] # order[j - Len(found)]
    BY <1>10
  <2>1. i - Len(found) # j - Len(found)
    BY <1>2, <1>7
  <2> QED
    BY <1>3, <1>9, <2>1
<1>13. \A i \in (Len(found) + 1)..(Len(found) + n) : order[i - Len(found)] \in batch
  BY <1>3, <1>9
<1>14. Extends(found \o H, query, batch, n)
  BY <1>8, <1>10, <1>11, <1>13 DEF Extends, S
<1> QED
  BY <1>2, <1>14 DEF H

\* The new hits are in order, with those before them and among themselves.
LEMMA NewHitsInOrder ==
    ASSUME SearchInv, NEW query \in asked, \A other \in asked : QueryTurn(query) <= QueryTurn(other),
           NEW batch \in Fetched(query[1], query[2]), NEW n \in Nat,
           NEW f, Extends(f, query, batch, n)
    PROVE  /\ \A i \in (Len(found) + 1)..(Len(found) + n) : QueryOf(f[i]) = query
           /\ \A i, j \in DOMAIN f : i < j => InOrder(f[i], f[j])
<1>1. query \in AllQueries /\ Len(found) \in Nat /\ DOMAIN found = 1..Len(found)
  BY DEF SearchInv
<1>2. /\ query[1] \in Kinds /\ query[2] \in TierNames /\ query = <<query[1], query[2]>>
      /\ QueryTurn(query) \in Nat
  BY <1>1, QueriesAreOrdered
<1>3. \A e \in batch : e.kind = query[1] /\ (query[2] # "exact" => e \notin SeenSoFar(query[1]))
  BY <1>2, FetchedRows
<1>4. DOMAIN f = 1..(Len(found) + n)
  BY DEF Extends
<1>5. ASSUME NEW i \in (Len(found) + 1)..(Len(found) + n) PROVE QueryOf(f[i]) = query
  BY <1>2, <1>3 DEF Extends, QueryOf
<1>6. ASSUME NEW i \in DOMAIN f, NEW j \in DOMAIN f, i < j PROVE InOrder(f[i], f[j])
  <2>1. CASE j <= Len(found)
    <3>1. i \in DOMAIN found /\ j \in DOMAIN found /\ f[i] = found[i] /\ f[j] = found[j]
      BY <1>1, <1>4, <1>6, <2>1 DEF Extends
    <3> QED
      BY <1>6, <3>1 DEF SearchInv
  <2>2. CASE i <= Len(found) /\ Len(found) < j
    <3>1. i \in DOMAIN found /\ f[i] = found[i] /\ j \in (Len(found) + 1)..(Len(found) + n)
      BY <1>1, <1>4, <2>2 DEF Extends
    <3>2. WasAsked(found[i])
      BY <3>1 DEF SearchInv
    <3>3. QueryOf(f[j]) = query /\ f[j].entity \in batch /\ f[j].tier = query[2]
      BY <1>5, <3>1 DEF Extends
    <3>4. QueryTurn(QueryOf(f[i])) <= QueryTurn(QueryOf(f[j]))
      BY <3>1, <3>2, <3>3 DEF WasAsked
    <3>5. ASSUME f[i].entity = f[j].entity
          PROVE  (f[i].tier = "exact") # (f[j].tier = "exact")
      <4>1. f[i].entity.kind = query[1]
        BY <1>3, <3>3, <3>5
      <4>2. f[i].tier # query[2]
        <5>1. QueryOf(f[i]) # query
          BY <3>1, <3>2 DEF WasAsked
        <5> QED
          BY <1>2, <4>1, <5>1 DEF QueryOf
      <4>3. CASE query[2] = "exact"
        BY <3>3, <4>2, <4>3
      <4>4. CASE query[2] # "exact"
        <5>1. f[i].entity \notin SeenSoFar(query[1])
          BY <1>3, <3>3, <3>5, <4>4
        <5>2. f[i].tier = "exact"
          BY <3>1, <4>1, <5>1 DEF SeenSoFar, InGroup
        <5> QED
          BY <3>3, <4>4, <5>2
      <4> QED
        BY <4>3, <4>4
    <3> QED
      BY <3>4, <3>5 DEF InOrder
  <2>3. CASE Len(found) < i
    <3>1. i \in (Len(found) + 1)..(Len(found) + n) /\ j \in (Len(found) + 1)..(Len(found) + n)
      BY <1>1, <1>4, <1>6, <2>3
    <3>2. QueryOf(f[i]) = query /\ QueryOf(f[j]) = query /\ f[i].entity # f[j].entity
      BY <1>5, <1>6, <3>1 DEF Extends
    <3> QED
      BY <1>2, <3>2 DEF InOrder
  <2> QED
    BY <1>1, <1>4, <1>6, <2>1, <2>2, <2>3
<1> QED
  BY <1>5, <1>6

\* A query keeps its group within the limit and adds to no other.
LEMMA GroupWithinLimit ==
    ASSUME SearchInv, NEW query \in asked, NEW batch \in Fetched(query[1], query[2]),
           NEW f, Extends(f, query, batch, Cardinality(batch)), found' = f, NEW k \in Kinds
    PROVE  Cardinality(InGroup(k)') <= GroupLimit
<1> DEFINE n == Cardinality(batch)
<1>1. query \in AllQueries /\ Len(found) \in Nat /\ DOMAIN found = 1..Len(found)
  BY DEF SearchInv
<1>2. query[1] \in Kinds
  BY <1>1, QueriesAreOrdered
<1>3. n \in Nat /\ \A e \in batch : e.kind = query[1]
  BY <1>2, FetchedRows
<1>4. DOMAIN f = 1..(Len(found) + n)
  BY DEF Extends
<1>5. \A i \in DOMAIN f : \/ i \in DOMAIN found /\ f[i] = found[i]
                          \/ i \in (Len(found) + 1)..(Len(found) + n)
  BY <1>1, <1>3, <1>4 DEF Extends
<1>6. DOMAIN found \subseteq DOMAIN f /\ \A i \in DOMAIN found : f[i] = found[i]
  BY <1>1, <1>3, <1>4 DEF Extends
<1>7. \A i \in (Len(found) + 1)..(Len(found) + n) :
         f[i].entity.kind = query[1] /\ f[i].tier = query[2]
  BY <1>3 DEF Extends
<1>8. InGroup(k)' = {i \in DOMAIN f : f[i].entity.kind = k /\ f[i].tier # "exact"}
  BY DEF InGroup
<1>9. CASE k # query[1] \/ query[2] = "exact"
  <2>1. InGroup(k)' = InGroup(k)
    BY <1>5, <1>6, <1>7, <1>8, <1>9 DEF InGroup
  <2> QED
    BY <2>1 DEF SearchInv
<1>10. CASE k = query[1] /\ query[2] # "exact"
  <2> DEFINE new == (Len(found) + 1)..(Len(found) + n)
  <2>1. new \subseteq DOMAIN f
    BY <1>1, <1>3, <1>4
  <2>2. InGroup(k)' = InGroup(k) \cup new
    BY <1>5, <1>6, <1>7, <1>8, <1>10, <2>1 DEF InGroup
  <2>3. InGroup(k) \subseteq 1..Len(found) /\ InGroup(k) \cap new = {}
    BY <1>1 DEF InGroup
  <2>4. IsFiniteSet(1..Len(found))
    BY <1>1, FS_Interval
  <2>5. IsFiniteSet(InGroup(k)) /\ Cardinality(InGroup(k)) \in Nat
    BY <2>3, <2>4, FS_Subset, FS_CardinalityType
  <2>6. IsFiniteSet(new) /\ Cardinality(new) = n
    <3>1. PICK a, b : a = Len(found) + 1 /\ b = Len(found) + n
      OBVIOUS
    <3>2. a \in Int /\ b \in Int /\ (IF a > b THEN 0 ELSE b - a + 1) = n
      BY <1>1, <1>3, <3>1
    <3>3. IsFiniteSet(a..b) /\ Cardinality(a..b) = IF a > b THEN 0 ELSE b - a + 1
      BY <3>2, FS_Interval
    <3> QED
      BY <3>1, <3>2, <3>3
  <2>7. Cardinality(InGroup(k) \cup new) = Cardinality(InGroup(k)) + n - Cardinality(InGroup(k) \cap new)
    BY <2>5, <2>6, FS_Union
  <2>8. Cardinality(InGroup(k)) + n <= GroupLimit
    BY <1>2, <1>10, FetchedRows
  <2>9. Cardinality(InGroup(k) \cap new) = 0
    BY <2>3, FS_EmptySet
  <2> HIDE DEF new
  <2>10. Cardinality(InGroup(k)') = Cardinality(InGroup(k)) + n - 0
    BY <2>2, <2>7, <2>9
  <2> QED
    BY <1>3, <2>5, <2>8, <2>10
<1> QED
  BY <1>9, <1>10

\* The next query keeps the hits in order, once each, and the groups in their limits.
LEMMA AskKeepsOrder ==
    ASSUME SearchInv, Ask
    PROVE  SearchInv'
<1>1. PICK query \in asked :
         /\ \A other \in asked : QueryTurn(query) <= QueryTurn(other)
         /\ \E batch \in Fetched(query[1], query[2]) : \E order \in Orders(batch) :
               found' = found \o Hits(order, query[2])
         /\ asked' = asked \ {query}
  BY DEF Ask
<1>2. PICK batch \in Fetched(query[1], query[2]) : \E order \in Orders(batch) :
         found' = found \o Hits(order, query[2])
  BY <1>1
<1>3. PICK order \in Orders(batch) : found' = found \o Hits(order, query[2])
  BY <1>2
<1>4. query \in AllQueries /\ asked \subseteq AllQueries /\ Len(found) \in Nat
  BY DEF SearchInv
<1>5. query[1] \in Kinds
  BY <1>4, QueriesAreOrdered
<1>6. Cardinality(batch) \in Nat
  BY <1>5, FetchedRows
<1>7. PICK f : f = found \o Hits(order, query[2])
  OBVIOUS
<1>8. found' = f /\ Extends(f, query, batch, Cardinality(batch))
  BY <1>3, <1>4, <1>7, HitsExtend
<1>9. /\ \A i \in (Len(found) + 1)..(Len(found) + Cardinality(batch)) : QueryOf(f[i]) = query
      /\ \A i, j \in DOMAIN f : i < j => InOrder(f[i], f[j])
  BY <1>1, <1>6, <1>8, NewHitsInOrder
<1>10. \A k \in Kinds : Cardinality(InGroup(k)') <= GroupLimit
  BY <1>8, GroupWithinLimit
<1>11. asked' \subseteq AllQueries
  BY <1>1, <1>4
<1>12. ASSUME NEW i \in DOMAIN f
       PROVE  /\ QueryOf(f[i]) \in AllQueries \ asked'
              /\ \A other \in asked' : QueryTurn(QueryOf(f[i])) <= QueryTurn(other)
  <2>1. DOMAIN f = 1..(Len(found) + Cardinality(batch)) /\ DOMAIN found = 1..Len(found)
    BY <1>4, <1>8 DEF Extends, SearchInv
  <2>2. CASE i <= Len(found)
    <3>1. i \in DOMAIN found /\ f[i] = found[i]
      BY <1>4, <1>8, <2>1, <2>2 DEF Extends
    <3> QED
      BY <1>1, <3>1 DEF SearchInv, WasAsked
  <2>3. CASE ~(i <= Len(found))
    <3>1. i \in (Len(found) + 1)..(Len(found) + Cardinality(batch))
      BY <1>4, <1>6, <2>1, <2>3
    <3> QED
      BY <1>1, <1>4, <1>9, <3>1
  <2> QED
    BY <2>2, <2>3
<1>13. found' \in Seq([entity : Entities, tier : TierNames])
  BY <1>8 DEF Extends
<1>14. (\A i \in DOMAIN found : WasAsked(found[i]))'
  BY <1>8, <1>12 DEF WasAsked, QueryOf, AllQueries, ExactQueries, GroupQueries, Kinds
<1>15. \A i, j \in DOMAIN found' : i < j => InOrder(found'[i], found'[j])
  BY <1>8, <1>9
<1> QED
  BY <1>10, <1>11, <1>13, <1>14, <1>15 DEF SearchInv

\* A row is an exact match at most once, and in its group at most once: without
\* the exact matches of a group, nothing is there twice.
LEMMA InOrderIsOnce ==
    ASSUME SearchInv
    PROVE  NothingShownTwice
<1>1. ASSUME NEW i \in Results, NEW j \in Results, i < j
      PROVE  /\ found[i].entity # found[j].entity
             /\ found[i].entity.kind = found[j].entity.kind =>
                   Tier(found[i].tier) <= Tier(found[j].tier)
  <2>1. i \in DOMAIN found /\ j \in DOMAIN found
    BY <1>1 DEF Results
  <2>2. /\ InOrder(found[i], found[j])
        /\ QueryOf(found[i]) \in AllQueries /\ QueryOf(found[j]) \in AllQueries
    BY <1>1, <2>1 DEF SearchInv, WasAsked
  <2>3. found[i].entity # found[j].entity
    BY <1>1, <2>1, <2>2 DEF InOrder, Results, ExactHits
  <2>4. ASSUME found[i].entity.kind = found[j].entity.kind
        PROVE  Tier(found[i].tier) <= Tier(found[j].tier)
    <3>1. /\ QueryOf(found[i])[1] = QueryOf(found[j])[1]
          /\ QueryOf(found[i])[2] = found[i].tier /\ QueryOf(found[j])[2] = found[j].tier
      BY <2>4 DEF QueryOf
    <3>2. QueryTurn(QueryOf(found[i])) <= QueryTurn(QueryOf(found[j]))
      BY <2>2 DEF InOrder
    <3> QED
      BY <2>2, <3>1, <3>2, QueriesAreOrdered
  <2> QED
    BY <2>3, <2>4
<1> QED
  BY <1>1 DEF NothingShownTwice, SearchInv

\* Between any two queries the hits are in the order of the queries asked, a row is
\* in its group once, and no group is over its limit.
THEOREM SearchIsOrdered == SearchSpec => []SearchInv
<1>1. SearchInit => SearchInv
  <2> SUFFICES ASSUME SearchInit PROVE SearchInv
    OBVIOUS
  <2>1. found = <<>> /\ DOMAIN found = {} /\ asked = AllQueries
    BY DEF SearchInit, AllQueries
  <2>2. ASSUME NEW k \in Kinds PROVE Cardinality(InGroup(k)) <= GroupLimit
    <3>1. InGroup(k) = {}
      BY <2>1 DEF InGroup
    <3> QED
      BY <3>1, FS_EmptySet, SearchAssumption
  <2> QED
    BY <2>1, <2>2 DEF SearchInv
<1>2. SearchInv /\ [SearchNext]_searchVars => SearchInv'
  <2> SUFFICES ASSUME SearchInv, [SearchNext]_searchVars PROVE SearchInv'
    OBVIOUS
  <2>1. CASE Ask
    BY <2>1, AskKeepsOrder
  <2>2. CASE UNCHANGED <<asked, found>>
    BY <2>2 DEF SearchInv, WasAsked, InGroup, QueryOf, AllQueries, ExactQueries, GroupQueries, Kinds, InOrder
  <2>3. ASSUME NEW e \in Entities, Edit(e) PROVE UNCHANGED <<asked, found>>
    BY <2>3 DEF Edit
  <2> QED
    BY <2>1, <2>2, <2>3 DEF SearchNext, searchVars
<1> QED
  BY <1>1, <1>2, PTL DEF SearchSpec

\* Nothing appears twice in a response, better tiers of a group come first and no
\* group is longer than the limit, whatever is edited between its queries.
THEOREM SearchShowsNothingTwice == SearchSpec => []NothingShownTwice
<1>1. SearchInv => NothingShownTwice
  BY InOrderIsOnce
<1> QED
  BY <1>1, SearchIsOrdered, PTL

-----------------------------------------------------------------------------
(* DistressRules: the alert of a source.                                   *)

\* A rule has one of three severities, and one a docket entry is not read with
\* classifies no issuer.
Sound(r) == /\ r[3] \in {"high", "medium", "low"}
            /\ r[1] \in DocketExcluded => ~Classifies(r)

\* The inductive invariant of the rules: nothing is made of a text but all that matched.
DistressInv ==
    /\ mentions \subseteq (UNION {MentionsOf(s) : s \in Sources})
    /\ evidence = [s \in Sources |-> evidence[s]] /\ alerts = [s \in Sources |-> alerts[s]]
    /\ \A s \in Sources : /\ evidence[s] \in {{}, MatchRules(s)}
                          /\ alerts[s] \subseteq {Alert(evidence[s])}
                          /\ alerts[s] # {} => evidence[s] # {}

\* A sequence over a set is one over any larger set.
LEMMA SeqOfLarger ==
    ASSUME NEW S, NEW T, S \subseteq T, NEW q \in Seq(S)
    PROVE  q \in Seq(T)
OBVIOUS

\* Every rule of the list has a severity, and no rule a docket entry is not read
\* with classifies an issuer.
LEMMA RulesAreSound == DOMAIN Rules \subseteq Nat /\ \A i \in DOMAIN Rules : Sound(Rules[i])
<1>1. ItemRules \in Seq({ItemRules[i] : i \in 1..4}) /\ \A i \in 1..4 : Sound(ItemRules[i])
  <2>1. ItemRules \in Seq({ItemRules[i] : i \in 1..4}) /\ DOMAIN ItemRules = 1..4
    BY DEF ItemRules
  <2>2. \A i \in DOMAIN ItemRules : Sound(ItemRules[i])
    BY DEF ItemRules, Sound, DocketExcluded, Classifies, DefinitiveTypes
  <2> QED
    BY <2>1, <2>2
<1>2. InsolvencyRules \in Seq({InsolvencyRules[i] : i \in 1..11}) /\ \A i \in 1..11 : Sound(InsolvencyRules[i])
  <2>1. InsolvencyRules \in Seq({InsolvencyRules[i] : i \in 1..11}) /\ DOMAIN InsolvencyRules = 1..11
    BY DEF InsolvencyRules
  <2>2. \A i \in DOMAIN InsolvencyRules : Sound(InsolvencyRules[i])
    BY DEF InsolvencyRules, Sound, DocketExcluded, Classifies, DefinitiveTypes
  <2> QED
    BY <2>1, <2>2
<1>3. FinancingRules \in Seq({FinancingRules[i] : i \in 1..8}) /\ \A i \in 1..8 : Sound(FinancingRules[i])
  <2>1. FinancingRules \in Seq({FinancingRules[i] : i \in 1..8}) /\ DOMAIN FinancingRules = 1..8
    BY DEF FinancingRules
  <2>2. \A i \in DOMAIN FinancingRules : Sound(FinancingRules[i])
    BY DEF FinancingRules, Sound, DocketExcluded, Classifies, DefinitiveTypes
  <2> QED
    BY <2>1, <2>2
<1>4. OperatingRules \in Seq({OperatingRules[i] : i \in 1..8}) /\ \A i \in 1..8 : Sound(OperatingRules[i])
  <2>1. OperatingRules \in Seq({OperatingRules[i] : i \in 1..8}) /\ DOMAIN OperatingRules = 1..8
    BY DEF OperatingRules
  <2>2. \A i \in DOMAIN OperatingRules : Sound(OperatingRules[i])
    BY DEF OperatingRules, Sound, DocketExcluded, Classifies, DefinitiveTypes
  <2> QED
    BY <2>1, <2>2
<1>5. DocketRules \in Seq({DocketRules[i] : i \in 1..6}) /\ \A i \in 1..6 : Sound(DocketRules[i])
  <2>1. DocketRules \in Seq({DocketRules[i] : i \in 1..6}) /\ DOMAIN DocketRules = 1..6
    BY DEF DocketRules
  <2>2. \A i \in DOMAIN DocketRules : Sound(DocketRules[i])
    BY DEF DocketRules, Sound, DocketExcluded, Classifies, DefinitiveTypes
  <2> QED
    BY <2>1, <2>2
<1> DEFINE all == {ItemRules[i] : i \in 1..4} \cup {InsolvencyRules[i] : i \in 1..11}
              \cup {FinancingRules[i] : i \in 1..8} \cup {OperatingRules[i] : i \in 1..8}
              \cup {DocketRules[i] : i \in 1..6}
<1>6. \A r \in all : Sound(r)
  BY <1>1, <1>2, <1>3, <1>4, <1>5
<1>7. /\ ItemRules \in Seq(all) /\ InsolvencyRules \in Seq(all) /\ FinancingRules \in Seq(all)
      /\ OperatingRules \in Seq(all) /\ DocketRules \in Seq(all)
  BY <1>1, <1>2, <1>3, <1>4, <1>5, SeqOfLarger
<1> HIDE DEF all
<1>8. Rules \in Seq(all)
  BY <1>7 DEF Rules, PhraseRules
<1> QED
  BY <1>6, <1>8

\* A place where a rule matches: its mention is in a text.
LEMMA PlacesAreNatural ==
    ASSUME DistressInv, NEW s, NEW rule
    PROVE  PlacesOf(s, rule) \subseteq Nat
<1>1. ASSUME NEW n \in mentions PROVE n.at \in Nat
  <2>1. PICK t \in Sources : n \in MentionsOf(t)
    BY <1>1 DEF DistressInv
  <2>2. n.at \in Places \cup {0}
    BY <2>1 DEF MentionsOf
  <2>3. Places \cup {0} \subseteq Nat
    BY PlacesAssumption
  <2> QED
    BY <2>2, <2>3
<1> QED
  BY <1>1 DEF PlacesOf

\* The scan finds a rule that is mentioned, whatever is masked before it.
LEMMA MentionedMatches ==
    ASSUME DistressInv, NEW s, NEW i \in DOMAIN Rules, Mentioned(s, Rules[i]),
           Rules[i][1] \notin Excluded(s)
    PROVE  i \in MatchRules(s)
<1> DEFINE rule == Rules[i][1]
           clear == {p \in PlacesOf(s, rule) : rule \in Suppressible => p \notin masked}
<1>1. clear # {}
  BY DEF Mentioned
<1>2. clear \subseteq Nat
  BY PlacesAreNatural
<1>3. PICK p \in clear : \A q \in clear : p <= q
  <2> HIDE DEF clear
  <2> QED
    BY <1>1, <1>2, LeastNatural
<1>4. p \in Match(s, rule)
  BY <1>3 DEF Match
<1> QED
  BY <1>4 DEF MatchRules

\* No signal of a bundle is worse than the primary one.
LEMMA PrimaryIsWorst ==
    ASSUME NEW bundle, bundle \subseteq DOMAIN Rules, NEW i \in bundle
    PROVE  Rank(PrimaryEvidence(bundle)[3]) <= Rank(Rules[i][3])
<1>1. \A j \in DOMAIN Rules : Rank(Rules[j][3]) \in Nat
  BY RulesAreSound DEF Sound, Rank
<1> DEFINE ranks == {Rank(Rules[j][3]) : j \in bundle}
<1>2. ranks \subseteq Nat /\ ranks # {}
  BY <1>1
<1>3. PICK m \in ranks : \A n \in ranks : m <= n
  <2> HIDE DEF ranks
  <2> QED
    BY <1>2, LeastNatural
<1>4. PICK w \in bundle : \A j \in bundle : Rank(Rules[w][3]) <= Rank(Rules[j][3])
  BY <1>3
<1>5. Worst(bundle) # {} /\ Worst(bundle) \subseteq bundle
  BY <1>4 DEF Worst
<1>6. Worst(bundle) \subseteq Nat
  BY <1>5, RulesAreSound
<1>7. \E p \in Worst(bundle) : \A j \in Worst(bundle) : p <= j
  BY <1>5, <1>6, LeastNatural
<1>8. PICK p \in Worst(bundle) : PrimaryEvidence(bundle) = Rules[p]
  BY <1>7 DEF PrimaryEvidence
<1> QED
  BY <1>8 DEF Worst

\* An alert made of all that matched leads with the worst of it.
LEMMA SoundAlerts ==
    ASSUME DistressInv
    PROVE  WorstSignalLeads
<1> SUFFICES ASSUME NEW s \in Sources, NEW r \in Range(Rules), Mentioned(s, r)
             PROVE  IF r[1] \in Excluded(s) THEN ~Classifies(r)
                    ELSE /\ MatchRules(s) # {}
                         /\ \A alert \in alerts[s] :
                               r[1] \in alert.evidence /\ Rank(alert.severity) <= Rank(r[3])
  BY DEF WorstSignalLeads
<1>1. PICK i \in DOMAIN Rules : r = Rules[i]
  BY DEF Range
<1>2. CASE r[1] \in Excluded(s)
  <2>1. Sound(r)
    BY <1>1, RulesAreSound
  <2> QED
    BY <1>2, <2>1 DEF Sound, Excluded
<1>3. CASE r[1] \notin Excluded(s)
  <2>1. i \in MatchRules(s)
    BY <1>1, <1>3, MentionedMatches
  <2>2. ASSUME NEW alert \in alerts[s]
        PROVE  r[1] \in alert.evidence /\ Rank(alert.severity) <= Rank(r[3])
    <3>1. alert = Alert(evidence[s]) /\ evidence[s] = MatchRules(s)
      BY <2>2 DEF DistressInv
    <3>2. MatchRules(s) \subseteq DOMAIN Rules
      BY DEF MatchRules
    <3>3. Rank(PrimaryEvidence(evidence[s])[3]) <= Rank(r[3])
      BY <1>1, <2>1, <3>1, <3>2, PrimaryIsWorst
    <3> QED
      BY <1>1, <2>1, <3>1, <3>3 DEF Alert
  <2> QED
    BY <1>3, <2>1, <2>2
<1> QED
  BY <1>2, <1>3

\* A text is published before anything is made of it.
LEMMA PublishKeepsAlerts ==
    ASSUME DistressInv, Publish
    PROVE  DistressInv'
<1>1. \A s : MatchRules(s) = {}
  BY DEF Publish, MatchRules, Match, PlacesOf
<1>2. \A s \in Sources : evidence[s] = {} /\ alerts[s] = {}
  BY <1>1 DEF DistressInv
<1>3. mentions' \subseteq (UNION {MentionsOf(s) : s \in Sources})
  <2> DEFINE all == UNION {MentionsOf(s) : s \in Sources}
  <2>1. mentions' \in UpTo(MaxMentions, all)
    BY DEF Publish
  <2> HIDE DEF all
  <2>2. mentions' \subseteq all
    BY <2>1 DEF UpTo
  <2> QED
    BY <2>2 DEF all
<1>4. evidence' = evidence /\ alerts' = alerts
  BY DEF Publish
<1> QED
  BY <1>2, <1>3, <1>4 DEF DistressInv, MentionsOf

\* Evidence of a source is all that matched.
LEMMA ProcessKeepsAlerts ==
    ASSUME DistressInv, NEW s \in Sources, ProcessSource(s)
    PROVE  DistressInv'
<1>1. /\ mentions' = mentions /\ masked' = masked /\ alerts' = alerts
      /\ evidence' = [evidence EXCEPT ![s] = MatchRules(s)] /\ evidence[s] = {}
  BY DEF ProcessSource
<1>2. \A t : MatchRules(t)' = MatchRules(t)
  BY <1>1 DEF MatchRules, Match, PlacesOf
<1>3. \A t \in Sources : evidence'[t] = IF t = s THEN MatchRules(s) ELSE evidence[t]
  BY <1>1 DEF DistressInv
<1>4. evidence' = [t \in Sources |-> evidence'[t]]
  BY <1>1 DEF DistressInv
<1>5. ASSUME NEW t \in Sources
      PROVE  /\ evidence'[t] \in {{}, MatchRules(t)'}
             /\ alerts'[t] \subseteq {Alert(evidence'[t])}
             /\ alerts'[t] # {} => evidence'[t] # {}
  BY <1>1, <1>2, <1>3 DEF DistressInv
<1> QED
  BY <1>1, <1>4, <1>5 DEF DistressInv, MentionsOf

\* An alert is made once, of the evidence there is.
LEMMA SynthesisKeepsAlerts ==
    ASSUME DistressInv, SynthesizeAlerts
    PROVE  DistressInv'
<1>1. /\ mentions' = mentions /\ masked' = masked /\ evidence' = evidence
      /\ alerts' = [s \in Sources |-> IF evidence[s] = {} \/ alerts[s] # {} THEN alerts[s]
                                      ELSE {Alert(evidence[s])}]
  BY DEF SynthesizeAlerts
<1>2. \A t : MatchRules(t)' = MatchRules(t)
  BY <1>1 DEF MatchRules, Match, PlacesOf
<1>3. ASSUME NEW t \in Sources
      PROVE  /\ evidence'[t] \in {{}, MatchRules(t)'}
             /\ alerts'[t] \subseteq {Alert(evidence'[t])}
             /\ alerts'[t] # {} => evidence'[t] # {}
  BY <1>1, <1>2 DEF DistressInv
<1> QED
  BY <1>1, <1>3 DEF DistressInv, MentionsOf

\* Evidence is none or all that matched, and an alert is the one of its bundle.
THEOREM AlertsAreSound == DistressSpec => []DistressInv
<1>1. DistressInit => DistressInv
  BY DEF DistressInit, DistressInv
<1>2. DistressInv /\ [DistressNext]_distressVars => DistressInv'
  <2> SUFFICES ASSUME DistressInv, [DistressNext]_distressVars PROVE DistressInv'
    OBVIOUS
  <2>1. CASE UNCHANGED distressVars
    BY <2>1 DEF distressVars, DistressInv, MentionsOf, MatchRules, Match, PlacesOf
  <2> QED
    BY <2>1, PublishKeepsAlerts, SynthesisKeepsAlerts, ProcessKeepsAlerts DEF DistressNext
<1> QED
  BY <1>1, <1>2, PTL DEF DistressSpec

\* Whatever a text mentions, in whatever order its rules match: what is not excluded
\* is evidence of its alert, and the alert is at least as severe.
THEOREM AlertLeadsWithWorst == DistressSpec => []WorstSignalLeads
<1>1. DistressInv => WorstSignalLeads
  BY SoundAlerts
<1> QED
  BY <1>1, AlertsAreSound, PTL

-----------------------------------------------------------------------------
(* The recovery waterfall.                                                 *)

\* The most junior layer, and the claims down to one.
LastLayer == Cardinality(Layers)
OwedUpTo(a, n) == Total(a)[n]

\* What is owed down to a layer.
LEMMA OwedAddsUp ==
    ASSUME NEW a \in [Layers -> Nat]
    PROVE  /\ LastLayer \in Nat /\ Layers = 1..LastLayer
           /\ OwedUpTo(a, 0) = 0
           /\ \A n \in Layers : OwedUpTo(a, n) = OwedUpTo(a, n - 1) + a[n]
           /\ \A n \in 0..LastLayer : OwedUpTo(a, n) \in Nat
           /\ \A n \in 0..LastLayer : \A m \in 0..n : OwedUpTo(a, m) <= OwedUpTo(a, n)
<1>1. LastLayer \in Nat /\ Layers = 1..LastLayer
  BY SyntheticAssumption, FS_CardinalityType DEF LastLayer
<1>2. \A n \in Nat : OwedUpTo(a, n) = IF n = 0 THEN 0 ELSE OwedUpTo(a, n - 1) + a[n]
  BY TotalIsDefined DEF OwedUpTo
<1> HIDE DEF OwedUpTo
<1>3. OwedUpTo(a, 0) = 0 /\ \A n \in Layers : OwedUpTo(a, n) = OwedUpTo(a, n - 1) + a[n]
  BY <1>1, <1>2
<1> DEFINE Fine == {n \in Nat : n <= LastLayer =>
                       \A m \in 0..n : OwedUpTo(a, m) \in Nat /\ OwedUpTo(a, m) <= OwedUpTo(a, n)}
<1>4. 0 \in Fine
  BY <1>3
<1>5. ASSUME NEW n \in Nat, n \in Fine PROVE n + 1 \in Fine
  <2> SUFFICES ASSUME n + 1 <= LastLayer
               PROVE  \A m \in 0..(n + 1) : OwedUpTo(a, m) \in Nat /\ OwedUpTo(a, m) <= OwedUpTo(a, n + 1)
    OBVIOUS
  <2>1. n <= LastLayer /\ n + 1 \in Layers /\ (n + 1) - 1 = n
    BY <1>1
  <2>2. \A m \in 0..n : OwedUpTo(a, m) \in Nat /\ OwedUpTo(a, m) <= OwedUpTo(a, n)
    BY <1>5, <2>1
  <2>3. OwedUpTo(a, n + 1) = OwedUpTo(a, n) + a[n + 1] /\ a[n + 1] \in Nat /\ OwedUpTo(a, n) \in Nat
    BY <1>3, <2>1, <2>2
  <2>4. \A m \in 0..(n + 1) : m \in 0..n \/ m = n + 1
    OBVIOUS
  <2> QED
    BY <2>2, <2>3, <2>4
<1>6. Nat \subseteq Fine
  <2> HIDE DEF Fine
  <2> QED
    BY <1>4, <1>5, AllNaturals
<1> QED
  BY <1>1, <1>3, <1>6

\* Multiplication by a natural number keeps the order.
LEMMA TimesKeepsOrder ==
    ASSUME NEW a \in Int, NEW b \in Int, NEW w \in Nat, a <= b
    PROVE  a * w <= b * w
OBVIOUS

\* The rounded percentage, in hundredths, of a part of a whole.
LEMMA PercentRounds ==
    ASSUME NEW w, w \in Nat, w > 0, NEW p, p \in Nat, p <= w
    PROVE  /\ Percent(p, w) \in 0..10000
           /\ p = 0 => Percent(p, w) = 0
           /\ p = w => Percent(p, w) = 10000
           /\ 2 * Distance(Percent(p, w) * w, 10000 * p) <= w
<1> DEFINE q == Percent(p, w)
<1>1. q \in Int /\ 2 * (q * w) <= 20000 * p + w /\ 20000 * p + w < 2 * (q * w) + 2 * w
  BY DEF Percent
<1>2. q * w \in Int
  BY <1>1
<1> HIDE DEF q
<1>3. 0 <= q
  <2>1. ASSUME q <= -1 PROVE FALSE
    <3>1. q * w <= (-1) * w
      BY <1>1, <2>1, TimesKeepsOrder
    <3> QED
      BY <1>1, <1>2, <3>1
  <2> QED
    BY <1>1, <2>1
<1>4. q <= 10000
  <2>1. ASSUME 10001 <= q PROVE FALSE
    <3>1. 10001 * w <= q * w
      BY <1>1, <2>1, TimesKeepsOrder
    <3> QED
      BY <1>1, <1>2, <3>1
  <2> QED
    BY <1>1, <2>1
<1>5. ASSUME p = 0 PROVE q = 0
  <2>1. ASSUME 1 <= q PROVE FALSE
    <3>1. 1 * w <= q * w
      BY <1>1, <2>1, TimesKeepsOrder
    <3> QED
      BY <1>1, <1>2, <1>5, <3>1
  <2> QED
    BY <1>1, <1>3, <2>1
<1>6. ASSUME p = w PROVE q = 10000
  <2>1. ASSUME q <= 9999 PROVE FALSE
    <3>1. q * w <= 9999 * w
      BY <1>1, <2>1, TimesKeepsOrder
    <3> QED
      BY <1>1, <1>2, <1>6, <3>1
  <2> QED
    BY <1>1, <1>4, <2>1
<1>7. 2 * Distance(q * w, 10000 * p) <= w
  BY <1>1, <1>2 DEF Distance
<1>8. q \in 0..10000
  BY <1>1, <1>3, <1>4
<1> QED
  BY <1>5, <1>6, <1>7, <1>8 DEF q

\* The smaller of two numbers and the larger.
LEMMA MinMaxOfTwo ==
    ASSUME NEW b \in Int, NEW c \in Int
    PROVE  /\ Min({b, c}) = IF b <= c THEN b ELSE c
           /\ Max({b, c}) = IF b <= c THEN c ELSE b
<1>1. Min({b, c}) = IF b <= c THEN b ELSE c
  BY MinOfTwo
<1>2. \E x \in {b, c} : \A y \in {b, c} : x >= y
  <2>1. CASE b <= c
    BY <2>1
  <2>2. CASE ~(b <= c)
    BY <2>2
  <2> QED
    BY <2>1, <2>2
<1> QED
  BY <1>1, <1>2 DEF Max

\* What a layer recovers: all, nothing, or what is left, rounded.
LayerFits(a, v, l, r) ==
    /\ r \in 0..10000
    /\ OwedUpTo(a, l) <= v => r * a[l] = 10000 * a[l] /\ (a[l] = 0 \/ r = 10000)
    /\ v <= OwedUpTo(a, l - 1) => r = 0
    /\ OwedUpTo(a, l - 1) < v /\ v < OwedUpTo(a, l) =>
          2 * Distance(r * a[l], 10000 * (v - OwedUpTo(a, l - 1))) <= a[l]

\* What the waterfall leaves to one layer, in hundredths of a percent.
LEMMA LayerRecovers ==
    ASSUME NEW a \in [Layers -> Nat], NEW v \in Nat, NEW l \in Layers
    PROVE  LayerFits(a, v, l, RecoveryWaterfall(a, v)[l])
<1> DEFINE r == RecoveryWaterfall(a, v)[l]
           s == OwedUpTo(a, l - 1)
           p == Recoverable(a, l, v)
<1>1. s \in Nat /\ OwedUpTo(a, l) = s + a[l] /\ a[l] \in Nat
  <2>1. l - 1 \in 0..LastLayer
    BY OwedAddsUp
  <2> QED
    BY <2>1, OwedAddsUp
<1>2. p = Max({0, Min({a[l], v - s})})
  BY DEF Recoverable, SeniorTo, OwedUpTo
<1>3. r = IF a[l] = 0 THEN 0 ELSE Percent(p, a[l])
  BY DEF RecoveryWaterfall
<1> HIDE DEF s, p, r
<1>4. p = IF v <= s THEN 0 ELSE IF s + a[l] <= v THEN a[l] ELSE v - s
  <2>1. Min({a[l], v - s}) = IF a[l] <= v - s THEN a[l] ELSE v - s
    BY <1>1, MinMaxOfTwo
  <2>2. PICK m : m = Min({a[l], v - s})
    OBVIOUS
  <2>3. m \in Int
    BY <1>1, <2>1, <2>2
  <2>4. p = Max({0, m})
    BY <1>2, <2>2, Zenon
  <2>5. Max({0, m}) = IF 0 <= m THEN m ELSE 0
    <3>1. 0 \in Int
      OBVIOUS
    <3> QED
      BY <2>3, <3>1, MinMaxOfTwo, Zenon
  <2> QED
    BY <1>1, <2>1, <2>2, <2>4, <2>5
<1>5. CASE a[l] = 0
  <2>1. r = 0 /\ r * a[l] = 0
    BY <1>3, <1>5
  <2>2. ~(s < v /\ v < OwedUpTo(a, l))
    BY <1>1, <1>5
  <2> QED
    BY <1>1, <1>5, <2>1, <2>2 DEF s, r, LayerFits
<1>6. CASE a[l] # 0
  <2>1. p \in 0..a[l]
    BY <1>1, <1>4
  <2>2. /\ r \in 0..10000
        /\ p = 0 => r = 0
        /\ p = a[l] => r = 10000
        /\ 2 * Distance(r * a[l], 10000 * p) <= a[l]
    <3>1. PICK c \in Nat : c = a[l] /\ c > 0
      BY <1>1, <1>6
    <3>2. r = Percent(p, c) /\ p \in Nat /\ p <= c
      BY <1>3, <1>6, <2>1, <3>1
    <3> QED
      <4>1. /\ Percent(p, c) \in 0..10000
            /\ p = 0 => Percent(p, c) = 0
            /\ p = c => Percent(p, c) = 10000
            /\ 2 * Distance(Percent(p, c) * c, 10000 * p) <= c
        BY <3>1, <3>2, PercentRounds
      <4> QED
        BY <3>1, <3>2, <4>1
  <2>3. OwedUpTo(a, l) <= v => p = a[l]
    BY <1>1, <1>4, <1>6
  <2>4. v <= s => p = 0
    BY <1>4
  <2>5. s < v /\ v < OwedUpTo(a, l) => p = v - s
    BY <1>1, <1>4
  <2> QED
    BY <2>2, <2>3, <2>4, <2>5 DEF s, r, LayerFits
<1> QED
  BY <1>5, <1>6

Paid(a, w, n) == Total([l \in Layers |-> w[l] * a[l]])[n]

\* The layers so far receive what they are owed, or the value but for the rounding
\* of one of them.
PaidFits(a, v, n, q) ==
    /\ q \in Int
    /\ OwedUpTo(a, n) <= v => q = 10000 * OwedUpTo(a, n)
    /\ v < OwedUpTo(a, n) => \E l \in 1..n : 2 * Distance(q, 10000 * v) <= a[l]

\* What the layers down to one are paid together, by induction over the layers.
LEMMA PaidSoFar ==
    ASSUME NEW a \in [Layers -> Nat], NEW v \in Nat, NEW w, w = RecoveryWaterfall(a, v),
           NEW n \in 0..LastLayer
    PROVE  PaidFits(a, v, n, Paid(a, w, n))
<1> DEFINE x == [l \in Layers |-> w[l] * a[l]]
           Fits(k) == PaidFits(a, v, k, Paid(a, w, k))
           Fitting == {k \in Nat : k <= LastLayer => Fits(k)}
<1>1. LastLayer \in Nat /\ Layers = 1..LastLayer
  BY OwedAddsUp
<1>2. \A k \in Nat : Paid(a, w, k) = IF k = 0 THEN 0 ELSE Paid(a, w, k - 1) + x[k]
  BY TotalIsDefined DEF Paid
<1> HIDE DEF Fits, PaidFits
<1>3. 0 \in Fitting
  <2>1. OwedUpTo(a, 0) = 0
    BY OwedAddsUp
  <2>2. Paid(a, w, 0) = 0
    BY <1>2
  <2> QED
    BY <2>1, <2>2 DEF Fits, PaidFits
<1>4. ASSUME NEW k \in Nat, k \in Fitting PROVE k + 1 \in Fitting
  <2> SUFFICES ASSUME k + 1 <= LastLayer PROVE Fits(k + 1)
    OBVIOUS
  <2>1. PICK l \in Layers : l = k + 1
    BY <1>1
  <2>2. Fits(k) /\ l - 1 = k /\ l \in Nat \ {0} /\ k \in 0..LastLayer
    BY <1>1, <1>4, <2>1
  <2>3. PICK r : r = w[l]
    OBVIOUS
  <2>4. PICK s, t, b, q : s = OwedUpTo(a, k) /\ t = OwedUpTo(a, l) /\ b = Paid(a, w, k) /\ q = Paid(a, w, l)
    OBVIOUS
  <2>5. s \in Nat /\ t = s + a[l] /\ a[l] \in Nat
    BY <2>2, <2>4, OwedAddsUp
  <2>6. q = b + r * a[l]
    <3>1. x[l] = r * a[l]
      BY <2>3
    <3> HIDE DEF x
    <3> QED
      BY <1>2, <2>2, <2>4, <3>1
  <2>7. /\ r \in 0..10000
        /\ t <= v => r * a[l] = 10000 * a[l]
        /\ v <= s => r = 0
        /\ s < v /\ v < t => 2 * Distance(r * a[l], 10000 * (v - s)) <= a[l]
    <3>1. OwedUpTo(a, l - 1) = s /\ OwedUpTo(a, l) = t
      BY <2>2, <2>4
    <3>2. LayerFits(a, v, l, r)
      BY <2>3, LayerRecovers
    <3> QED
      BY <3>1, <3>2 DEF LayerFits
  <2>8. PICK y : y = r * a[l]
    OBVIOUS
  <2>9. y \in Int /\ (v <= s => y = 0)
    BY <2>5, <2>7, <2>8
  <2>10. b \in Int /\ (s <= v => b = 10000 * s)
    BY <2>2, <2>4 DEF Fits, PaidFits
  <2>15. q = b + y
    BY <2>6, <2>8
  <2>16. t <= v => y = 10000 * a[l]
    BY <2>7, <2>8
  <2>11. q \in Int /\ (t <= v => q = 10000 * t)
    BY <2>5, <2>9, <2>10, <2>15, <2>16
  <2>12. ASSUME v < t PROVE \E m \in 1..l : 2 * Distance(q, 10000 * v) <= a[m]
    <3>1. CASE v < s
      <4>1. PICK m \in 1..k : 2 * Distance(b, 10000 * v) <= a[m]
        BY <2>2, <2>4, <3>1 DEF Fits, PaidFits
      <4>2. q = b /\ m \in 1..l
        BY <2>2, <2>5, <2>9, <2>10, <2>15, <3>1, <4>1
      <4> QED
        BY <4>1, <4>2
    <3>2. CASE s <= v
      <4>1. q = 10000 * s + y
        BY <2>10, <2>15, <3>2
      <4>2. Distance(q, 10000 * v) = Distance(y, 10000 * (v - s))
        BY <2>5, <2>9, <4>1 DEF Distance
      <4>3. CASE s = v
        <5>1. Distance(y, 10000 * (v - s)) = 0
          BY <2>9, <4>3 DEF Distance
        <5> QED
          BY <2>2, <2>5, <4>2, <5>1
      <4>4. CASE s < v
        <5>1. 2 * Distance(y, 10000 * (v - s)) <= a[l]
          BY <2>7, <2>8, <2>12, <4>4
        <5> QED
          BY <2>2, <4>2, <5>1
      <4> QED
        BY <2>5, <3>2, <4>3, <4>4
    <3> QED
      BY <2>5, <3>1, <3>2
  <2> QED
    BY <2>1, <2>4, <2>11, <2>12 DEF Fits, PaidFits
<1>5. Nat \subseteq Fitting
  <2> HIDE DEF Fitting
  <2> QED
    BY <1>3, <1>4, AllNaturals
<1> QED
  BY <1>1, <1>5 DEF Fits

\* A layer that recovers something has the senior ones paid in full.
LEMMA SeniorPaidFirst ==
    ASSUME NEW a \in [Layers -> Nat], NEW v \in Nat,
           NEW w, w = RecoveryWaterfall(a, v), NEW l \in Layers, NEW m \in Layers, l < m, w[m] > 0
    PROVE  a[l] = 0 \/ w[l] = 10000
<1>1. l \in 0..LastLayer /\ m - 1 \in 0..LastLayer /\ l \in 0..(m - 1)
  BY OwedAddsUp
<1>2. /\ OwedUpTo(a, l) <= OwedUpTo(a, m - 1)
      /\ OwedUpTo(a, l) \in Nat /\ OwedUpTo(a, m - 1) \in Nat
  BY <1>1, OwedAddsUp
<1>3. LayerFits(a, v, l, w[l]) /\ LayerFits(a, v, m, w[m])
  BY LayerRecovers
<1>4. ~(v <= OwedUpTo(a, m - 1))
  BY <1>3 DEF LayerFits
<1>5. OwedUpTo(a, l) <= v
  BY <1>2, <1>4
<1> QED
  BY <1>3, <1>5 DEF LayerFits

\* The recoveries on file are those of the waterfall over the demo stack.
WaterfallInv ==
    /\ stack \in Stacks
    /\ Issuer("demo") \in rows => recoveries = RecoveryWaterfall(stack.amount, stack.value)

\* The recoveries of a waterfall have the property.
LEMMA WaterfallIsSenior ==
    ASSUME WaterfallInv
    PROVE  SeniorFirst
<1> SUFFICES ASSUME Issuer("demo") \in rows PROVE SeniorFirst
  BY DEF SeniorFirst
<1>1. PICK a, v, w : a = stack.amount /\ v = stack.value /\ w = recoveries
  OBVIOUS
<1>2. a \in [Layers -> Nat] /\ v \in Nat /\ w = RecoveryWaterfall(a, v)
  BY <1>1, SyntheticAssumption DEF WaterfallInv
<1>3. \A l, m \in Layers : l < m /\ w[m] > 0 => a[l] = 0 \/ w[l] = 10000
  BY <1>2, SeniorPaidFirst
<1>4. ASSUME NEW l \in Layers PROVE w[l] \in 0..10000
  <2>1. LayerFits(a, v, l, w[l])
    BY <1>2, LayerRecovers
  <2> QED
    BY <2>1 DEF LayerFits
<1> DEFINE owed == SeniorTo(a, Cardinality(Layers) + 1)
           paid == Total([l \in Layers |-> w[l] * a[l]])[Cardinality(Layers)]
           amounts == {0} \cup {a[l] : l \in Layers}
<1>5. LastLayer \in Nat /\ Layers = 1..LastLayer /\ LastLayer \in 0..LastLayer
  BY <1>2, OwedAddsUp
<1>6. owed = OwedUpTo(a, LastLayer) /\ paid = Paid(a, w, LastLayer) /\ owed \in Nat
  <2>1. Cardinality(Layers) = LastLayer /\ (Cardinality(Layers) + 1) - 1 = LastLayer
    BY <1>5 DEF LastLayer
  <2>2. owed = OwedUpTo(a, LastLayer) /\ paid = Paid(a, w, LastLayer)
    BY <2>1 DEF OwedUpTo, Paid, SeniorTo
  <2> QED
    BY <1>2, <1>5, <2>2, OwedAddsUp
<1>7. Max(amounts) \in Nat /\ \A x \in amounts : x <= Max(amounts)
  <2>1. \A x \in amounts : x <= owed
    <3>1. ASSUME NEW l \in Layers PROVE a[l] <= owed
      <4>1. l - 1 \in 0..LastLayer /\ l \in 0..LastLayer
        BY <1>5
      <4>2. /\ OwedUpTo(a, l) = OwedUpTo(a, l - 1) + a[l] /\ OwedUpTo(a, l - 1) \in Nat
            /\ OwedUpTo(a, l) <= OwedUpTo(a, LastLayer) /\ a[l] \in Nat
        BY <1>2, <1>5, <4>1, OwedAddsUp
      <4> HIDE DEF owed
      <4> QED
        BY <1>6, <4>2
    <3> HIDE DEF owed
    <3> QED
      BY <1>6, <3>1
  <2>2. amounts \subseteq Nat /\ amounts # {}
    BY <1>2
  <2> HIDE DEF amounts, owed
  <2>3. \E m \in amounts : \A n \in amounts : n <= m
    BY <1>6, <2>1, <2>2, LargestNatural
  <2> QED
    BY <2>2, <2>3 DEF Max
<1>8. 2 * Distance(paid, 10000 * Min({v, owed})) <= Max(amounts)
  <2>1. 0 \in amounts /\ \A l \in Layers : a[l] \in amounts
    OBVIOUS
  <2> HIDE DEF owed, paid, amounts
  <2>2. Min({v, owed}) = IF v <= owed THEN v ELSE owed
    BY <1>2, <1>6, MinMaxOfTwo
  <2>3. /\ paid \in Int
        /\ owed <= v => paid = 10000 * owed
        /\ v < owed => \E l \in 1..LastLayer : 2 * Distance(paid, 10000 * v) <= a[l]
    <3>1. PaidFits(a, v, LastLayer, Paid(a, w, LastLayer))
      BY <1>2, <1>5, PaidSoFar
    <3> QED
      BY <1>6, <3>1 DEF PaidFits
  <2>4. CASE owed <= v
    <3>1. 10000 * Min({v, owed}) = 10000 * owed
      BY <1>2, <1>6, <2>2, <2>4
    <3>2. Distance(paid, 10000 * Min({v, owed})) = 0
      BY <1>6, <2>3, <2>4, <3>1 DEF Distance
    <3> QED
      BY <1>7, <2>1, <3>2
  <2>5. CASE v < owed
    <3>1. PICK l \in Layers : 2 * Distance(paid, 10000 * v) <= a[l]
      BY <1>5, <2>3, <2>5
    <3>2. Min({v, owed}) = v
      BY <1>2, <1>6, <2>2, <2>5
    <3>3. a[l] <= Max(amounts) /\ a[l] \in Nat /\ Distance(paid, 10000 * v) \in Int
      BY <1>2, <1>7, <2>1, <2>3 DEF Distance
    <3> QED
      BY <1>7, <3>1, <3>2, <3>3
  <2> QED
    BY <1>2, <1>6, <2>4, <2>5
<1> QED
  BY <1>1, <1>3, <1>4, <1>8 DEF SeniorFirst

\* Recoveries are computed when the demo issuer is seeded and change at no other step.
LEMMA WaterfallSteps ==
    ASSUME WaterfallInv, SynthNext
    PROVE  WaterfallInv'
<1>1. stack' = stack
  BY DEF SynthNext, SeedLoans, SeedCapitalStructure, RemoveSecurities, StartDelete, OpenPage,
         OpenCapitalStructure, ListCreditUniverse, CheckTable, CheckSecurities, ReadOwned,
         DeleteStatement, CommitDelete, SourceRow, WriteResearch, AddRealSecurity
<1>2. ASSUME SeedCapitalStructure, Issuer("demo") \in rows'
      PROVE  recoveries' = RecoveryWaterfall(stack.amount, stack.value)
  BY <1>2 DEF WaterfallInv, SeedCapitalStructure
<1>3. ASSUME recoveries' = recoveries, Issuer("demo") \in rows' => Issuer("demo") \in rows
      PROVE  WaterfallInv'
  BY <1>1, <1>3 DEF WaterfallInv, RecoveryWaterfall
<1>4. CASE SeedLoans
  <2>1. Issuer("demo") \in rows' => Issuer("demo") \in rows
    <3> DEFINE added == {Issuer("loans"), Source("loans", 0, "issuer")}
                        \cup (UNION {{Security("loans", l), Source("loans", l, "principal")} : l \in Layers})
    <3>1. \A r \in added : r.issuer = "loans"
      <4> SUFFICES ASSUME NEW r \in added PROVE r.issuer = "loans"
        OBVIOUS
      <4>1. CASE r \in {Issuer("loans"), Source("loans", 0, "issuer")}
        <5>1. \A l, role : Source("loans", l, role).issuer = "loans"
          BY DEF Source, Row
        <5>2. Issuer("loans").issuer = "loans"
          BY DEF Issuer, Row
        <5> QED
          BY <4>1, <5>1, <5>2
      <4>2. ASSUME NEW l \in Layers, r \in {Security("loans", l), Source("loans", l, "principal")}
            PROVE  r.issuer = "loans"
        BY <4>2 DEF Source, Security, Row
      <4> QED
        BY <4>1, <4>2
    <3>2. rows' = rows \cup added
      BY <1>4 DEF SeedLoans, Commit
    <3>3. Issuer("demo").issuer = "demo"
      BY DEF Issuer, Row
    <3> HIDE DEF added
    <3> QED
      BY <3>1, <3>2, <3>3
  <2> QED
    BY <1>3, <1>4, <2>1 DEF SeedLoans
<1>5. CASE SeedCapitalStructure
  BY <1>1, <1>2, <1>5 DEF WaterfallInv
<1>6. ASSUME NEW t \in Research, NEW i \in AllIssuers, WriteResearch(t, i) PROVE WaterfallInv'
  <2>1. t # "issuer"
    BY SyntheticAssumption
  <2>2. Issuer("demo") # Row(t, i, 0, "none")
    BY <2>1 DEF Issuer, Row
  <2> QED
    BY <1>3, <1>6, <2>2 DEF WriteResearch, Commit
<1>13. ASSUME NEW i, AddRealSecurity(i) PROVE WaterfallInv'
  <2>1. Issuer("demo") \notin {Security(i, 0), Source(i, 0, "principal")}
    BY DEF Issuer, Security, Source, Row
  <2> QED
    BY <1>3, <1>13, <2>1 DEF AddRealSecurity, Commit
<1>7. ASSUME NEW i, NEW statements, Attempt(i, statements), recoveries' = recoveries
      PROVE  WaterfallInv'
  <2>1. rows' \subseteq rows
    BY <1>7 DEF Attempt, Transaction
  <2> QED
    BY <1>3, <1>7, <2>1
<1>8. ASSUME NEW i \in AllIssuers, RemoveSecurities(i) PROVE WaterfallInv'
  BY <1>7, <1>8 DEF RemoveSecurities
<1>9. CASE CommitDelete
  BY <1>3, <1>9 DEF CommitDelete
<1>10. CASE rows' = rows /\ recoveries' = recoveries
  BY <1>3, <1>10
<1>11. ASSUME NEW i \in AllIssuers, StartDelete(i) \/ OpenPage(i) \/ OpenCapitalStructure(i)
       PROVE  rows' = rows /\ recoveries' = recoveries
  BY <1>11 DEF StartDelete, OpenPage, OpenCapitalStructure
<1>12. ASSUME CheckTable \/ SourceRow \/ \E roles : ListCreditUniverse(roles)
       PROVE  rows' = rows /\ recoveries' = recoveries
  BY <1>12 DEF CheckTable, SourceRow, ListCreditUniverse
<1>14. ASSUME CheckSecurities \/ ReadOwned \/ DeleteStatement
       PROVE  rows' = rows /\ recoveries' = recoveries
  BY <1>14 DEF CheckSecurities, ReadOwned, DeleteStatement
<1> QED
  BY <1>4, <1>5, <1>6, <1>8, <1>9, <1>10, <1>11, <1>12, <1>13, <1>14 DEF SynthNext

\* While the demo issuer is there, its recoveries are those of the waterfall.
THEOREM WaterfallInvariant == SynthSpec => []WaterfallInv
<1>1. SynthInit => WaterfallInv
  BY DEF SynthInit, WaterfallInv, Real, Issuer, Source, Security, Row
<1>2. WaterfallInv /\ [SynthNext]_synthVars => WaterfallInv'
  BY WaterfallSteps DEF synthVars, WaterfallInv, RecoveryWaterfall
<1> QED
  BY <1>1, <1>2, PTL DEF SynthSpec

\* A junior layer recovers only when the senior ones are paid in full, and together
\* they receive the value or what they are owed, but for one rounding.
THEOREM RecoveriesAreSenior == SynthSpec => []SeniorFirst
<1>1. WaterfallInv => SeniorFirst
  BY WaterfallIsSenior
<1> QED
  BY <1>1, WaterfallInvariant, PTL

-----------------------------------------------------------------------------
(* Chunker: a document is cut into its chunks.                             *)

\* Sums of natural numbers grow, and are no less than what they add up.
LEMMA SumsGrow ==
    ASSUME NEW x, NEW n \in Nat, \A i \in 1..n : x[i] \in Nat
    PROVE  /\ Total(x)[0] = 0
           /\ \A k \in 0..n : Total(x)[k] \in Nat
           /\ \A k \in 1..n : Total(x)[k] = Total(x)[k - 1] + x[k] /\ x[k] <= Total(x)[k]
           /\ \A k \in 0..n : \A m \in 0..k : Total(x)[m] <= Total(x)[k]
<1> DEFINE sum(k) == Total(x)[k]
<1>1. \A k \in Nat : sum(k) = IF k = 0 THEN 0 ELSE sum(k - 1) + x[k]
  BY TotalIsDefined
<1> HIDE DEF sum
<1> DEFINE Fine == {k \in Nat : k <= n => \A m \in 0..k : sum(m) \in Nat /\ sum(m) <= sum(k)}
<1>2. 0 \in Fine
  BY <1>1
<1>3. ASSUME NEW k \in Nat, k \in Fine PROVE k + 1 \in Fine
  <2> SUFFICES ASSUME k + 1 <= n
               PROVE  \A m \in 0..(k + 1) : sum(m) \in Nat /\ sum(m) <= sum(k + 1)
    OBVIOUS
  <2>1. k <= n /\ k + 1 \in 1..n /\ (k + 1) - 1 = k
    OBVIOUS
  <2>2. \A m \in 0..k : sum(m) \in Nat /\ sum(m) <= sum(k)
    BY <1>3, <2>1
  <2>3. sum(k + 1) = sum(k) + x[k + 1] /\ x[k + 1] \in Nat /\ sum(k) \in Nat
    BY <1>1, <2>1, <2>2
  <2>4. \A m \in 0..(k + 1) : m \in 0..k \/ m = k + 1
    OBVIOUS
  <2> QED
    BY <2>2, <2>3, <2>4
<1>4. Nat \subseteq Fine
  <2> HIDE DEF Fine
  <2> QED
    BY <1>2, <1>3, AllNaturals
<1>5. \A k \in 0..n : \A m \in 0..k : sum(m) \in Nat /\ sum(m) <= sum(k)
  BY <1>4
<1>6. \A k \in 1..n : sum(k) = sum(k - 1) + x[k] /\ sum(k - 1) \in Nat /\ x[k] \in Nat
  BY <1>1, <1>5
<1>7. sum(0) = 0
  BY <1>1
<1>8. \A k \in 0..n : sum(k) \in Nat
  BY <1>5
<1> QED
  BY <1>5, <1>6, <1>7, <1>8 DEF sum

\* A sum depends on what it adds up.
LEMMA SumsAgree ==
    ASSUME NEW x, NEW y, NEW n \in Nat, \A i \in 1..n : x[i] = y[i]
    PROVE  Total(x)[n] = Total(y)[n]
<1> DEFINE Fine == {k \in Nat : k <= n => Total(x)[k] = Total(y)[k]}
<1>1. \A k \in Nat : /\ Total(x)[k] = IF k = 0 THEN 0 ELSE Total(x)[k - 1] + x[k]
                     /\ Total(y)[k] = IF k = 0 THEN 0 ELSE Total(y)[k - 1] + y[k]
  <2>1. \A k \in Nat : Total(x)[k] = IF k = 0 THEN 0 ELSE Total(x)[k - 1] + x[k]
    BY TotalIsDefined
  <2>2. \A k \in Nat : Total(y)[k] = IF k = 0 THEN 0 ELSE Total(y)[k - 1] + y[k]
    BY TotalIsDefined
  <2> QED
    BY <2>1, <2>2
<1>2. 0 \in Fine
  BY <1>1
<1>3. ASSUME NEW k \in Nat, k \in Fine PROVE k + 1 \in Fine
  BY <1>1, <1>3
<1>4. Nat \subseteq Fine
  <2> HIDE DEF Fine
  <2> QED
    BY <1>2, <1>3, AllNaturals
<1> QED
  BY <1>4

-----------------------------------------------------------------------------
(* Chunker: places and pieces.                                             *)

\* A document is pages of blocks.
DocumentOK == document \in Seq(Seq(Blocks))

\* Where blocks are, and what they are like.
LEMMA PlacesOfBlocks ==
    ASSUME DocumentOK
    PROVE  /\ \A i \in 1..Len(document) : \A j \in 1..Len(document[i]) : <<i, j>> \in BlockPlaces
           /\ \A q \in BlockPlaces :
                 /\ q = <<q[1], q[2]>> /\ q[1] \in 1..Len(document) /\ q[2] \in 1..Len(document[q[1]])
                 /\ Len(document) \in Nat /\ Len(document[q[1]]) \in Nat
                 /\ Block(q).type \in {"table", "heading", "body"} /\ Block(q).level \in Nat
                 /\ Words(q) \in Seq(Nat) /\ Len(Words(q)) \in Nat \ {0}
<1>1. DOMAIN document = 1..Len(document) /\ Len(document) \in Nat
  BY DEF DocumentOK
<1>2. \A i \in 1..Len(document) :
         /\ document[i] \in Seq(Blocks) /\ DOMAIN document[i] = 1..Len(document[i])
         /\ Len(document[i]) \in Nat
  BY DEF DocumentOK
<1>3. \A i \in 1..Len(document) : \A j \in 1..Len(document[i]) : <<i, j>> \in BlockPlaces
  BY <1>1, <1>2 DEF BlockPlaces
<1>4. ASSUME NEW q \in BlockPlaces
      PROVE  /\ q = <<q[1], q[2]>> /\ q[1] \in 1..Len(document) /\ q[2] \in 1..Len(document[q[1]])
             /\ Len(document) \in Nat /\ Len(document[q[1]]) \in Nat
             /\ Block(q).type \in {"table", "heading", "body"} /\ Block(q).level \in Nat
             /\ Words(q) \in Seq(Nat) /\ Len(Words(q)) \in Nat \ {0}
  <2>1. PICK i \in 1..Len(document) : q \in {<<i, j>> : j \in DOMAIN document[i]}
    BY <1>1, <1>4 DEF BlockPlaces
  <2>2. PICK j \in 1..Len(document[i]) : q = <<i, j>>
    BY <1>2, <2>1
  <2>3. q[1] = i /\ q[2] = j
    BY <2>2
  <2>4. Block(q) \in Blocks
    BY <1>2, <2>3 DEF Block
  <2>5. PICK b \in Blocks : b = Block(q)
    BY <2>4
  <2>6. /\ b.type \in {"table", "heading", "body"} /\ b.level \in Nat
        /\ b.words \in Seq(Nat) /\ \E v \in DOMAIN b.words : b.words[v] > 0
    BY ChunkerAssumption
  <2>7. Len(b.words) \in Nat \ {0}
    BY <2>6
  <2> QED
    BY <1>1, <1>2, <2>2, <2>3, <2>5, <2>6, <2>7 DEF Words
<1> QED
  BY <1>3, <1>4

\* A run of words of a block, at least one.
GoodPiece(q) == /\ q.at \in BlockPlaces
                /\ q.from \in DOMAIN Words(q.at) /\ q.to \in DOMAIN Words(q.at) /\ q.from <= q.to

\* The length of a piece: none only if it is one word that is empty.
LEMMA PieceLengths ==
    ASSUME DocumentOK, NEW q, GoodPiece(q)
    PROVE  /\ PieceLength(q) \in Nat
           /\ PieceLength(q) = 0 => q.from = q.to /\ Words(q.at)[q.from] = 0
<1> DEFINE W == Words(q.at)
<1>1. W \in Seq(Nat) /\ Len(W) \in Nat /\ DOMAIN W = 1..Len(W)
  BY PlacesOfBlocks DEF GoodPiece
<1>2. \A i \in 1..Len(W) : W[i] \in Nat
  BY <1>1
<1>3. PICK f, t : f = q.from /\ t = q.to
  OBVIOUS
<1>4. f \in 1..Len(W) /\ t \in 1..Len(W) /\ f <= t
  BY <1>1, <1>3 DEF GoodPiece
<1>5. PieceLength(q) = Total(W)[t] - Total(W)[f - 1] + (t - f)
  BY <1>3 DEF PieceLength, Length
<1> HIDE DEF W
<1>6. f - 1 \in 0..Len(W) /\ t \in 0..Len(W) /\ f - 1 \in 0..t
  BY <1>1, <1>4
<1>7. /\ Total(W)[t] \in Nat /\ Total(W)[f - 1] \in Nat /\ Total(W)[f - 1] <= Total(W)[t]
      /\ Total(W)[f] = Total(W)[f - 1] + W[f] /\ W[f] \in Nat
  BY <1>1, <1>2, <1>4, <1>6, SumsGrow
<1>8. PieceLength(q) \in Nat
  BY <1>4, <1>5, <1>7
<1>9. ASSUME PieceLength(q) = 0 PROVE f = t /\ W[f] = 0
  <2>1. f = t
    BY <1>4, <1>5, <1>7, <1>9
  <2> QED
    BY <1>4, <1>5, <1>7, <1>9, <2>1
<1> QED
  BY <1>3, <1>8, <1>9 DEF W

Pieces == {q \in [at : BlockPlaces, from : Nat, to : Nat] : GoodPiece(q)}

\* The length of the text of some pieces is the sum of theirs.
LEMMA CharCounts ==
    ASSUME DocumentOK, NEW A \in Seq(Pieces), NEW q \in Pieces
    PROVE  /\ CharCount(A) \in Nat
           /\ CharCount(A) = 0 => \A i \in 1..Len(A) : PieceLength(A[i]) = 0
           /\ CharCount(Append(A, q)) = CharCount(A) + PieceLength(q)
<1> DEFINE n == Len(A)
           x == [i \in DOMAIN A |-> PieceLength(A[i])]
           y == [i \in DOMAIN Append(A, q) |-> PieceLength(Append(A, q)[i])]
<1>1. n \in Nat /\ DOMAIN A = 1..n /\ \A i \in 1..n : A[i] \in Pieces
  OBVIOUS
<1>2. \A p \in Pieces : PieceLength(p) \in Nat
  BY PieceLengths DEF Pieces
<1>3. \A i \in 1..n : x[i] = PieceLength(A[i]) /\ x[i] \in Nat
  BY <1>1, <1>2
<1>4. /\ DOMAIN Append(A, q) = 1..(n + 1) /\ Len(Append(A, q)) = n + 1
      /\ Append(A, q)[n + 1] = q /\ \A i \in 1..n : Append(A, q)[i] = A[i]
  BY <1>1
<1>5. /\ \A i \in 1..n : y[i] = x[i]
      /\ y[n + 1] = PieceLength(q)
  BY <1>1, <1>3, <1>4
<1>6. CharCount(A) = Total(x)[n] /\ CharCount(Append(A, q)) = Total(y)[n + 1]
  BY <1>4 DEF CharCount
<1> HIDE DEF x, y, n
<1>7. \A i \in 1..(n + 1) : y[i] \in Nat
  <2>1. \A i \in 1..(n + 1) : i \in 1..n \/ i = n + 1
    BY <1>1
  <2> QED
    BY <1>2, <1>3, <1>5, <2>1
<1>8. Total(x)[n] = Total(y)[n]
  BY <1>1, <1>5, SumsAgree
<1>9. Total(y)[n + 1] = Total(y)[n] + y[n + 1]
  <2>1. n + 1 \in Nat /\ n + 1 \in 1..(n + 1) /\ (n + 1) - 1 = n
    BY <1>1
  <2> QED
    BY <1>7, <2>1, SumsGrow
<1>10. Total(x)[n] \in Nat
  <2>1. n \in 0..n
    BY <1>1
  <2> QED
    BY <1>1, <1>3, <2>1, SumsGrow
<1>11. ASSUME Total(x)[n] = 0, NEW i \in 1..n PROVE PieceLength(A[i]) = 0
  <2>1. i \in 0..n /\ n \in 0..n /\ i \in 0..n
    BY <1>1
  <2>2. x[i] <= Total(x)[i] /\ Total(x)[i] <= Total(x)[n] /\ Total(x)[i] \in Nat
    BY <1>1, <1>3, <2>1, SumsGrow
  <2> QED
    BY <1>3, <1>11, <2>2
<1> QED
  BY <1>5, <1>6, <1>8, <1>9, <1>10, <1>11 DEF n

\* Text that fits a chunk.
Fits(A) == \/ CharCount(A) <= Ceiling
           \/ \A v, w \in Spoken(A) : v = w
           \/ \A i \in DOMAIN A : IsHeading(A[i])

\* Text that fits still does with a piece that fits or is one word.
LEMMA FitsWithOneMore ==
    ASSUME DocumentOK, NEW A \in Seq(Pieces), NEW q \in Pieces,
           PieceLength(q) <= Ceiling \/ q.from = q.to,
           CharCount(A) = 0 \/ CharCount(A) + PieceLength(q) <= Target
    PROVE  Fits(Append(A, q))
<1> DEFINE B == Append(A, q)
           n == Len(A)
<1>1. /\ n \in Nat /\ DOMAIN B = 1..(n + 1) /\ B[n + 1] = q
      /\ \A i \in 1..n : B[i] = A[i] /\ A[i] \in Pieces
  OBVIOUS
<1>2. CharCount(B) = CharCount(A) + PieceLength(q) /\ CharCount(A) \in Nat
  BY CharCounts
<1>3. PieceLength(q) \in Nat
  BY PieceLengths DEF Pieces
<1> HIDE DEF B
<1>4. CASE CharCount(A) # 0
  BY <1>2, <1>3, <1>4, ChunkerAssumption DEF Fits, B
<1>5. CASE CharCount(A) = 0 /\ PieceLength(q) <= Ceiling
  BY <1>2, <1>3, <1>5, ChunkerAssumption DEF Fits, B
<1>6. CASE CharCount(A) = 0 /\ q.from = q.to
  <2>1. ASSUME NEW i \in 1..n PROVE A[i].from = A[i].to /\ Words(A[i].at)[A[i].from] = 0
    <3>1. PieceLength(A[i]) = 0
      BY <1>6, CharCounts
    <3>2. GoodPiece(A[i])
      BY <1>1 DEF Pieces
    <3> QED
      BY <3>1, <3>2, PieceLengths
  <2>2. ASSUME NEW s \in Spoken(B) PROVE s = <<n + 1, q.from>>
    <3>1. PICK i \in 1..(n + 1) :
             s \in {<<i, w>> : w \in {v \in B[i].from..B[i].to : Words(B[i].at)[v] > 0}}
      BY <1>1, <2>2 DEF Spoken
    <3>2. PICK w \in B[i].from..B[i].to : s = <<i, w>> /\ Words(B[i].at)[w] > 0
      BY <3>1
    <3>3. ASSUME i \in 1..n PROVE FALSE
      <4>1. B[i] = A[i] /\ A[i] \in Pieces
        BY <1>1, <3>3
      <4>2. A[i].from \in Nat
        BY <4>1 DEF Pieces
      <4>3. w = A[i].from
        BY <2>1, <3>2, <3>3, <4>1, <4>2
      <4> QED
        BY <2>1, <3>2, <3>3, <4>1, <4>3
    <3>4. i = n + 1
      BY <1>1, <3>1, <3>3
    <3>5. q.from \in Nat
      BY DEF Pieces
    <3>6. w = q.from
      BY <1>1, <1>6, <3>2, <3>4, <3>5
    <3> QED
      BY <3>2, <3>4, <3>6
  <2> QED
    BY <2>2 DEF Fits, B
<1> QED
  BY <1>4, <1>5, <1>6

\* One piece alone.
LEMMA FitsAlone ==
    ASSUME DocumentOK, NEW q \in Pieces, PieceLength(q) <= Ceiling \/ q.from = q.to
    PROVE  Fits(<<q>>)
<1>1. << >> \in Seq(Pieces) /\ Append(<< >>, q) = <<q>>
  OBVIOUS
<1>2. CharCount(<< >>) = 0
  <2>1. Total([i \in DOMAIN << >> |-> PieceLength(<< >>[i])])[0] = 0
    BY TotalIsDefined
  <2> QED
    BY <2>1 DEF CharCount
<1> QED
  BY <1>1, <1>2, FitsWithOneMore

\* The next piece of a body fits, or is one word.
LEMMA NextPieceFits ==
    ASSUME DocumentOK, at \in BlockPlaces, word \in 1..Len(Words(at))
    PROVE  /\ PieceEnd \in word..Len(Words(at))
           /\ NextPiece \in Pieces /\ NextPiece = [at |-> at, from |-> word, to |-> PieceEnd]
           /\ PieceLength(NextPiece) <= Ceiling \/ NextPiece.from = NextPiece.to
<1>1. Words(at) \in Seq(Nat) /\ Len(Words(at)) \in Nat \ {0}
  BY PlacesOfBlocks
<1> DEFINE ends == {word} \cup {e \in word..Len(Words(at)) : Length(at, word, e) <= Ceiling}
<1>2. ends \subseteq Nat /\ word \in ends /\ \A e \in ends : e <= Len(Words(at)) /\ word <= e
  BY <1>1
<1>3. \E m \in ends : \A e \in ends : e <= m
  <2> HIDE DEF ends
  <2> QED
    BY <1>1, <1>2, LargestNatural
<1>4. PieceEnd \in ends
  BY <1>3 DEF PieceEnd, Max
<1>5. PieceEnd \in word..Len(Words(at))
  <2> HIDE DEF ends
  <2> QED
    BY <1>1, <1>2, <1>4
<1>6. NextPiece = [at |-> at, from |-> word, to |-> PieceEnd]
  BY DEF NextPiece, Piece
<1>7. DOMAIN Words(at) = 1..Len(Words(at))
  BY <1>1
<1>8. NextPiece \in Pieces
  BY <1>1, <1>5, <1>6, <1>7 DEF Pieces, GoodPiece
<1>9. PieceLength(NextPiece) = Length(at, word, PieceEnd)
  BY <1>6 DEF PieceLength
<1> QED
  BY <1>4, <1>5, <1>6, <1>8, <1>9

-----------------------------------------------------------------------------
(* Chunker: the headings a place stands under.                             *)

\* The headings open when the block here is reached.
OpenBefore(here) ==
    {h \in HeadingPlaces :
        /\ Before(h, here)
        /\ \A g \in HeadingPlaces : Before(h, g) /\ Before(g, here) => Block(g).level > Block(h).level}

\* What is before the next block of a page, and before the next page.
LEMMA BeforeTheNext ==
    ASSUME DocumentOK, NEW p \in Nat, NEW b \in Nat, NEW h \in BlockPlaces
    PROVE  /\ Before(h, <<p, b + 1>>) <=> Before(h, <<p, b>>) \/ h = <<p, b>>
           /\ Before(h, <<p, b + 1>>) <=> ~Before(<<p, b>>, h)
           /\ ~Before(<<p, b>>, <<p, b>>)
           /\ p \in 1..Len(document) /\ b > Len(document[p]) =>
                 (Before(h, <<p + 1, 1>>) <=> Before(h, <<p, b>>))
<1>1. PICK i, j : i = h[1] /\ j = h[2]
  OBVIOUS
<1>2. /\ h = <<i, j>> /\ i \in 1..Len(document) /\ j \in 1..Len(document[i])
      /\ Len(document) \in Nat /\ Len(document[i]) \in Nat
  BY <1>1, PlacesOfBlocks
<1>3. i \in Nat \ {0} /\ j \in Nat \ {0} /\ j <= Len(document[i])
  BY <1>2
<1>4. /\ Before(h, <<p, b + 1>>) <=> i < p \/ (i = p /\ j < b + 1)
      /\ Before(h, <<p, b>>) <=> i < p \/ (i = p /\ j < b)
      /\ Before(<<p, b>>, h) <=> p < i \/ (p = i /\ b < j)
      /\ Before(h, <<p + 1, 1>>) <=> i < p + 1 \/ (i = p + 1 /\ j < 1)
      /\ ~Before(<<p, b>>, <<p, b>>)
      /\ h = <<p, b>> <=> i = p /\ j = b
  BY <1>1, <1>2 DEF Before
<1>5. ASSUME p \in 1..Len(document), b > Len(document[p])
      PROVE  Before(h, <<p + 1, 1>>) <=> Before(h, <<p, b>>)
  <2>1. i = p => j < b
    BY <1>2, <1>3, <1>5
  <2> QED
    BY <1>3, <1>4, <2>1
<1> QED
  BY <1>3, <1>4, <1>5

\* A block that is no heading changes nothing; a heading closes those not above it.
LEMMA OpenAfterBlock ==
    ASSUME DocumentOK, NEW p \in Nat, NEW b \in Nat
    PROVE  /\ OpenAt(<<p, b>>) = OpenBefore(<<p, b + 1>>)
           /\ <<p, b>> \notin HeadingPlaces => OpenBefore(<<p, b + 1>>) = OpenBefore(<<p, b>>)
           /\ <<p, b>> \in HeadingPlaces =>
                 OpenBefore(<<p, b + 1>>) =
                    {<<p, b>>} \cup {h \in OpenBefore(<<p, b>>) : Block(h).level < Block(<<p, b>>).level}
           /\ p \in 1..Len(document) /\ b > Len(document[p]) =>
                 OpenBefore(<<p + 1, 1>>) = OpenBefore(<<p, b>>)
<1> PICK here, next, turn : here = <<p, b>> /\ next = <<p, b + 1>> /\ turn = <<p + 1, 1>>
  OBVIOUS
<1>1. HeadingPlaces \subseteq BlockPlaces /\ \A h \in HeadingPlaces : Block(h).level \in Nat
  BY PlacesOfBlocks DEF HeadingPlaces
<1>2. /\ \A h \in HeadingPlaces : /\ Before(h, next) <=> Before(h, here) \/ h = here
                                  /\ Before(h, next) <=> ~Before(here, h)
      /\ ~Before(here, here)
  <2>1. ~Before(here, here)
    BY DEF Before
  <2> QED
    BY <1>1, <2>1, BeforeTheNext
<1>3. OpenAt(here) = OpenBefore(next)
  BY <1>2 DEF OpenAt, OpenBefore
<1>4. here \notin HeadingPlaces => OpenBefore(next) = OpenBefore(here)
  BY <1>2 DEF OpenBefore
<1>5. ASSUME here \in HeadingPlaces
      PROVE  OpenBefore(next) = {here} \cup {h \in OpenBefore(here) : Block(h).level < Block(here).level}
  <2>1. here \in OpenBefore(next)
    <3>1. \A g \in HeadingPlaces : ~(Before(here, g) /\ Before(g, next))
      BY <1>2
    <3> QED
      BY <1>2, <1>5, <3>1 DEF OpenBefore
  <2>2. ASSUME NEW h \in OpenBefore(next), h # here
        PROVE  h \in OpenBefore(here) /\ Block(h).level < Block(here).level
    <3>1. h \in HeadingPlaces /\ Before(h, here)
      BY <1>2, <2>2 DEF OpenBefore
    <3>2. Block(here).level > Block(h).level
      BY <1>2, <1>5, <2>2, <3>1 DEF OpenBefore
    <3> QED
      BY <1>1, <1>2, <1>5, <2>2, <3>1, <3>2 DEF OpenBefore
  <2>3. ASSUME NEW h \in OpenBefore(here), Block(h).level < Block(here).level
        PROVE  h \in OpenBefore(next)
    <3>1. h \in HeadingPlaces /\ Before(h, next)
      BY <1>2, <2>3 DEF OpenBefore
    <3>2. \A g \in HeadingPlaces : Before(h, g) /\ Before(g, next) => Block(g).level > Block(h).level
      BY <1>1, <1>2, <1>5, <2>3 DEF OpenBefore
    <3> QED
      BY <3>1, <3>2 DEF OpenBefore
  <2> QED
    BY <2>1, <2>2, <2>3
<1>6. ASSUME p \in 1..Len(document), b > Len(document[p])
      PROVE  OpenBefore(turn) = OpenBefore(here)
  <2>1. \A h \in HeadingPlaces : Before(h, turn) <=> Before(h, here)
    BY <1>1, <1>6, BeforeTheNext
  <2> QED
    BY <2>1 DEF OpenBefore
<1> QED
  BY <1>3, <1>4, <1>5, <1>6

Sections(H) == {H[i].at : i \in DOMAIN H}

\* The open headings, in the order of their places and of their levels.
HeadingsOK(H, here) ==
    /\ H \in Seq([level : Nat, at : HeadingPlaces])
    /\ \A i \in DOMAIN H : H[i].level = Block(H[i].at).level
    /\ \A i, j \in DOMAIN H : i < j => Before(H[i].at, H[j].at) /\ H[i].level < H[j].level
    /\ Sections(H) = OpenBefore(here)

\* The headings kept are those of a higher level.
LEMMA KeptAreAbove ==
    ASSUME HeadingsOK(headings, at), NEW l \in Nat
    PROVE  \E k \in 0..Len(headings) :
              /\ Kept(l) \in Seq([level : Nat, at : HeadingPlaces]) /\ Len(Kept(l)) = k
              /\ \A i \in 1..k : Kept(l)[i] = headings[i]
              /\ \A i \in 1..Len(headings) : i <= k <=> headings[i].level < l
<1> DEFINE H == headings
           A == {0} \cup Above(l)
           S == [level : Nat, at : HeadingPlaces]
<1>1. H \in Seq(S) /\ Len(H) \in Nat /\ DOMAIN H = 1..Len(H) /\ \A i \in 1..Len(H) : H[i].level \in Nat
  <2>1. H \in Seq(S)
    BY DEF HeadingsOK
  <2>2. \A s \in S : s.level \in Nat
    OBVIOUS
  <2> HIDE DEF H, S
  <2>3. Len(H) \in Nat /\ DOMAIN H = 1..Len(H) /\ \A i \in 1..Len(H) : H[i] \in S
    BY <2>1
  <2> QED
    BY <2>1, <2>2, <2>3
<1>2. A \subseteq Nat /\ A # {} /\ \A i \in A : i <= Len(H)
  BY <1>1 DEF Above
<1>3. PICK k : k = Max(A)
  OBVIOUS
<1>4. k \in A /\ \A i \in A : i <= k
  <2> HIDE DEF A
  <2>1. \E m \in A : \A n \in A : n <= m
    BY <1>1, <1>2, LargestNatural
  <2> QED
    BY <1>2, <1>3, <2>1 DEF Max
<1>5. k \in 0..Len(H)
  BY <1>1, <1>2, <1>4
<1>6. ASSUME NEW i \in 1..Len(H) PROVE i <= k <=> H[i].level < l
  <2>1. ASSUME H[i].level < l PROVE i <= k
    <3>1. i \in A
      BY <1>1, <2>1 DEF Above
    <3> QED
      BY <1>4, <3>1
  <2>2. ASSUME i <= k PROVE H[i].level < l
    <3>1. k \in 1..Len(H) /\ H[k].level < l
      BY <1>1, <1>4, <1>5, <2>2 DEF Above
    <3>2. CASE i = k
      BY <3>1, <3>2
    <3>3. CASE i < k
      <4>1. H[i].level < H[k].level
        BY <1>1, <3>1, <3>3 DEF HeadingsOK
      <4> QED
        BY <1>1, <3>1, <4>1
    <3> QED
      BY <1>5, <2>2, <3>2, <3>3
  <2> QED
    BY <2>1, <2>2
<1>7. Kept(l) = SubSeq(H, 1, k)
  BY <1>3 DEF Kept
<1>8. /\ SubSeq(H, 1, k) \in Seq(S) /\ Len(SubSeq(H, 1, k)) = k
      /\ \A i \in 1..k : SubSeq(H, 1, k)[i] = H[i]
  <2> HIDE DEF H, S, A
  <2> QED
    BY <1>1, <1>5
<1> QED
  BY <1>5, <1>6, <1>7, <1>8

\* A heading that is reached joins those above it.
LEMMA HeadingOpens ==
    ASSUME DocumentOK, HeadingsOK(headings, at), at \in HeadingPlaces,
           NEW p, NEW b, at = <<p, b>>, p \in Nat, b \in Nat
    PROVE  HeadingsOK(Opened(Block(at).level), <<p, b + 1>>)
<1>1. PICK l \in Nat : l = Block(at).level
  BY PlacesOfBlocks DEF HeadingPlaces
<1>2. PICK k \in 0..Len(headings) :
         /\ Kept(l) \in Seq([level : Nat, at : HeadingPlaces]) /\ Len(Kept(l)) = k
         /\ \A i \in 1..k : Kept(l)[i] = headings[i]
         /\ \A i \in 1..Len(headings) : i <= k <=> headings[i].level < l
  BY KeptAreAbove
<1>3. PICK K, new : K = Kept(l) /\ new = [level |-> l, at |-> at]
  OBVIOUS
<1>4. Opened(Block(at).level) = Append(K, new)
  BY <1>1, <1>3 DEF Opened
<1>5. PICK O : O = Append(K, new)
  OBVIOUS
<1>6. k \in Nat /\ Len(headings) \in Nat /\ k <= Len(headings) /\ DOMAIN headings = 1..Len(headings)
  BY DEF HeadingsOK
<1>7. /\ O \in Seq([level : Nat, at : HeadingPlaces]) /\ DOMAIN O = 1..(k + 1)
      /\ \A i \in 1..k : O[i] = headings[i]
      /\ O[k + 1] = new
  BY <1>2, <1>3, <1>5, <1>6
<1>8. new.level = l /\ new.at = at
  BY <1>3
<1>9. \A i \in 1..k : /\ i \in DOMAIN headings /\ headings[i].level < l
                      /\ headings[i].at \in OpenBefore(at)
  <2>1. \A i \in 1..k : i \in 1..Len(headings) /\ i <= k
    BY <1>6
  <2> QED
    BY <1>2, <1>6, <2>1 DEF HeadingsOK, Sections
<1>10. \A i \in 1..(k + 1) : i \in 1..k \/ i = k + 1
  BY <1>6
<1>11. \A i \in DOMAIN O : O[i].level = Block(O[i].at).level
  BY <1>1, <1>7, <1>8, <1>9, <1>10 DEF HeadingsOK
<1>12. ASSUME NEW i \in DOMAIN O, NEW j \in DOMAIN O, i < j
       PROVE  Before(O[i].at, O[j].at) /\ O[i].level < O[j].level
  <2>1. i \in 1..k
    BY <1>6, <1>7, <1>12
  <2>2. CASE j \in 1..k
    BY <1>7, <1>9, <1>12, <2>1, <2>2 DEF HeadingsOK
  <2>3. CASE j = k + 1
    BY <1>7, <1>8, <1>9, <2>1, <2>3 DEF OpenBefore
  <2> QED
    BY <1>7, <1>10, <2>2, <2>3
<1>13. Sections(O) = {at} \cup {h \in OpenBefore(at) : Block(h).level < Block(at).level}
  <2>1. ASSUME NEW h \in Sections(O)
        PROVE  h = at \/ (h \in OpenBefore(at) /\ Block(h).level < l)
    <3>1. PICK i \in 1..(k + 1) : h = O[i].at
      BY <1>7, <2>1 DEF Sections
    <3> QED
      BY <1>7, <1>8, <1>9, <1>10, <3>1 DEF HeadingsOK
  <2>2. at \in Sections(O)
    BY <1>6, <1>7, <1>8 DEF Sections
  <2>3. ASSUME NEW h \in OpenBefore(at), Block(h).level < l PROVE h \in Sections(O)
    <3>1. PICK i \in 1..Len(headings) : h = headings[i].at
      BY <1>6 DEF HeadingsOK, Sections
    <3>2. headings[i].level < l
      BY <1>6, <2>3, <3>1 DEF HeadingsOK
    <3>3. i \in 1..k
      BY <1>2, <1>6, <3>2
    <3>4. i \in DOMAIN O /\ O[i].at = h
      BY <1>6, <1>7, <3>1, <3>3
    <3> QED
      BY <3>4 DEF Sections
  <2> QED
    BY <1>1, <2>1, <2>2, <2>3
<1>14. Sections(O) = OpenBefore(<<p, b + 1>>)
  BY <1>13, OpenAfterBlock
<1> QED
  BY <1>4, <1>5, <1>7, <1>11, <1>12, <1>14 DEF HeadingsOK

-----------------------------------------------------------------------------
(* Chunker: the chunks and the accumulator.                                *)

\* A word has been passed when a block, and a word of it, is reached.
Passed(q, w, here, k) == Before(q, here) \/ (q = here /\ w < k)

Ordered(A) == \A i, j \in DOMAIN A : i < j => EndsBefore(A[i], A[j])
Precede(A, B) == \A i \in DOMAIN A : \A j \in DOMAIN B : EndsBefore(A[i], B[j])
InText(A, q, w) == \E i \in DOMAIN A : Holds(A[i], q, w)
InDrafts(D, q, w) == \E c \in DOMAIN D : InText(D[c].pieces, q, w)
SectionInOrder(H) == \A g, h \in DOMAIN H : g < h => Before(H[g].at, H[h].at)

\* Text under one section, all of it passed.
RunOK(A, H, here, k) ==
    /\ A \in Seq(Pieces) /\ Ordered(A)
    /\ \A i \in DOMAIN A : /\ Passed(A[i].at, A[i].to, here, k)
                           /\ Sections(H) = OpenAt(A[i].at)
                           /\ Block(A[i].at).type = "table" => Len(A) = 1

WithinCeiling(chunk) == \/ CharCount(chunk.pieces) <= Ceiling
                        \/ \A v, w \in Spoken(chunk.pieces) : v = w
                        \/ chunk.type # "text"

\* Chunks hold runs of what has been passed, under their headings, one after another.
DraftsOK(D, here, k) ==
    /\ D \in Seq(Range(D))
    /\ \A c \in DOMAIN D : /\ RunOK(D[c].pieces, D[c].section, here, k)
                           /\ SectionInOrder(D[c].section) /\ WithinCeiling(D[c])
    /\ \A c, d \in DOMAIN D : c < d => Precede(D[c].pieces, D[d].pieces)

\* Chunks and accumulator hold what has been passed, in order.
TextOK(D, A, H, here, k) ==
    /\ DraftsOK(D, here, k) /\ RunOK(A, H, here, k)
    /\ \A c \in DOMAIN D : Precede(D[c].pieces, A)
    /\ \A q \in BlockPlaces : \A w \in DOMAIN Words(q) :
          Words(q)[w] > 0 /\ Passed(q, w, here, k) => InDrafts(D, q, w) \/ InText(A, q, w)

\* A sequence and one more.
LEMMA OneMore ==
    ASSUME NEW D, D \in Seq(Range(D)), NEW e
    PROVE  /\ Append(D, e) \in Seq(Range(Append(D, e)))
           /\ Len(D) \in Nat /\ DOMAIN D = 1..Len(D) /\ DOMAIN Append(D, e) = 1..(Len(D) + 1)
           /\ Append(D, e)[Len(D) + 1] = e
           /\ \A c \in DOMAIN D : Append(D, e)[c] = D[c]
           /\ \A c \in DOMAIN Append(D, e) : c \in DOMAIN D \/ c = Len(D) + 1
<1> DEFINE S == Range(D) \cup {e}
<1>1. D \in Seq(S)
  BY SeqOfLarger
<1> HIDE DEF S
<1>2. e \in S
  BY DEF S
<1>3. /\ Len(D) \in Nat /\ DOMAIN D = 1..Len(D) /\ DOMAIN Append(D, e) = 1..(Len(D) + 1)
      /\ Append(D, e)[Len(D) + 1] = e /\ \A c \in 1..Len(D) : Append(D, e)[c] = D[c]
      /\ Append(D, e) \in Seq(S) /\ Len(Append(D, e)) = Len(D) + 1
  BY <1>1, <1>2
<1>4. PICK E : E = Append(D, e)
  OBVIOUS
<1>5. \A c \in 1..Len(E) : E[c] \in Range(E)
  BY <1>3, <1>4 DEF Range
<1>6. E \in Seq(Range(E))
  <2>1. E \in Seq(S) /\ DOMAIN E = 1..Len(E) /\ Len(E) \in Nat
    BY <1>3, <1>4
  <2>2. E \in [1..Len(E) -> Range(E)]
    BY <1>5, <2>1
  <2> QED
    BY <2>1, <2>2
<1> QED
  BY <1>3, <1>4, <1>6

\* What only asks what has been passed holds wherever the same has been passed.
LEMMA TextMoves ==
    ASSUME NEW D, NEW A, NEW H, NEW here, NEW k, NEW there, NEW m, TextOK(D, A, H, here, k),
           \A q \in BlockPlaces : \A w \in DOMAIN Words(q) :
              Passed(q, w, there, m) <=> Passed(q, w, here, k)
    PROVE  TextOK(D, A, H, there, m)
<1>1. ASSUME NEW B, NEW I, RunOK(B, I, here, k) PROVE RunOK(B, I, there, m)
  <2>1. ASSUME NEW i \in DOMAIN B PROVE Passed(B[i].at, B[i].to, there, m)
    <3>1. B[i] \in Pieces
      BY <1>1, <2>1 DEF RunOK
    <3>2. B[i].at \in BlockPlaces /\ B[i].to \in DOMAIN Words(B[i].at)
      BY <3>1 DEF Pieces, GoodPiece
    <3>3. Passed(B[i].at, B[i].to, here, k)
      BY <1>1 DEF RunOK
    <3> QED
      BY <3>2, <3>3
  <2> QED
    BY <1>1, <2>1 DEF RunOK
<1>2. DraftsOK(D, there, m)
  BY <1>1 DEF TextOK, DraftsOK
<1>3. RunOK(A, H, there, m)
  BY <1>1 DEF TextOK
<1> QED
  BY <1>2, <1>3 DEF TextOK

\* Without a piece nothing is to be said of the accumulator.
LEMMA NoRun ==
    ASSUME NEW H, NEW here, NEW k
    PROVE  RunOK(<< >>, H, here, k)
<1>1. << >> \in Seq(Pieces) /\ DOMAIN << >> = {}
  OBVIOUS
<1> QED
  BY <1>1 DEF RunOK, Ordered

\* The accumulator becomes a chunk.
LEMMA TextCloses ==
    ASSUME NEW D, NEW A, NEW H, NEW here, NEW k, TextOK(D, A, H, here, k), SectionInOrder(H),
           NEW chunk, chunk.pieces = A, chunk.section = H, WithinCeiling(chunk), NEW I
    PROVE  TextOK(Append(D, chunk), << >>, I, here, k)
<1>1. D \in Seq(Range(D))
  BY DEF TextOK, DraftsOK
<1>2. PICK E, n : E = Append(D, chunk) /\ n = Len(D) + 1
  OBVIOUS
<1>3. /\ E \in Seq(Range(E)) /\ Len(D) \in Nat /\ DOMAIN D = 1..Len(D) /\ DOMAIN E = 1..n
      /\ E[n] = chunk /\ n = Len(D) + 1
      /\ \A c \in DOMAIN D : E[c] = D[c]
      /\ \A c \in DOMAIN E : c \in DOMAIN D \/ c = n
  BY <1>1, <1>2, OneMore
<1>4. ASSUME NEW c \in DOMAIN E
      PROVE  /\ RunOK(E[c].pieces, E[c].section, here, k)
             /\ SectionInOrder(E[c].section) /\ WithinCeiling(E[c])
  BY <1>3, <1>4 DEF TextOK, DraftsOK
<1>5. ASSUME NEW c \in DOMAIN E, NEW d \in DOMAIN E, c < d
      PROVE  Precede(E[c].pieces, E[d].pieces)
  <2>1. c \in DOMAIN D
    BY <1>3, <1>5
  <2>2. CASE d \in DOMAIN D
    BY <1>3, <1>5, <2>1, <2>2 DEF TextOK, DraftsOK
  <2>3. CASE d = n
    BY <1>3, <2>1, <2>3 DEF TextOK
  <2> QED
    BY <1>3, <2>2, <2>3
<1>6. DraftsOK(E, here, k)
  BY <1>3, <1>4, <1>5 DEF DraftsOK
<1>7. \A c \in DOMAIN E : Precede(E[c].pieces, << >>)
  BY DEF Precede
<1>8. ASSUME NEW q \in BlockPlaces, NEW w \in DOMAIN Words(q), Words(q)[w] > 0, Passed(q, w, here, k)
      PROVE  InDrafts(E, q, w)
  <2>1. InDrafts(D, q, w) \/ InText(A, q, w)
    BY <1>8 DEF TextOK
  <2>2. n \in DOMAIN E /\ DOMAIN D \subseteq DOMAIN E
    BY <1>3
  <2> QED
    BY <1>3, <2>1, <2>2 DEF InDrafts
<1> QED
  BY <1>2, <1>6, <1>7, <1>8, NoRun DEF TextOK

\* An accumulator without a word is dropped.
LEMMA TextDrops ==
    ASSUME NEW D, NEW A, NEW H, NEW here, NEW k, TextOK(D, A, H, here, k), Blank(A), NEW I
    PROVE  TextOK(D, << >>, I, here, k)
<1>1. ASSUME NEW q \in BlockPlaces, NEW w \in DOMAIN Words(q), Words(q)[w] > 0, Passed(q, w, here, k)
      PROVE  InDrafts(D, q, w)
  <2>1. InDrafts(D, q, w) \/ InText(A, q, w)
    BY <1>1 DEF TextOK
  <2>2. ~InText(A, q, w)
    <3> SUFFICES ASSUME NEW i \in DOMAIN A, Holds(A[i], q, w) PROVE FALSE
      BY DEF InText
    <3>1. A[i].at = q /\ w \in A[i].from..A[i].to
      BY DEF Holds
    <3>2. Words(q)[w] = 0
      BY <3>1 DEF Blank, IsBlank
    <3> QED
      BY <1>1, <3>2
  <2> QED
    BY <2>1, <2>2
<1>2. \A c \in DOMAIN D : Precede(D[c].pieces, << >>)
  BY DEF Precede
<1> QED
  BY <1>1, <1>2, NoRun DEF TextOK

\* A piece that begins where the text has been read to is appended.
LEMMA TextExtends ==
    ASSUME NEW D, NEW A, NEW H, NEW here, NEW k, TextOK(D, A, H, here, k),
           NEW q \in Pieces, q.at = here, q.from = k, Sections(H) = OpenAt(here),
           \A i \in DOMAIN A : Block(A[i].at).type # "table",
           Block(here).type = "table" => A = << >>,
           NEW there, NEW m,
           \A r \in BlockPlaces : \A w \in DOMAIN Words(r) :
              Passed(r, w, there, m) <=> Passed(r, w, here, k) \/ (r = here /\ w \in q.from..q.to)
    PROVE  TextOK(D, Append(A, q), H, there, m)
<1> PICK B, n : B = Append(A, q) /\ n = Len(A) + 1
  OBVIOUS
<1>1. A \in Seq(Pieces) /\ RunOK(A, H, here, k)
  BY DEF TextOK, RunOK
<1>2. /\ B \in Seq(Pieces) /\ Len(B) = n /\ DOMAIN B = 1..n /\ DOMAIN A = 1..Len(A) /\ Len(A) \in Nat
      /\ B[n] = q /\ n \in DOMAIN B /\ \A i \in DOMAIN A : B[i] = A[i] /\ i \in DOMAIN B
      /\ \A i \in DOMAIN B : i \in DOMAIN A \/ i = n
  BY <1>1
<1>3. q.at \in BlockPlaces /\ q.to \in DOMAIN Words(q.at) /\ q.to \in q.from..q.to
  BY DEF Pieces, GoodPiece
<1>4. ASSUME NEW r, r \in Pieces, Passed(r.at, r.to, here, k)
      PROVE  EndsBefore(r, q) /\ Passed(r.at, r.to, there, m)
  <2>1. EndsBefore(r, q)
    BY <1>4 DEF Passed, EndsBefore
  <2>2. r.at \in BlockPlaces /\ r.to \in DOMAIN Words(r.at)
    BY <1>4 DEF Pieces, GoodPiece
  <2> QED
    BY <1>4, <2>1, <2>2
<1>5. Passed(q.at, q.to, there, m)
  BY <1>3
<1>6. ASSUME NEW C, NEW I, RunOK(C, I, here, k)
      PROVE  RunOK(C, I, there, m) /\ \A i \in DOMAIN C : EndsBefore(C[i], q)
  <2>1. ASSUME NEW i \in DOMAIN C
        PROVE  EndsBefore(C[i], q) /\ Passed(C[i].at, C[i].to, there, m)
    <3>1. C[i] \in Pieces /\ Passed(C[i].at, C[i].to, here, k)
      BY <1>6, <2>1 DEF RunOK
    <3> QED
      BY <1>4, <3>1
  <2> QED
    BY <1>6, <2>1 DEF RunOK
<1>7. RunOK(B, H, there, m)
  <2>1. Ordered(B)
    <3> SUFFICES ASSUME NEW i \in DOMAIN B, NEW j \in DOMAIN B, i < j PROVE EndsBefore(B[i], B[j])
      BY DEF Ordered
    <3>1. i \in DOMAIN A
      BY <1>2
    <3>2. CASE j \in DOMAIN A
      BY <1>1, <1>2, <3>1, <3>2 DEF RunOK, Ordered
    <3>3. CASE j = n
      BY <1>1, <1>2, <1>6, <3>1, <3>3
    <3> QED
      BY <1>2, <3>2, <3>3
  <2>2. ASSUME NEW i \in DOMAIN B
        PROVE  /\ Passed(B[i].at, B[i].to, there, m)
               /\ Sections(H) = OpenAt(B[i].at)
               /\ Block(B[i].at).type = "table" => Len(B) = 1
    <3>1. CASE i \in DOMAIN A
      <4>1. RunOK(A, H, there, m) /\ B[i] = A[i]
        BY <1>1, <1>2, <1>6, <3>1
      <4> QED
        BY <3>1, <4>1 DEF RunOK
    <3>2. CASE i = n
      <4>1. A = << >> => Len(A) = 0
        OBVIOUS
      <4> QED
        BY <1>2, <1>5, <3>2, <4>1
    <3> QED
      BY <1>2, <3>1, <3>2
  <2> QED
    BY <1>2, <2>1, <2>2 DEF RunOK
<1>8. DraftsOK(D, there, m)
  BY <1>6 DEF TextOK, DraftsOK
<1>9. ASSUME NEW c \in DOMAIN D PROVE Precede(D[c].pieces, B)
  <2>1. RunOK(D[c].pieces, D[c].section, here, k) /\ Precede(D[c].pieces, A)
    BY <1>9 DEF TextOK, DraftsOK
  <2>2. \A i \in DOMAIN D[c].pieces : EndsBefore(D[c].pieces[i], q)
    BY <1>6, <2>1
  <2> QED
    BY <1>2, <2>1, <2>2 DEF Precede
<1>10. ASSUME NEW r \in BlockPlaces, NEW w \in DOMAIN Words(r), Words(r)[w] > 0, Passed(r, w, there, m)
       PROVE  InDrafts(D, r, w) \/ InText(B, r, w)
  <2>1. CASE Passed(r, w, here, k)
    <3>1. InDrafts(D, r, w) \/ InText(A, r, w)
      BY <1>10, <2>1 DEF TextOK
    <3> QED
      BY <1>2, <3>1 DEF InText
  <2>2. CASE r = here /\ w \in q.from..q.to
    BY <1>2, <2>2 DEF InText, Holds
  <2> QED
    BY <1>10, <2>1, <2>2
<1> QED
  BY <1>7, <1>8, <1>9, <1>10 DEF TextOK

\* What has been passed at the next block, further on in this one, on the next page.
LEMMA PassedOnward ==
    ASSUME DocumentOK, NEW p \in Nat, NEW b \in Nat, NEW k \in Nat \ {0}, NEW e \in Nat, k <= e,
           NEW r \in BlockPlaces, NEW w \in DOMAIN Words(r)
    PROVE  /\ r = <<p, b>> => w \in Nat \ {0} /\ w <= Len(Words(<<p, b>>))
           /\ e = Len(Words(<<p, b>>)) =>
                 (Passed(r, w, <<p, b + 1>>, 1) <=>
                     Passed(r, w, <<p, b>>, k) \/ (r = <<p, b>> /\ w \in k..e))
           /\ Passed(r, w, <<p, b>>, e + 1) <=>
                 Passed(r, w, <<p, b>>, k) \/ (r = <<p, b>> /\ w \in k..e)
           /\ p \in 1..Len(document) /\ b > Len(document[p]) =>
                 (Passed(r, w, <<p + 1, 1>>, 1) <=> Passed(r, w, <<p, b>>, 1))
<1> PICK here, next, turn : here = <<p, b>> /\ next = <<p, b + 1>> /\ turn = <<p + 1, 1>>
  OBVIOUS
<1>1. Words(r) \in Seq(Nat) /\ DOMAIN Words(r) = 1..Len(Words(r)) /\ Len(Words(r)) \in Nat
  BY PlacesOfBlocks
<1>2. w \in Nat \ {0} /\ w <= Len(Words(r))
  BY <1>1
<1>3. /\ Before(r, next) <=> Before(r, here) \/ r = here
      /\ p \in 1..Len(document) /\ b > Len(document[p]) => (Before(r, turn) <=> Before(r, here))
  BY BeforeTheNext
<1>4. r = here => ~Before(r, here)
  BY DEF Before
<1>5. ASSUME e = Len(Words(here))
      PROVE  Passed(r, w, next, 1) <=> Passed(r, w, here, k) \/ (r = here /\ w \in k..e)
  <2>1. r = here => w \in Nat /\ w <= e
    BY <1>2, <1>5
  <2> QED
    BY <1>2, <1>3, <2>1 DEF Passed
<1>6. Passed(r, w, here, e + 1) <=> Passed(r, w, here, k) \/ (r = here /\ w \in k..e)
  BY <1>2 DEF Passed
<1>7. ASSUME p \in 1..Len(document), b > Len(document[p])
      PROVE  Passed(r, w, turn, 1) <=> Passed(r, w, here, 1)
  BY <1>2, <1>3, <1>7 DEF Passed
<1> QED
  BY <1>2, <1>5, <1>6, <1>7

-----------------------------------------------------------------------------
(* Chunker: the invariant and its steps.                                   *)

NoTables(A) == \A i \in DOMAIN A : Block(A[i].at).type # "table"

\* Where the document has been read to: between blocks, or between pieces of a body.
Reading(here, k) ==
    /\ here = <<here[1], here[2]>> /\ here[1] \in Nat \ {0} /\ here[2] \in Nat \ {0} /\ k \in Nat \ {0}
    /\ k > 1 => here \in BlockPlaces /\ Block(here).type = "body" /\ k <= Len(Words(here))

\* What there is when a document has been read up to a word of a place.
ReadTo(here, k, H, A, D, v) ==
    /\ DocumentOK /\ Reading(here, k) /\ HeadingsOK(H, here)
    /\ TextOK(D, A, H, here, k) /\ Fits(A) /\ NoTables(A)
    /\ v # "none" => A = << >> /\ here[1] > Len(document)

\* The inductive invariant of the chunker.
ChunkInv == ReadTo(at, word, headings, acc, drafts, verdict)

\* What the invariant says of a document, it says as long as that is the document.
LEMMA SameDocument ==
    ASSUME document' = document
    PROVE  /\ \A q : Block(q)' = Block(q) /\ Words(q)' = Words(q)
           /\ BlockPlaces' = BlockPlaces /\ HeadingPlaces' = HeadingPlaces
           /\ \A q : IsHeading(q)' = IsHeading(q) /\ PieceLength(q)' = PieceLength(q)
           /\ Pieces' = Pieces
           /\ \A q : OpenAt(q)' = OpenAt(q) /\ OpenBefore(q)' = OpenBefore(q)
           /\ \A A : CharCount(A)' = CharCount(A) /\ Spoken(A)' = Spoken(A)
<1>1. \A q : Block(q)' = Block(q) /\ Words(q)' = Words(q)
  BY DEF Block, Words
<1>2. BlockPlaces' = BlockPlaces
  BY DEF BlockPlaces
<1>3. HeadingPlaces' = HeadingPlaces
  BY <1>1, <1>2 DEF HeadingPlaces
<1>4. \A q : IsHeading(q)' = IsHeading(q) /\ PieceLength(q)' = PieceLength(q)
  BY <1>1 DEF IsHeading, PieceLength, Length
<1>5. Pieces' = Pieces
  BY <1>1, <1>2 DEF Pieces, GoodPiece
<1>6. \A q : OpenAt(q)' = OpenAt(q) /\ OpenBefore(q)' = OpenBefore(q)
  BY <1>1, <1>3 DEF OpenAt, OpenBefore
<1>7. \A A : CharCount(A)' = CharCount(A)
  BY <1>4 DEF CharCount
<1>8. \A A : Spoken(A)' = Spoken(A)
  BY <1>1 DEF Spoken
<1> QED
  BY <1>1, <1>2, <1>3, <1>4, <1>5, <1>6, <1>7, <1>8

\* What has been read of a document stays read while the document stays.
LEMMA SameReading ==
    ASSUME document' = document, NEW here, NEW k, NEW H, NEW A, NEW D, NEW v,
           ReadTo(here, k, H, A, D, v)
    PROVE  ReadTo(here, k, H, A, D, v)'
<1>1. DocumentOK' /\ Reading(here, k)'
  BY SameDocument DEF ReadTo, DocumentOK, Reading
<1>2. HeadingsOK(H, here)'
  BY SameDocument DEF ReadTo, HeadingsOK
<1>3. \A B, I : RunOK(B, I, here, k) => RunOK(B, I, here, k)'
  BY SameDocument DEF RunOK
<1>4. DraftsOK(D, here, k)'
  BY <1>3, SameDocument DEF ReadTo, TextOK, DraftsOK, WithinCeiling
<1>5. TextOK(D, A, H, here, k)'
  BY <1>3, <1>4, SameDocument DEF ReadTo, TextOK
<1>6. Fits(A)' /\ NoTables(A)'
  BY SameDocument DEF ReadTo, Fits, NoTables
<1> QED
  BY <1>1, <1>2, <1>5, <1>6 DEF ReadTo

\* A step keeps the invariant when what it assigns has been read of the old state.
LEMMA ReadOn ==
    ASSUME document' = document, NEW here, NEW k, NEW H, NEW A, NEW D, NEW v,
           ReadTo(here, k, H, A, D, v),
           here = at', k = word', H = headings', A = acc', D = drafts', v = verdict'
    PROVE  ChunkInv'
<1>1. ReadTo(here, k, H, A, D, v)'
  BY SameReading
<1> QED
  BY <1>1 DEF ChunkInv

\* Flushing leaves nothing in the accumulator.
LEMMA FlushKeepsText ==
    ASSUME ChunkInv, NEW I
    PROVE  TextOK(Flushed, << >>, I, at, word)
<1>1. TextOK(drafts, acc, headings, at, word) /\ SectionInOrder(headings) /\ Fits(acc)
  BY DEF ChunkInv, ReadTo, HeadingsOK, SectionInOrder
<1>2. CASE Blank(acc)
  BY <1>1, <1>2, TextDrops DEF Flushed
<1>3. CASE ~Blank(acc)
  <2>1. PICK chunk : chunk = Chunk(acc, ElementType(acc))
    OBVIOUS
  <2>2. chunk.pieces = acc /\ chunk.section = headings /\ chunk.type = ElementType(acc)
    BY <2>1 DEF Chunk
  <2>3. WithinCeiling(chunk)
    BY <1>1, <2>2 DEF WithinCeiling, Fits, ElementType
  <2>4. TextOK(Append(drafts, chunk), << >>, I, at, word)
    BY <1>1, <2>2, <2>3, TextCloses
  <2> QED
    BY <1>3, <2>1, <2>4 DEF Flushed
<1> QED
  BY <1>2, <1>3

\* A block is reached.
LEMMA BlockReached ==
    ASSUME ChunkInv, NEW type, AtBlock(type)
    PROVE  /\ DocumentOK /\ at \in BlockPlaces /\ at = <<at[1], at[2]>> /\ at[1] \in Nat /\ at[2] \in Nat
           /\ Block(at).type = type /\ verdict = "none"
           /\ Words(at) \in Seq(Nat) /\ Len(Words(at)) \in Nat \ {0} /\ word \in 1..Len(Words(at))
           /\ type # "body" => word = 1
           /\ type # "heading" => OpenBefore(<<at[1], at[2] + 1>>) = OpenBefore(at)
           /\ OpenAt(at) = OpenBefore(<<at[1], at[2] + 1>>)
<1>1. DocumentOK /\ Reading(at, word)
  BY DEF ChunkInv, ReadTo
<1>2. /\ at[1] <= Len(document) /\ at[2] <= Len(document[at[1]]) /\ Block(at).type = type
      /\ verdict = "none"
  BY DEF AtBlock, Pending
<1>3. at = <<at[1], at[2]>> /\ at[1] \in Nat \ {0} /\ at[2] \in Nat \ {0} /\ word \in Nat \ {0}
  BY <1>1 DEF Reading
<1>4. at \in BlockPlaces
  <2>1. Len(document) \in Nat /\ at[1] \in 1..Len(document)
    BY <1>1, <1>2, <1>3 DEF DocumentOK
  <2>2. Len(document[at[1]]) \in Nat
    BY <1>1, <2>1 DEF DocumentOK
  <2>3. at[2] \in 1..Len(document[at[1]])
    BY <1>2, <1>3, <2>2
  <2>4. <<at[1], at[2]>> \in BlockPlaces
    BY <1>1, <2>1, <2>3, PlacesOfBlocks
  <2> QED
    BY <1>3, <2>4
<1>5. Words(at) \in Seq(Nat) /\ Len(Words(at)) \in Nat \ {0}
  BY <1>1, <1>4, PlacesOfBlocks
<1>6. word \in 1..Len(Words(at)) /\ (type # "body" => word = 1)
  BY <1>1, <1>2, <1>3, <1>5 DEF Reading
<1>7. PICK p, b : p = at[1] /\ b = at[2]
  OBVIOUS
<1>8. at = <<p, b>> /\ p \in Nat /\ b \in Nat
  BY <1>3, <1>7
<1>9. /\ type # "heading" => OpenBefore(<<p, b + 1>>) = OpenBefore(at)
      /\ OpenAt(at) = OpenBefore(<<p, b + 1>>)
  <2>1. type # "heading" => at \notin HeadingPlaces
    BY <1>2 DEF HeadingPlaces
  <2> QED
    BY <1>1, <1>8, <2>1, OpenAfterBlock
<1> QED
  BY <1>1, <1>2, <1>3, <1>4, <1>5, <1>6, <1>7, <1>9

\* A whole block is taken: the text goes on with it, to the next block.
LEMMA WholeExtends ==
    ASSUME ChunkInv, NEW type, AtBlock(type), type # "body", NEW D, NEW H,
           TextOK(D, << >>, H, at, word), Sections(H) = OpenAt(at)
    PROVE  /\ Whole \in Pieces /\ Whole.at = at
           /\ TextOK(D, <<Whole>>, H, <<at[1], at[2] + 1>>, 1)
<1>1. /\ DocumentOK /\ at \in BlockPlaces /\ at = <<at[1], at[2]>> /\ at[1] \in Nat /\ at[2] \in Nat
      /\ Words(at) \in Seq(Nat) /\ Len(Words(at)) \in Nat \ {0} /\ word = 1
  BY BlockReached
<1>2. PICK q : q = Whole
  OBVIOUS
<1>3. q = [at |-> at, from |-> 1, to |-> Len(Words(at))]
  BY <1>2 DEF Whole, Piece
<1>4. q \in Pieces
  <2>1. DOMAIN Words(at) = 1..Len(Words(at))
    BY <1>1
  <2> QED
    BY <1>1, <1>3, <2>1 DEF Pieces, GoodPiece
<1>5. PICK p, b, e, next : p = at[1] /\ b = at[2] /\ e = Len(Words(at)) /\ next = <<p, b + 1>>
  OBVIOUS
<1>6. at = <<p, b>> /\ p \in Nat /\ b \in Nat /\ e \in Nat /\ 1 <= e
  BY <1>1, <1>5
<1>7. \A r \in BlockPlaces : \A w \in DOMAIN Words(r) :
         Passed(r, w, next, 1) <=> Passed(r, w, at, word) \/ (r = at /\ w \in q.from..q.to)
  <2> SUFFICES ASSUME NEW r \in BlockPlaces, NEW w \in DOMAIN Words(r)
               PROVE  Passed(r, w, next, 1) <=> Passed(r, w, at, word) \/ (r = at /\ w \in q.from..q.to)
    OBVIOUS
  <2>1. e = Len(Words(<<p, b>>)) /\ q.from = 1 /\ q.to = e
    BY <1>3, <1>5, <1>6
  <2>2. Passed(r, w, <<p, b + 1>>, 1) <=> Passed(r, w, <<p, b>>, 1) \/ (r = <<p, b>> /\ w \in 1..e)
    <3>1. PICK k \in Nat \ {0} : k = 1 /\ k <= e
      BY <1>6
    <3>2. Passed(r, w, <<p, b + 1>>, 1) <=> Passed(r, w, <<p, b>>, k) \/ (r = <<p, b>> /\ w \in k..e)
      <4>1. DocumentOK /\ p \in Nat /\ b \in Nat /\ e \in Nat /\ k <= e /\ e = Len(Words(<<p, b>>))
        BY <1>1, <1>6, <2>1, <3>1
      <4> QED
        BY <4>1, PassedOnward, Zenon
    <3> QED
      BY <3>1, <3>2
  <2> QED
    BY <1>1, <1>5, <1>6, <2>1, <2>2
<1>8. \A i \in DOMAIN << >> : Block(<< >>[i].at).type # "table"
  OBVIOUS
<1>9. q.at = at /\ q.from = word
  BY <1>1, <1>3
<1>10. TextOK(D, Append(<< >>, q), H, next, 1)
  BY <1>4, <1>7, <1>8, <1>9, TextExtends
<1>11. Append(<< >>, q) = <<q>>
  OBVIOUS
<1> QED
  BY <1>2, <1>4, <1>5, <1>9, <1>10, <1>11

\* A page has no blocks left.
LEMMA NextPageStep ==
    ASSUME ChunkInv, NextPage
    PROVE  ChunkInv'
<1>1. /\ DocumentOK /\ Reading(at, word) /\ HeadingsOK(headings, at)
      /\ TextOK(drafts, acc, headings, at, word) /\ Fits(acc) /\ NoTables(acc)
  BY DEF ChunkInv, ReadTo
<1>2. PICK p, b : p = at[1] /\ b = at[2]
  OBVIOUS
<1>3. /\ p <= Len(document) /\ b > Len(document[p]) /\ verdict = "none"
      /\ at' = <<p + 1, 1>> /\ word' = 1
      /\ document' = document /\ headings' = headings /\ acc' = acc /\ drafts' = drafts /\ verdict' = verdict
  BY <1>2 DEF NextPage, Pending
<1>4. at = <<p, b>> /\ p \in Nat \ {0} /\ b \in Nat \ {0} /\ word \in Nat \ {0}
  BY <1>1, <1>2 DEF Reading
<1>5. p \in 1..Len(document) /\ Len(document) \in Nat
  BY <1>1, <1>3, <1>4 DEF DocumentOK
<1>6. Len(document[p]) \in Nat
  BY <1>1, <1>5 DEF DocumentOK
<1>7. word = 1
  <2>1. at \notin BlockPlaces
    <3>1. ASSUME at \in BlockPlaces PROVE b \in 1..Len(document[p])
      BY <1>1, <1>2, <3>1, PlacesOfBlocks
    <3> QED
      BY <1>3, <1>4, <1>6, <3>1
  <2> QED
    BY <1>1, <1>4, <2>1 DEF Reading
<1>8. PICK turn : turn = <<p + 1, 1>>
  OBVIOUS
<1>9. OpenBefore(turn) = OpenBefore(at)
  BY <1>1, <1>3, <1>4, <1>5, <1>8, OpenAfterBlock
<1>10. HeadingsOK(headings, turn)
  BY <1>1, <1>9 DEF HeadingsOK
<1>11. \A r \in BlockPlaces : \A w \in DOMAIN Words(r) :
          Passed(r, w, turn, 1) <=> Passed(r, w, at, word)
  <2> SUFFICES ASSUME NEW r \in BlockPlaces, NEW w \in DOMAIN Words(r)
               PROVE  Passed(r, w, turn, 1) <=> Passed(r, w, at, word)
    OBVIOUS
  <2>1. PICK k \in Nat \ {0} : k = 1 /\ k \in Nat /\ k <= k
    OBVIOUS
  <2>2. Passed(r, w, <<p + 1, 1>>, 1) <=> Passed(r, w, <<p, b>>, 1)
    BY <1>1, <1>3, <1>4, <1>5, <2>1, PassedOnward
  <2> QED
    BY <1>4, <1>7, <1>8, <2>2
<1>12. TextOK(drafts, acc, headings, turn, 1)
  BY <1>1, <1>11, TextMoves
<1>13. Reading(turn, 1)
  BY <1>4, <1>8 DEF Reading
<1>14. ReadTo(turn, 1, headings, acc, drafts, "none")
  BY <1>1, <1>10, <1>12, <1>13 DEF ReadTo
<1>15. PICK k, H, A, D, v : k = 1 /\ H = headings /\ A = acc /\ D = drafts /\ v = "none"
  OBVIOUS
<1> QED
  BY <1>3, <1>8, <1>14, <1>15, ReadOn

\* A table closes the accumulator and is a chunk of its own.
LEMMA TakeTableStep ==
    ASSUME ChunkInv, TakeTable
    PROVE  ChunkInv'
<1>1. AtBlock("table") /\ verdict' = verdict /\ document' = document /\ headings' = headings
  BY DEF TakeTable
<1>2. PICK q, D, E, F, next, H, chunk :
         /\ q = Whole /\ D = Flushed /\ next = <<at[1], at[2] + 1>> /\ H = headings
         /\ chunk = Chunk(<<q>>, "table") /\ E = Append(D, chunk) /\ F = << >>
  OBVIOUS
<1>3. at' = next /\ word' = 1 /\ drafts' = E /\ acc' = F
  BY <1>2 DEF TakeTable, Onward
<1>4. /\ DocumentOK /\ HeadingsOK(H, at) /\ verdict = "none"
      /\ at \in BlockPlaces /\ at[1] \in Nat /\ at[2] \in Nat /\ at[1] # 0
      /\ Block(at).type = "table" /\ OpenBefore(next) = OpenBefore(at) /\ OpenAt(at) = OpenBefore(next)
  BY <1>1, <1>2, BlockReached DEF ChunkInv, ReadTo, Reading
<1>5. HeadingsOK(H, next)
  BY <1>4 DEF HeadingsOK
<1>6. Sections(H) = OpenAt(at)
  BY <1>4 DEF HeadingsOK
<1>7. TextOK(D, << >>, H, at, word)
  BY <1>2, FlushKeepsText
<1>8. TextOK(D, <<q>>, H, next, 1)
  BY <1>1, <1>2, <1>6, <1>7, WholeExtends
<1>9. chunk.pieces = <<q>> /\ chunk.section = H /\ chunk.type = "table"
  BY <1>2 DEF Chunk
<1>10. WithinCeiling(chunk) /\ SectionInOrder(H)
  BY <1>5, <1>9 DEF WithinCeiling, HeadingsOK, SectionInOrder
<1>11. TextOK(E, << >>, H, next, 1)
  BY <1>2, <1>8, <1>9, <1>10, TextCloses
<1>12. Reading(next, 1)
  BY <1>2, <1>4 DEF Reading
<1>13. Fits(F) /\ NoTables(F)
  BY <1>2 DEF Fits, NoTables
<1>14. PICK k, v : k = 1 /\ v = "none"
  OBVIOUS
<1>15. ReadTo(next, k, H, F, E, v)
  BY <1>2, <1>4, <1>5, <1>11, <1>12, <1>13, <1>14 DEF ReadTo
<1> QED
  BY <1>1, <1>2, <1>3, <1>4, <1>14, <1>15, ReadOn

\* A heading closes the accumulator under the old section and opens the new one.
LEMMA TakeHeadingStep ==
    ASSUME ChunkInv, TakeHeading
    PROVE  ChunkInv'
<1>1. AtBlock("heading") /\ verdict' = verdict /\ document' = document
  BY DEF TakeHeading
<1>2. PICK q, D, A, p, b, next, H :
         /\ q = Whole /\ D = Flushed /\ p = at[1] /\ b = at[2] /\ next = <<p, b + 1>>
         /\ H = Opened(Block(at).level) /\ A = <<q>>
  OBVIOUS
<1>3. at' = next /\ word' = 1 /\ drafts' = D /\ acc' = A /\ headings' = H
  BY <1>2 DEF TakeHeading, Onward
<1>4. /\ DocumentOK /\ HeadingsOK(headings, at) /\ verdict = "none" /\ at = <<p, b>>
      /\ at \in BlockPlaces /\ p \in Nat /\ b \in Nat /\ p # 0
      /\ Block(at).type = "heading" /\ OpenAt(at) = OpenBefore(next)
  BY <1>1, <1>2, BlockReached DEF ChunkInv, ReadTo, Reading
<1>5. at \in HeadingPlaces
  BY <1>4 DEF HeadingPlaces
<1>6. HeadingsOK(H, next)
  BY <1>2, <1>4, <1>5, HeadingOpens
<1>7. Sections(H) = OpenAt(at)
  BY <1>4, <1>6 DEF HeadingsOK
<1>8. TextOK(D, << >>, H, at, word)
  BY <1>2, FlushKeepsText
<1>9. TextOK(D, A, H, next, 1) /\ q.at = at
  BY <1>1, <1>2, <1>7, <1>8, WholeExtends
<1>10. Reading(next, 1)
  BY <1>2, <1>4 DEF Reading
<1>11. Fits(A) /\ NoTables(A)
  <2>1. \A i \in DOMAIN A : A[i] = q
    BY <1>2
  <2> QED
    BY <1>4, <1>9, <2>1 DEF Fits, NoTables, IsHeading
<1>12. PICK k, v : k = 1 /\ v = "none"
  OBVIOUS
<1>13. ReadTo(next, k, H, A, D, v)
  BY <1>4, <1>6, <1>9, <1>10, <1>11, <1>12 DEF ReadTo
<1> QED
  BY <1>1, <1>3, <1>4, <1>12, <1>13, ReadOn

\* The place after a piece of a body: in the block, or at the next one.
LEMMA PieceReads ==
    ASSUME ChunkInv, AtBlock("body"), NEW there, NEW m,
           there = IF PieceEnd = Len(Words(at)) THEN <<at[1], at[2] + 1>> ELSE at,
           m = IF PieceEnd = Len(Words(at)) THEN 1 ELSE PieceEnd + 1
    PROVE  /\ Reading(there, m) /\ HeadingsOK(headings, there)
           /\ NextPiece \in Pieces /\ NextPiece.at = at /\ NextPiece.from = word
           /\ PieceLength(NextPiece) <= Ceiling \/ NextPiece.from = NextPiece.to
           /\ Sections(headings) = OpenAt(at)
           /\ \A r \in BlockPlaces : \A w \in DOMAIN Words(r) :
                 Passed(r, w, there, m) <=>
                    Passed(r, w, at, word) \/ (r = at /\ w \in NextPiece.from..NextPiece.to)
<1>1. /\ DocumentOK /\ at \in BlockPlaces /\ at = <<at[1], at[2]>> /\ at[1] \in Nat /\ at[2] \in Nat
      /\ Block(at).type = "body" /\ HeadingsOK(headings, at) /\ at[1] # 0 /\ at[2] # 0
      /\ Words(at) \in Seq(Nat) /\ Len(Words(at)) \in Nat \ {0} /\ word \in 1..Len(Words(at))
      /\ OpenBefore(<<at[1], at[2] + 1>>) = OpenBefore(at)
      /\ OpenAt(at) = OpenBefore(<<at[1], at[2] + 1>>)
  BY BlockReached DEF ChunkInv, ReadTo, Reading
<1>2. /\ PieceEnd \in word..Len(Words(at))
      /\ NextPiece \in Pieces /\ NextPiece = [at |-> at, from |-> word, to |-> PieceEnd]
      /\ PieceLength(NextPiece) <= Ceiling \/ NextPiece.from = NextPiece.to
  BY <1>1, NextPieceFits
<1>3. PICK p, b, e, k, n, next :
         /\ p = at[1] /\ b = at[2] /\ e = PieceEnd /\ k = word /\ n = Len(Words(at))
         /\ next = <<p, b + 1>>
  OBVIOUS
<1>4. /\ at = <<p, b>> /\ p \in Nat /\ b \in Nat /\ e \in Nat /\ k \in Nat \ {0} /\ k <= e /\ e <= n
      /\ n \in Nat /\ n = Len(Words(<<p, b>>)) /\ p # 0 /\ b # 0
  <2>1. at = <<p, b>> /\ p \in Nat /\ b \in Nat /\ p # 0 /\ b # 0
    BY <1>1, <1>3
  <2>2. n = Len(Words(<<p, b>>)) /\ n \in Nat
    BY <2>1, <1>1, <1>3
  <2>3. k \in 1..n /\ e \in k..n
    BY <1>1, <1>2, <1>3
  <2>4. e \in Nat /\ k \in Nat \ {0} /\ k <= e /\ e <= n
    BY <2>2, <2>3
  <2> QED
    BY <2>1, <2>2, <2>4
<1>5. NextPiece.at = at /\ NextPiece.from = k /\ NextPiece.to = e /\ word = k
  BY <1>2, <1>3
<1>6. Sections(headings) = OpenAt(at)
  BY <1>1 DEF HeadingsOK
<1>7. CASE e = n
  <2>1. there = next /\ m = 1
    BY <1>3, <1>7
  <2>2. Reading(there, m)
    BY <1>3, <1>4, <2>1 DEF Reading
  <2>3. HeadingsOK(headings, there)
    BY <1>1, <1>3, <2>1 DEF HeadingsOK
  <2>4. ASSUME NEW r \in BlockPlaces, NEW w \in DOMAIN Words(r)
        PROVE  Passed(r, w, there, m) <=> Passed(r, w, at, word) \/ (r = at /\ w \in k..e)
    <3>1. DocumentOK /\ p \in Nat /\ b \in Nat /\ e \in Nat /\ k <= e /\ e = Len(Words(<<p, b>>))
      BY <1>1, <1>4, <1>7
    <3>2. e = Len(Words(<<p, b>>)) =>
             (Passed(r, w, <<p, b + 1>>, 1) <=>
                 Passed(r, w, <<p, b>>, k) \/ (r = <<p, b>> /\ w \in k..e))
      <4>1. DocumentOK /\ p \in Nat /\ b \in Nat /\ e \in Nat /\ k \in Nat \ {0} /\ k <= e
        BY <1>1, <1>4
      <4> QED
        BY <4>1, PassedOnward, Zenon
    <3> QED
      BY <1>3, <1>4, <1>5, <2>1, <3>1, <3>2
  <2> QED
    BY <1>2, <1>5, <1>6, <2>2, <2>3, <2>4
<1>8. CASE e # n
  <2>1. there = at /\ m = e + 1
    BY <1>3, <1>8
  <2>2. Reading(there, m)
    BY <1>1, <1>3, <1>4, <1>8, <2>1 DEF Reading
  <2>3. HeadingsOK(headings, there)
    BY <1>1, <2>1
  <2>4. ASSUME NEW r \in BlockPlaces, NEW w \in DOMAIN Words(r)
        PROVE  Passed(r, w, there, m) <=> Passed(r, w, at, word) \/ (r = at /\ w \in k..e)
    <3>1. DocumentOK /\ p \in Nat /\ b \in Nat /\ e \in Nat /\ k <= e
      BY <1>1, <1>4
    <3>2. Passed(r, w, <<p, b>>, e + 1) <=> Passed(r, w, <<p, b>>, k) \/ (r = <<p, b>> /\ w \in k..e)
      BY <1>4, <3>1, PassedOnward, Zenon
    <3> QED
      BY <1>4, <1>5, <2>1, <3>2
  <2> QED
    BY <1>2, <1>5, <1>6, <2>2, <2>3, <2>4
<1> QED
  BY <1>7, <1>8

\* A piece of a body joins the accumulator, or closes it first.
LEMMA TakeBodyStep ==
    ASSUME ChunkInv, TakeBody
    PROVE  ChunkInv'
<1>1. /\ AtBlock("body") /\ verdict' = verdict /\ document' = document /\ headings' = headings
      /\ verdict = "none" /\ Block(at).type = "body" /\ at = <<at[1], at[2]>>
  BY BlockReached DEF TakeBody
<1>2. PICK there, m, q :
         /\ there = IF PieceEnd = Len(Words(at)) THEN <<at[1], at[2] + 1>> ELSE at
         /\ m = IF PieceEnd = Len(Words(at)) THEN 1 ELSE PieceEnd + 1
         /\ q = NextPiece
  OBVIOUS
<1>3. at' = there /\ word' = m
  BY <1>2 DEF TakeBody, Onward
<1>4. /\ Reading(there, m) /\ HeadingsOK(headings, there)
      /\ q \in Pieces /\ q.at = at /\ q.from = word
      /\ PieceLength(q) <= Ceiling \/ q.from = q.to
      /\ Sections(headings) = OpenAt(at)
      /\ \A r \in BlockPlaces : \A w \in DOMAIN Words(r) :
            Passed(r, w, there, m) <=> Passed(r, w, at, word) \/ (r = at /\ w \in q.from..q.to)
  BY <1>1, <1>2, PieceReads
<1>5. /\ DocumentOK /\ TextOK(drafts, acc, headings, at, word) /\ Fits(acc) /\ NoTables(acc)
      /\ acc \in Seq(Pieces)
  BY DEF ChunkInv, ReadTo, TextOK, RunOK
<1>6. PICK H, A, D, v : H = headings' /\ A = acc' /\ D = drafts' /\ v = verdict'
  OBVIOUS
<1>7. CASE Full
  <2>1. D = Flushed /\ A = <<q>>
    BY <1>2, <1>6, <1>7 DEF TakeBody
  <2>2. TextOK(Flushed, << >>, headings, at, word)
    BY FlushKeepsText
  <2>3. \A i \in DOMAIN << >> : Block(<< >>[i].at).type # "table"
    OBVIOUS
  <2>4. TextOK(Flushed, Append(<< >>, q), headings, there, m)
    BY <1>1, <1>4, <2>2, <2>3, TextExtends
  <2>5. TextOK(D, A, headings, there, m)
    BY <2>1, <2>4
  <2>6. Fits(A)
    BY <1>4, <1>5, <2>1, FitsAlone
  <2>7. NoTables(A)
    <3>1. \A i \in DOMAIN A : A[i] = q
      BY <2>1
    <3> QED
      BY <1>1, <1>4, <3>1 DEF NoTables
  <2>8. ReadTo(there, m, H, A, D, v)
    BY <1>1, <1>4, <1>5, <1>6, <2>5, <2>6, <2>7 DEF ReadTo
  <2> QED
    BY <1>1, <1>3, <1>6, <2>8, ReadOn
<1>8. CASE ~Full
  <2>1. D = drafts /\ A = Append(acc, q)
    BY <1>2, <1>6, <1>8 DEF TakeBody
  <2>2. \A i \in DOMAIN acc : Block(acc[i].at).type # "table"
    BY <1>5 DEF NoTables
  <2>3. TextOK(drafts, Append(acc, q), headings, there, m)
    BY <1>1, <1>4, <1>5, <2>2, TextExtends
  <2>4. CharCount(acc) = 0 \/ CharCount(acc) + PieceLength(q) <= Target
    <3>1. CharCount(acc) \in Nat /\ PieceLength(q) \in Nat
      BY <1>4, <1>5, CharCounts, PieceLengths DEF Pieces
    <3> QED
      BY <1>2, <1>8, <3>1, ChunkerAssumption DEF Full
  <2>5. Fits(A)
    BY <1>4, <1>5, <2>1, <2>4, FitsWithOneMore
  <2>6. NoTables(A)
    <3>1. \A i \in DOMAIN A : A[i] = q \/ (i \in DOMAIN acc /\ A[i] = acc[i])
      BY <1>4, <1>5, <2>1
    <3> QED
      BY <1>1, <1>4, <2>2, <3>1 DEF NoTables
  <2>7. ReadTo(there, m, H, A, D, v)
    BY <1>1, <1>4, <1>5, <1>6, <2>1, <2>3, <2>5, <2>6 DEF ReadTo
  <2> QED
    BY <1>1, <1>3, <1>6, <2>7, ReadOn
<1> QED
  BY <1>7, <1>8

\* At the end of the document the accumulator is closed.
LEMMA ValidateStep ==
    ASSUME ChunkInv, Validate
    PROVE  ChunkInv'
<1>1. PICK here, k, H, A, D, v :
         /\ here = at /\ k = word /\ H = headings /\ A = << >> /\ D = Flushed /\ v = verdict'
  OBVIOUS
<1>2. /\ here = at' /\ k = word' /\ H = headings' /\ A = acc' /\ D = drafts' /\ document' = document
      /\ here[1] > Len(document)
  BY <1>1 DEF Validate
<1>3. TextOK(D, A, H, here, k)
  BY <1>1, FlushKeepsText
<1>4. Fits(A) /\ NoTables(A)
  BY <1>1 DEF Fits, NoTables
<1>5. DocumentOK /\ Reading(here, k) /\ HeadingsOK(H, here)
  BY <1>1 DEF ChunkInv, ReadTo
<1>6. ReadTo(here, k, H, A, D, v)
  BY <1>1, <1>2, <1>3, <1>4, <1>5 DEF ReadTo
<1> QED
  BY <1>1, <1>2, <1>6, ReadOn

\* A document is at its beginning.
LEMMA NothingRead ==
    ASSUME ChunkInit
    PROVE  ChunkInv
<1>1. /\ at = <<1, 1>> /\ word = 1 /\ headings = << >> /\ acc = << >> /\ drafts = << >>
      /\ verdict = "none" /\ document \in Documents
  BY DEF ChunkInit
<1>2. DocumentOK
  <2>1. \A f \in Pages : f \in Seq(Blocks)
    <3> SUFFICES ASSUME NEW f \in Pages PROVE f \in Seq(Blocks)
      OBVIOUS
    <3>1. PICK k \in 0..MaxBlocks : f \in [1..k -> Blocks]
      BY DEF Pages
    <3> QED
      BY <3>1, ChunkerAssumption
  <2>2. PICK n \in 0..MaxPages : document \in [1..n -> Pages]
    BY <1>1 DEF Documents
  <2>3. n \in Nat /\ document \in [1..n -> Seq(Blocks)]
    BY <2>1, <2>2, ChunkerAssumption
  <2> QED
    BY <2>3 DEF DocumentOK
<1>3. \A q \in BlockPlaces : ~Before(q, <<1, 1>>)
  <2> SUFFICES ASSUME NEW q \in BlockPlaces PROVE ~Before(q, <<1, 1>>)
    OBVIOUS
  <2>1. q[1] \in Nat \ {0} /\ q[2] \in Nat \ {0}
    BY <1>2, PlacesOfBlocks
  <2> QED
    BY <2>1 DEF Before
<1>4. HeadingsOK(headings, at)
  <2>1. OpenBefore(at) = {}
    BY <1>1, <1>3 DEF OpenBefore, HeadingPlaces
  <2>2. DOMAIN headings = {} /\ headings \in Seq([level : Nat, at : HeadingPlaces])
    BY <1>1
  <2> QED
    BY <2>1, <2>2 DEF HeadingsOK, Sections
<1>5. TextOK(drafts, acc, headings, at, word)
  <2>1. DOMAIN drafts = {} /\ drafts \in Seq(Range(drafts))
    BY <1>1
  <2>2. DraftsOK(drafts, at, word)
    BY <2>1 DEF DraftsOK
  <2>3. RunOK(acc, headings, at, word)
    BY <1>1, NoRun
  <2>4. ASSUME NEW q \in BlockPlaces, NEW w \in DOMAIN Words(q), Passed(q, w, at, word) PROVE FALSE
    <3>1. Words(q) \in Seq(Nat)
      BY <1>2, PlacesOfBlocks
    <3>2. w \in Nat \ {0}
      BY <3>1
    <3> QED
      BY <1>1, <1>3, <2>4, <3>2 DEF Passed
  <2> QED
    BY <2>1, <2>2, <2>3, <2>4 DEF TextOK
<1>6. Fits(acc) /\ NoTables(acc)
  BY <1>1 DEF Fits, NoTables
<1>7. Reading(at, word)
  BY <1>1 DEF Reading
<1> QED
  BY <1>1, <1>2, <1>4, <1>5, <1>6, <1>7 DEF ChunkInv, ReadTo

\* A document that has been read to its end is in its chunks.
LEMMA ReadIsPartition ==
    ASSUME ChunkInv
    PROVE  ChunksPartition
<1> SUFFICES ASSUME verdict # "none" PROVE ChunksPartition
  BY DEF ChunksPartition
<1>1. /\ DocumentOK /\ TextOK(drafts, acc, headings, at, word) /\ acc = << >> /\ at[1] > Len(document)
      /\ at[1] \in Nat
  BY DEF ChunkInv, ReadTo, Reading
<1>2. DraftsOK(drafts, at, word)
  BY <1>1 DEF TextOK
<1>3. ASSUME NEW s \in Slots
      PROVE  /\ s[1] \in DOMAIN drafts /\ s[2] \in DOMAIN drafts[s[1]].pieces
             /\ PieceIn(s) = drafts[s[1]].pieces[s[2]]
  BY DEF Slots, PieceIn
<1>4. ASSUME NEW c \in DOMAIN drafts, NEW i \in DOMAIN drafts[c].pieces
      PROVE  <<c, i>> \in Slots /\ PieceIn(<<c, i>>) = drafts[c].pieces[i]
  BY DEF Slots, PieceIn
<1>5. ASSUME NEW q \in BlockPlaces, NEW w \in DOMAIN Words(q), Words(q)[w] > 0
      PROVE  \E s \in Slots : Holds(PieceIn(s), q, w)
  <2>1. Before(q, at)
    <3>1. q[1] \in Nat /\ q[1] <= Len(document) /\ Len(document) \in Nat
      BY <1>1, PlacesOfBlocks
    <3> QED
      BY <1>1, <3>1 DEF Before
  <2>2. ~InText(acc, q, w)
    BY <1>1 DEF InText
  <2>3. InDrafts(drafts, q, w)
    BY <1>1, <1>5, <2>1, <2>2 DEF TextOK, Passed
  <2>4. PICK c \in DOMAIN drafts : \E i \in DOMAIN drafts[c].pieces : Holds(drafts[c].pieces[i], q, w)
    BY <2>3 DEF InDrafts, InText
  <2>5. PICK i \in DOMAIN drafts[c].pieces : Holds(drafts[c].pieces[i], q, w)
    BY <2>4
  <2> QED
    BY <1>4, <2>5
<1>6. \A c \in DOMAIN drafts : RunOK(drafts[c].pieces, drafts[c].section, at, word)
  BY <1>2 DEF DraftsOK
<1>7. ASSUME NEW s \in Slots
      PROVE  /\ PieceIn(s).at \in BlockPlaces
             /\ PieceIn(s).from..PieceIn(s).to \subseteq DOMAIN Words(PieceIn(s).at)
  <2>1. PieceIn(s) \in Pieces
    BY <1>3, <1>6 DEF RunOK
  <2>2. PICK q \in Pieces : q = PieceIn(s)
    BY <2>1
  <2>3. q.at \in BlockPlaces /\ q.from \in DOMAIN Words(q.at) /\ q.to \in DOMAIN Words(q.at)
    BY DEF Pieces, GoodPiece
  <2>4. Words(q.at) \in Seq(Nat)
    BY <1>1, <2>3, PlacesOfBlocks
  <2>5. q.from..q.to \subseteq DOMAIN Words(q.at)
    BY <2>3, <2>4
  <2> QED
    BY <2>2, <2>3, <2>5
<1>8. ASSUME NEW s \in Slots, NEW t \in Slots, Before(s, t)
      PROVE  EndsBefore(PieceIn(s), PieceIn(t))
  <2>1. CASE s[1] < t[1]
    <3>1. Precede(drafts[s[1]].pieces, drafts[t[1]].pieces)
      BY <1>2, <1>3, <2>1 DEF DraftsOK
    <3> QED
      BY <1>3, <3>1 DEF Precede
  <2>2. CASE s[1] = t[1] /\ s[2] < t[2]
    <3>1. Ordered(drafts[s[1]].pieces)
      BY <1>3, <1>6 DEF RunOK
    <3> QED
      BY <1>3, <2>2, <3>1 DEF Ordered
  <2> QED
    BY <1>8, <2>1, <2>2 DEF Before
<1>9. ASSUME NEW s \in Slots
      PROVE  LET chunk == drafts[s[1]]
                 piece == PieceIn(s)
             IN /\ {chunk.section[h].at : h \in DOMAIN chunk.section} = OpenAt(piece.at)
                /\ \A g, h \in DOMAIN chunk.section : g < h => Before(chunk.section[g].at, chunk.section[h].at)
                /\ Block(piece.at).type = "table" => Len(chunk.pieces) = 1
  <2>1. PICK chunk, i : chunk = drafts[s[1]] /\ i = s[2]
    OBVIOUS
  <2>2. /\ RunOK(chunk.pieces, chunk.section, at, word) /\ SectionInOrder(chunk.section)
        /\ i \in DOMAIN chunk.pieces /\ PieceIn(s) = chunk.pieces[i]
    BY <1>2, <1>3, <2>1 DEF DraftsOK
  <2>3. /\ Sections(chunk.section) = OpenAt(PieceIn(s).at)
        /\ Block(PieceIn(s).at).type = "table" => Len(chunk.pieces) = 1
    BY <2>2 DEF RunOK
  <2> QED
    BY <2>1, <2>2, <2>3 DEF Sections, SectionInOrder
<1>10. \A c \in DOMAIN drafts :
          \/ CharCount(drafts[c].pieces) <= Ceiling
          \/ \A v, w \in Spoken(drafts[c].pieces) : v = w
          \/ drafts[c].type # "text"
  BY <1>2 DEF DraftsOK, WithinCeiling
<1>11. ASSUME NEW c \in DOMAIN drafts, CharCount(drafts[c].pieces) <= Ceiling
       PROVE  ContentLength(drafts[c].pieces) <= Ceiling + Separators(drafts[c].pieces)
  <2>1. drafts[c].pieces \in Seq(Pieces)
    BY <1>2 DEF DraftsOK, RunOK
  <2>2. PICK A : A = drafts[c].pieces
    OBVIOUS
  <2>3. A \in Seq(Pieces) /\ Len(A) \in Nat /\ CharCount(A) <= Ceiling
    BY <1>11, <2>1, <2>2
  <2>4. CharCount(A) \in Nat
    <3>1. CASE A = << >>
      <4>1. Total([i \in DOMAIN << >> |-> PieceLength(<< >>[i])])[0] = 0
        BY TotalIsDefined
      <4> QED
        BY <3>1, <4>1 DEF CharCount
    <3>2. CASE A # << >>
      <4>1. A[1] \in Pieces
        BY <2>3, <3>2
      <4> QED
        BY <1>1, <2>3, <4>1, CharCounts
    <3> QED
      BY <3>1, <3>2
  <2>5. ContentLength(A) <= Ceiling + Separators(A)
    BY <2>3, <2>4, ChunkerAssumption DEF ContentLength, Separators
  <2> QED
    BY <2>2, <2>5
<1> QED
  BY <1>5, <1>7, <1>8, <1>9, <1>10, <1>11 DEF ChunksPartition

\* Whatever has been read is in the chunks and the accumulator: in order, under its
\* headings, and within the ceiling but for the separators.
THEOREM ChunkInvariant == ChunkSpec => []ChunkInv
<1>1. ChunkInv /\ [ChunkNext]_chunkVars => ChunkInv'
  <2> SUFFICES ASSUME ChunkInv, [ChunkNext]_chunkVars PROVE ChunkInv'
    OBVIOUS
  <2>1. CASE UNCHANGED chunkVars
    <3>1. PICK here, k, H, A, D, v :
             /\ here = at /\ k = word /\ H = headings /\ A = acc /\ D = drafts /\ v = verdict
      OBVIOUS
    <3>2. /\ here = at' /\ k = word' /\ H = headings' /\ A = acc' /\ D = drafts' /\ v = verdict'
          /\ document' = document
      BY <2>1, <3>1 DEF chunkVars
    <3>3. ReadTo(here, k, H, A, D, v)
      BY <3>1 DEF ChunkInv
    <3> QED
      BY <3>2, <3>3, ReadOn
  <2> QED
    BY <2>1, NextPageStep, TakeTableStep, TakeHeadingStep, TakeBodyStep, ValidateStep DEF ChunkNext
<1> QED
  BY <1>1, NothingRead, PTL DEF ChunkSpec

\* A validated document is cut into chunks without a word lost, repeated or moved,
\* each within the ceiling but for the separators between its pieces.
THEOREM ChunksAreAPartition == ChunkSpec => []ChunksPartition
<1>1. ChunkInv => ChunksPartition
  BY ReadIsPartition
<1> QED
  BY <1>1, ChunkInvariant, PTL

=============================================================================
