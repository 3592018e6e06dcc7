----------------------------- MODULE SyntheticData -----------------------------
(* Demo issuers, their loans and capital structure, how they are seeded and     *)
(* how they are cleaned away again while analysts work, and the issuer pages    *)
(* that may be read meanwhile.  The database is a set of rows; a row refers to  *)
(* others, and a statement that leaves a reference dangling raises.             *)
EXTENDS Integers, Sequences, FiniteSetsExt, Sums

CONSTANTS
    Layers,         \* tranches, most senior first: 1, 2, ...
    Securities,     \* layers of the demo issuer that have a security
    Stacks,         \* principal amounts per layer, and an enterprise value
    Research,       \* tables an analyst or a job may write for an issuer
    MaxResearch     \* bound: rows of research

ASSUME SyntheticAssumption ==
    /\ IsFiniteSet(Layers) /\ Layers = 1..Cardinality(Layers)
    /\ Securities \subseteq Layers /\ MaxResearch \in Nat
    /\ Research \cap {"issuer", "security", "position", "provenance", "calculation", "input"} = {}
    /\ \A s \in Stacks : s.value \in Nat /\ s.amount \in [Layers -> Nat]

VARIABLES
    stack,      \* the amounts the demo issuer is seeded with
    rows,       \* every committed row
    recoveries, \* illustrative_recovery per layer, in hundredths of a percent
    cleanup,    \* the cleanup under way: its issuer, the tables left to check, its outcome
    deletion,   \* the transaction of a deletion that has passed its checks:
                \* what it has read, what it has deleted, its next statement, and
                \* (history) rows of the issuer committed since its last check
    orphans,    \* history: rows committed during a deletion and left by it
    page        \* an issuer page being assembled: rows still to source, rows shown

synthVars == <<stack, rows, recoveries, cleanup, deletion, orphans, page>>

AllIssuers == {"loans", "demo", "real"}
Synthetic == {"loans", "demo"}

\* _REAL_DEPENDENCY_TABLES
RealDependencyTables ==
    {"sec_filing", "research_evidence", "alert_event", "collection_membership", "court_docket",
     "issuer_enrichment_status", "financial_fact", "market_discovery_candidate", "ai_call_log"}

(***************************************************************************)
(* Rows and references                                                     *)
(***************************************************************************)
Row(table, issuer, layer, role) == [table |-> table, issuer |-> issuer, layer |-> layer, role |-> role]
Issuer(i) == Row("issuer", i, 0, "none")
Source(i, l, role) == Row("provenance", i, l, role)
Calculation(i, l) == Row("calculation", i, l, "none")
\* On a synthetic issuer, layer 0 is a security that is not synthetic.
Security(i, l) == Row("security", i, l, IF i = "real" \/ l = 0 THEN "real" ELSE "synthetic")
Position(i, l) == Row("position", i, l, "none")

\* calculation_input: the assumed value, the layer's principal, all senior to it.
Inputs(i, l) == {[calculation |-> Calculation(i, l), table |-> "input", issuer |-> i, of |-> s] :
                    s \in {Source(i, 0, "value")} \cup {Source(i, m, "principal") : m \in 1..l}}

HasSecurity(i, l) == i # "demo" \/ l \in Securities \cup {0}

Refs(r) ==
    CASE r.table = "issuer" -> {Source(r.issuer, 0, "issuer")}
      [] r.table = "security" -> {Issuer(r.issuer), Source(r.issuer, r.layer, "principal")}
      [] r.table = "position" ->
            {Issuer(r.issuer), Source(r.issuer, r.layer, "position")}
            \cup {s \in {Security(r.issuer, r.layer)} : HasSecurity(r.issuer, r.layer)}
      [] r.table = "provenance" ->
            {c \in {Calculation(r.issuer, r.layer)} : r.issuer = "demo" /\ r.role = "position"}
      [] r.table = "calculation" -> {}
      [] r.table = "input" -> {r.calculation, r.of}
      [] OTHER -> {Issuer(r.issuer)}

Consistent(db) == \A r \in db : Refs(r) \subseteq db

RowsOf(db, table, i) == {r \in db : r.table = table /\ r.issuer = i}
SourcesOf(db, of) == {r \in db : r.table = "provenance" /\ \E o \in of : r \in Refs(o)}
AllSecurities(i) == RowsOf(rows, "security", i)
SyntheticSecurities(i) == {s \in AllSecurities(i) : s.role = "synthetic"}

(***************************************************************************)
(* The recovery waterfall                                                  *)
(***************************************************************************)
\* cumulative_before
SeniorTo(amount, l) == Total(amount)[l - 1]
Percent(part, whole) == (2 * 10000 * part + whole) \div (2 * whole)
RecoverableUnclamped(amount, l, value) == Min({amount[l], value})
Recoverable(amount, l, value) == Max({0, Min({amount[l], value - SeniorTo(amount, l)})})
RecoveryWaterfall(amount, value) ==
    [l \in Layers |-> IF amount[l] = 0 THEN 0 ELSE Percent(Recoverable(amount, l, value), amount[l])]

(***************************************************************************)
(* Seeding                                                                 *)
(***************************************************************************)
Real == {Issuer("real"), Source("real", 0, "issuer"), Security("real", 1), Source("real", 1, "principal")}
NoCleanup == [issuer |-> "none", unchecked |-> {}, outcome |-> "none"]
NoDeletion == [sources |-> {}, calculations |-> {}, gone |-> {}, next |-> 0, late |-> {}]
NoPage == [pending |-> {}, shown |-> {}]

SynthInit ==
    /\ stack \in Stacks
    /\ rows = Real /\ recoveries = [l \in Layers |-> 0]
    /\ cleanup = NoCleanup /\ deletion = NoDeletion /\ orphans = {} /\ page = NoPage

\* Another session commits rows.  They wait for a deletion that has deleted what
\* they refer to; the deletion notes (history) those that come after its checks.
Commit(more) ==
    /\ \A r \in more : r \notin deletion.gone /\ Refs(r) \cap deletion.gone = {}
    /\ rows' = rows \cup more
    /\ deletion' = IF cleanup.outcome \in {"checked", "deleting"}
                   THEN [deletion EXCEPT !.late = @ \cup {r \in more : r.issuer = cleanup.issuer}]
                   ELSE deletion

\* An issuer that is there by name is left untouched.
SeedLoans ==
    /\ Issuer("loans") \notin rows
    /\ Commit({Issuer("loans"), Source("loans", 0, "issuer")}
                \cup (UNION {{Security("loans", l), Source("loans", l, "principal")} : l \in Layers}))
    /\ UNCHANGED <<stack, recoveries, cleanup, orphans, page>>

\* What a seeding adds: positions of the loans that have none (a real security has
\* no seniority and gets none), then the demo issuer, its tranches, their
\* calculations and, for some, a security.
ReportedLayers ==
    IF RowsOf(rows, "position", "loans") # {} THEN {}
    ELSE UNION {{Position("loans", s.layer), Source("loans", s.layer, "position")} :
                   s \in SyntheticSecurities("loans")}

DemoRows ==
    {Issuer("demo"), Source("demo", 0, "issuer"), Source("demo", 0, "value")}
    \cup (UNION {{Source("demo", l, "principal"), Calculation("demo", l),
                  Source("demo", l, "position"), Position("demo", l)} \cup Inputs("demo", l) :
                 l \in Layers})
    \cup {Security("demo", l) : l \in Securities}

SeedCapitalStructure ==
    /\ Commit(ReportedLayers \cup (IF Issuer("demo") \in rows THEN {} ELSE DemoRows))
    /\ recoveries' = IF Issuer("demo") \in rows THEN recoveries
                     ELSE RecoveryWaterfall(stack.amount, stack.value)
    /\ UNCHANGED <<stack, cleanup, orphans, page>>

(***************************************************************************)
(* Cleanup                                                                 *)
(***************************************************************************)
\* Statements run in order; the first that leaves a reference dangling raises,
\* and the transaction leaves the rows as they were.
Transaction(statements) ==
    LET After(n) == rows \ UNION {statements[k] : k \in 1..n}
    IN IF \A n \in DOMAIN statements : Consistent(After(n)) THEN After(Len(statements)) ELSE rows

Attempt(i, statements) ==
    /\ rows' = Transaction(statements)
    /\ cleanup' = [issuer |-> i, unchecked |-> {},
                   outcome |-> IF rows' = rows THEN "raised" ELSE "removed"]

Deleting == cleanup.outcome \in {"checking", "checked", "deleting"}

\* SourcesOf still referred to by a security, an issuer or a position are kept;
\* inputs of a calculation are not looked at.
RemoveSecurities(i) ==
    /\ ~Deleting /\ SyntheticSecurities(i) # {}
    /\ LET gone == SyntheticSecurities(i)
           kept == SourcesOf(rows, {r \in rows \ gone : r.table \in {"security", "issuer", "position"}})
       IN Attempt(i, <<gone, SourcesOf(rows, gone) \ kept>>)
    /\ UNCHANGED <<stack, recoveries, deletion, orphans, page>>

StartDelete(i) ==
    /\ ~Deleting /\ Issuer(i) \in rows
    /\ cleanup' = IF i \in Synthetic
                  THEN [issuer |-> i, unchecked |-> Research \cap RealDependencyTables,
                        outcome |-> "checking"]
                  ELSE [issuer |-> i, unchecked |-> {}, outcome |-> "refused"]
    /\ UNCHANGED <<stack, rows, recoveries, deletion, orphans, page>>

CheckTable ==
    /\ cleanup.outcome = "checking"
    /\ \E table \in cleanup.unchecked :
          cleanup' = IF RowsOf(rows, table, cleanup.issuer) # {} THEN [cleanup EXCEPT !.outcome = "refused"]
                     ELSE [cleanup EXCEPT !.unchecked = @ \ {table}]
    /\ UNCHANGED <<stack, rows, recoveries, deletion, orphans, page>>

\* has_real_security, the last check.
CheckSecurities ==
    /\ cleanup.outcome = "checking" /\ cleanup.unchecked = {}
    /\ cleanup' = [cleanup EXCEPT !.outcome =
                      IF AllSecurities(cleanup.issuer) = SyntheticSecurities(cleanup.issuer)
                      THEN "checked" ELSE "refused"]
    /\ UNCHANGED <<stack, rows, recoveries, deletion, orphans, page>>

Owned(i) == RowsOf(rows, "security", i) \cup RowsOf(rows, "position", i) \cup {Issuer(i)}

\* The sources the issuer's rows name, and the calculations those name, are read
\* before the first statement deletes.
ReadOwned ==
    /\ cleanup.outcome = "checked"
    /\ LET sources == SourcesOf(rows, Owned(cleanup.issuer))
       IN deletion' = [deletion EXCEPT
                         !.sources = sources, !.next = 1,
                         !.calculations = {r \in rows : /\ r.table = "calculation"
                                                       /\ \E s \in sources : r \in Refs(s)}]
    /\ cleanup' = [cleanup EXCEPT !.outcome = "deleting"]
    /\ UNCHANGED <<stack, rows, recoveries, orphans, page>>

\* What a statement deletes: by the ids that were read, or by the issuer.
Targets(n, i) ==
    CASE n = 1 -> {r \in RowsOf(rows, "input", i) : r.calculation \in deletion.calculations}
      [] n = 2 -> RowsOf(rows, "position", i)
      [] n = 3 -> AllSecurities(i)
      [] n = 4 -> {Issuer(i)}
      [] n = 5 -> deletion.sources
      [] n = 6 -> deletion.calculations

\* One DELETE.  What is left must refer to nothing that is deleted; else the
\* statement raises and the transaction is rolled back.
DeleteStatement ==
    /\ cleanup.outcome = "deleting" /\ deletion.next \in 1..6
    /\ LET gone == deletion.gone \cup Targets(deletion.next, cleanup.issuer)
       IN IF Consistent(rows \ gone)
          THEN /\ deletion' = [deletion EXCEPT !.gone = gone, !.next = @ + 1]
               /\ UNCHANGED cleanup
          ELSE /\ cleanup' = [cleanup EXCEPT !.outcome = "raised"]
               /\ deletion' = NoDeletion
    /\ UNCHANGED <<stack, rows, recoveries, orphans, page>>

CommitDelete ==
    /\ cleanup.outcome = "deleting" /\ deletion.next = 7
    /\ rows' = rows \ deletion.gone
    /\ cleanup' = [cleanup EXCEPT !.outcome = "removed"]
    /\ orphans' = orphans \cup (deletion.late \ deletion.gone)
    /\ deletion' = NoDeletion
    /\ UNCHANGED <<stack, recoveries, page>>

(***************************************************************************)
(* Meanwhile: research and bonds are stored for an issuer, its page is read *)
(***************************************************************************)
WriteResearch(table, i) ==
    /\ Issuer(i) \in rows /\ Row(table, i, 0, "none") \notin rows
    /\ Cardinality({r \in rows : r.table \in Research}) < MaxResearch
    /\ Commit({Row(table, i, 0, "none")})
    /\ UNCHANGED <<stack, recoveries, cleanup, orphans, page>>

\* A job stores a security that is not synthetic for an issuer that is.
AddRealSecurity(i) ==
    /\ Issuer(i) \in rows /\ Security(i, 0) \notin rows
    /\ Commit({Security(i, 0), Source(i, 0, "principal")})
    /\ UNCHANGED <<stack, recoveries, cleanup, orphans, page>>

\* An issuer's page lists securities and capital structure first, the capital
\* structure page its layers; each then looks up the source of one row at a time.
OpenPage(i) ==
    /\ page.pending = {} /\ Issuer(i) \in rows
    /\ page' = [pending |-> RowsOf(rows, "security", i) \cup RowsOf(rows, "position", i), shown |-> {}]
    /\ UNCHANGED <<stack, rows, recoveries, cleanup, deletion, orphans>>

OpenCapitalStructure(i) ==
    /\ page.pending = {} /\ Issuer(i) \in rows
    /\ page' = [pending |-> RowsOf(rows, "position", i), shown |-> {}]
    /\ UNCHANGED <<stack, rows, recoveries, cleanup, deletion, orphans>>

\* No entitlement is on file: licensed data, of which there is none, would not show.
Classification(i) == IF i \in Synthetic THEN "synthetic" ELSE "public"
PolicyCheck(classification) == classification # "licensed"
Allowed(source, i) == source # {} /\ PolicyCheck(Classification(i))

SourceOf(r) == SourcesOf(rows, {r})

\* The credit universe joins securities with issuer and source in one query; a
\* page holds them all.
Listed(roles) == {r \in rows : r.table = "security" /\ r.role \in roles /\ Issuer(r.issuer) \in rows}
ListCreditUniverse(roles) ==
    /\ page.pending = {}
    /\ page' = [pending |-> {}, shown |-> {[row |-> r, source |-> SourceOf(r)] :
                                  r \in {q \in Listed(roles) : Allowed(SourceOf(q), q.issuer)}}]
    /\ UNCHANGED <<stack, rows, recoveries, cleanup, deletion, orphans>>

Turn(r) == IF r.table = "security" THEN r.layer ELSE Cardinality(Layers) + r.layer

SourceRow ==
    /\ \E r \in {q \in page.pending : \A o \in page.pending : Turn(q) <= Turn(o)} :
          page' = [pending |-> page.pending \ {r},
                   shown |-> IF Allowed(SourceOf(r), r.issuer)
                             THEN page.shown \cup {[row |-> r, source |-> SourceOf(r)]}
                             ELSE page.shown]
    /\ UNCHANGED <<stack, rows, recoveries, cleanup, deletion, orphans>>

SynthNext ==
    \/ SeedLoans \/ SeedCapitalStructure
    \/ \E i \in AllIssuers : RemoveSecurities(i) \/ StartDelete(i) \/ OpenPage(i)
    \/ \E i \in AllIssuers : OpenCapitalStructure(i)
    \/ \E roles \in {{"real"}, {"synthetic"}, {"real", "synthetic"}} : ListCreditUniverse(roles)
    \/ CheckTable \/ CheckSecurities \/ ReadOwned \/ DeleteStatement \/ CommitDelete \/ SourceRow
    \/ \E t \in Research, i \in AllIssuers : WriteResearch(t, i)
    \/ \E i \in Synthetic : AddRealSecurity(i)
SynthSpec == SynthInit /\ [][SynthNext]_synthVars

(***************************************************************************)
(* Properties                                                              *)
(***************************************************************************)
\* What a deletion leaves behind: sources of the demo issuer that only
\* calculations referred to.
Unowned(i) ==
    IF i = "demo" THEN {Source(i, 0, "value")} \cup {Source(i, l, "principal") : l \in Layers \ Securities}
    ELSE {}

\* A security that is not synthetic, and its source.
RealRow(r) == r \in {Security(r.issuer, 0), Source(r.issuer, 0, "principal")}

\* Cleanup takes only rows of synthetic issuers, and research of no kind; of the
\* real securities of such an issuer only those that came after the deletion had
\* looked for them.
OnlySynthetic ==
    \A r \in rows \ rows' :
        /\ r.issuer \in Synthetic
        /\ r.table \in {"issuer", "security", "position", "provenance", "calculation", "input"}
        /\ RealRow(r) => r \in deletion.late

\* A deletion that passed its checks takes the whole issuer or nothing, but for
\* what came since, or came so in an earlier deletion; it gives up only because of
\* that or of research it did not look for.
WholeOrNothing ==
    cleanup.outcome = "deleting" /\ cleanup'.outcome \in {"removed", "raised"} =>
        LET i == cleanup.issuer
            left == {r \in rows' : r.issuer = i}
        IN IF cleanup'.outcome = "removed" THEN left \subseteq Unowned(i) \cup deletion.late \cup orphans
           ELSE rows' = rows /\ (deletion.late # {} \/ \E t \in Research : RowsOf(rows, t, i) # {})

(* Cleaning demo data away is exact while others work: nothing real that was     *)
(* there at the last check is lost, no issuer is half deleted, and no page shows *)
(* a row without its source.                                                     *)
CleanupIsExact ==
    /\ [](\A s \in page.shown : s.source # {})
    /\ [][OnlySynthetic /\ WholeOrNothing]_synthVars

(* What the module promises (synthetic_cleanup_service.py:15-20): an issuer with *)
(* anything real is not deleted.  The code does not keep it: a real security     *)
(* committed between the check and DELETE FROM security goes with the issuer.    *)
RealSecuritiesStay == [][\A r \in rows \ rows' : ~RealRow(r)]_synthVars

Distance(a, b) == IF a < b THEN b - a ELSE a - b

(* A junior layer recovers something only when every senior one is paid in full, *)
(* and together they receive what the enterprise is worth, or all they are owed, *)
(* but for the rounding of one recovery to a hundredth of a percent.             *)
SeniorFirst ==
    Issuer("demo") \in rows =>
        LET owed == SeniorTo(stack.amount, Cardinality(Layers) + 1)
            paid == Total([l \in Layers |-> recoveries[l] * stack.amount[l]])[Cardinality(Layers)]
        IN /\ \A l, m \in Layers : l < m /\ recoveries[m] > 0 =>
                 stack.amount[l] = 0 \/ recoveries[l] = 10000
           /\ \A l \in Layers : recoveries[l] \in 0..10000
           /\ 2 * Distance(paid, 10000 * Min({stack.value, owed})) <= Max({0} \cup {stack.amount[l] : l \in Layers})
=============================================================================
