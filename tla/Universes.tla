------------------------------- MODULE Universes -------------------------------
(***************************************************************************)
(* Collections and who belongs to them: the evidence-driven universes      *)
(* (services/universe_classification_service.py), which classify_issuer    *)
(* only strengthens and scripts/reclassify_system_universes.py corrects;   *)
(* the curated ones of scripts/seed_research_universes.py; and watchlists  *)
(* (services/watchlist_service.py), which share their tables.  A           *)
(* collection is its slug.  A worker's transaction reads alerts, reads     *)
(* memberships and then writes, or reads an alert, has it reviewed again   *)
(* and then writes; a request reads and then writes.                       *)
(***************************************************************************)
EXTENDS Naturals, FiniteSets, Sequences, SequencesExt

CONSTANTS
    Issuers, Bundles, Evidence,
    IssuerOf,     \* the issuer of a bundle
    BundleOf,     \* the bundle of a piece of evidence
    UniverseOf,   \* the universe its type maps to
    Definitive,   \* the evidence of the definitive types
    Severity,     \* what the rule gave it
    Reviews,      \* what a review may find of a bundle
    SystemSlugs, Core, CuratedSlugs, OtherSlugs,
    SlugsFor,     \* the slugs tried for a watchlist's name, in order
    Classifiers, Correctors, Clients,
    None

Slugs == SystemSlugs \cup CuratedSlugs \cup OtherSlugs
Workers == Classifiers \cup Correctors
Names == DOMAIN SlugsFor

ReviewRecords == [severity: {"high", "medium", "low"}, subject: {"yes", "no", "unknown"}]

ASSUME UniverseAssumption ==
    /\ IssuerOf \in [Bundles -> Issuers] /\ BundleOf \in [Evidence -> Bundles]
    /\ UniverseOf \in [Evidence -> SystemSlugs \ {Core}]
    /\ Definitive \subseteq Evidence /\ IsFiniteSet(Evidence)
    /\ Severity \in [Evidence -> {"high", "medium", "low"}]
    /\ Reviews \subseteq ReviewRecords
    /\ Core \in SystemSlugs /\ SystemSlugs \cap (CuratedSlugs \cup OtherSlugs) = {}
    /\ SlugsFor \in [Names -> Seq(Slugs)]
    /\ Classifiers \cap Correctors = {} /\ Workers \cap Clients = {}
    /\ None \notin ReviewRecords \cup Slugs \cup Issuers \cup Bundles

VARIABLES
    stored, alert,   \* the bundles with research_evidence, the alert of each
    saidYes,         \* history: the bundles whose alert has been HighYes
    collection,      \* collection rows by slug
    member,          \* collection_membership rows by slug and issuer
    pc, issuer,      \* a worker: where it is, for whom
    bundle,          \* the bundle whose alert it is about to fill in
    expected, saw,   \* what its evidence calls for, the rows it read
    request          \* a client: what it read and is about to write

reviews == <<stored, alert, saidYes>>

workers == <<pc, issuer, bundle, expected, saw>>

vars == <<reviews, collection, member, workers, request>>

\* What an alert says that confirms its issuer: a high event, and its own.
HighYes == [severity |-> "high", subject |-> "yes"]

\* A collection's type and how it is curated.
SystemSeeded == [type |-> "research_universe", method |-> "system_seeded"]
Curated == [type |-> "research_universe", method |-> "manual_curated"]
Watchlist == [type |-> "watchlist", method |-> "user_created"]
CollectionRows == [type: {"research_universe", "watchlist"},
                   method: {"system_seeded", "manual_curated", "user_created"}]

Rank(status) == CASE status = "none" -> 0 [] status = "unverified" -> 1
                  [] status = "partial" -> 2 [] status = "verified" -> 3

MemberRows == [status: {"unverified", "partial", "verified"}, system_seeded: {"yes", "no"}]

ASSUME NoneAssumption == None \notin MemberRows \cup CollectionRows

Init ==
    /\ stored = {}
    /\ alert = [b \in Bundles |-> None]
    /\ saidYes = {}
    /\ collection = [c \in Slugs |-> None]
    /\ member = [c \in Slugs |-> [i \in Issuers |-> None]]
    /\ pc = [w \in Workers |-> "idle"]
    /\ issuer = [w \in Workers |-> None]
    /\ bundle = [w \in Workers |-> None]
    /\ expected = [w \in Workers |-> [c \in SystemSlugs |-> "none"]]
    /\ saw = [w \in Workers |-> [c \in SystemSlugs |-> None]]
    /\ request = [q \in Clients |-> None]

-----------------------------------------------------------------------------
(* What a set of evidence calls for. *)

\* effective_reviews: the alert of the bundle, or the rule alone.
Effective(e) ==
    IF alert[BundleOf[e]] # None THEN alert[BundleOf[e]]
    ELSE [severity |-> Severity[e], subject |-> "unknown"]

\* Mutant of StatusFrom: attribution is taken for granted unless it is denied.
StatusUnlessDenied(e) ==
    CASE e \in Definitive /\ Effective(e).severity = "high" ->
            IF Effective(e).subject # "no" THEN "verified" ELSE "partial"
      [] e \notin Definitive /\ Effective(e).severity \in {"high", "medium"} -> "partial"
      [] OTHER -> "none"

\* Only an explicit yes makes a definitive match verified.
StatusFrom(e) ==
    CASE e \in Definitive /\ Effective(e).severity = "high" ->
            IF Effective(e).subject = "yes" THEN "verified" ELSE "partial"
      [] e \notin Definitive /\ Effective(e).severity \in {"high", "medium"} -> "partial"
      [] OTHER -> "none"

Strongest(statuses) ==
    CHOOSE s \in statuses \cup {"none"} : \A t \in statuses : Rank(t) <= Rank(s)

\* compute_expected_memberships; the core universe takes what any other takes.
Expected(items) ==
    [c \in SystemSlugs |->
        Strongest({StatusFrom(e) : e \in {f \in items : c \in {Core, UniverseOf[f]}}})]

EvidenceOf(bundles) == {e \in Evidence : BundleOf[e] \in bundles}

StoredFor(i) == {b \in stored : IssuerOf[b] = i}

-----------------------------------------------------------------------------
(* The pipeline before it: evidence and alerts, once committed, stay. *)

StoreEvidence(b) ==
    /\ stored' = stored \cup {b}
    /\ UNCHANGED <<alert, saidYes, collection, member, workers, request>>

Say(b, found) ==
    /\ alert' = [alert EXCEPT ![b] = found]
    /\ saidYes' = IF found = HighYes THEN saidYes \cup {b} ELSE saidYes

StoreAlert(b) ==
    /\ b \in stored /\ alert[b] = None
    /\ \E found \in Reviews : Say(b, found)
    /\ UNCHANGED <<stored, collection, member, workers, request>>

-----------------------------------------------------------------------------
(* Workers. *)

Goto(w, place) == pc' = [pc EXCEPT ![w] = place]

Finish(w) ==
    /\ Goto(w, "idle")
    /\ issuer' = [issuer EXCEPT ![w] = None]
    /\ bundle' = [bundle EXCEPT ![w] = None]
    /\ expected' = [expected EXCEPT ![w] = [c \in SystemSlugs |-> "none"]]
    /\ saw' = [saw EXCEPT ![w] = [c \in SystemSlugs |-> None]]

StartOn(w, i, bundles) ==
    /\ pc[w] = "idle"
    /\ issuer' = [issuer EXCEPT ![w] = i]
    /\ expected' = [expected EXCEPT ![w] = Expected(EvidenceOf(bundles))]
    /\ Goto(w, "compare")
    /\ UNCHANGED <<reviews, collection, member, bundle, saw, request>>

\* classify_issuer is given the evidence of this run.
Classify(w, i) ==
    /\ w \in Classifiers
    /\ \E bundles \in SUBSET StoredFor(i) : bundles # {} /\ StartOn(w, i, bundles)

\* _recompute_memberships takes all there is of an issuer.
Recompute(w, i) ==
    /\ w \in Correctors /\ StoredFor(i) # {}
    /\ StartOn(w, i, StoredFor(i))

\* get_collection_by_slug and get_membership, whatever collection that is.
Compare(w) ==
    /\ pc[w] = "compare"
    /\ saw' = [saw EXCEPT ![w] = [c \in SystemSlugs |-> member[c][issuer[w]]]]
    /\ Goto(w, "write")
    /\ UNCHANGED <<reviews, collection, member, issuer, bundle, expected, request>>

\* Mutant of Upgraded: the new status replaces the old one.
Overwritten(row, status) ==
    CASE status = "none" -> row
      [] status # "none" /\ row = None -> [status |-> status, system_seeded |-> "yes"]
      [] OTHER -> [row EXCEPT !.status = status]

\* _upsert_membership: added, or only ever strengthened.
Upgraded(row, status) ==
    CASE status = "none" -> row
      [] status # "none" /\ row = None -> [status |-> status, system_seeded |-> "yes"]
      [] OTHER -> IF Rank(status) > Rank(row.status) THEN [row EXCEPT !.status = status] ELSE row

\* Mutant of Corrected: nothing is removed.
CorrectedUpwards(row, status) ==
    IF row = None \/ status = "none" THEN Upgraded(row, status)
    ELSE IF row.system_seeded = "no" THEN row
    ELSE [row EXCEPT !.status = status]

\* Mutant of Corrected: whose row it is does not matter.
CorrectedAnyRow(row, status) ==
    CASE status = "none" -> None
      [] status # "none" /\ row = None -> Upgraded(row, status)
      [] OTHER -> [row EXCEPT !.status = status]

\* apply_correction: the rows of the system become what is expected.
Corrected(row, status) ==
    IF row = None THEN Upgraded(row, status)
    ELSE IF row.system_seeded = "no" THEN row
    ELSE IF status = "none" THEN None
    ELSE [row EXCEPT !.status = status]

Target(w, c) ==
    IF w \in Correctors THEN Corrected(saw[w][c], expected[w][c])
    ELSE Upgraded(saw[w][c], expected[w][c])

\* The slugs a worker writes to: those of existing collections.
Written(w) == {c \in SystemSlugs : collection[c] # None /\ Target(w, c) # saw[w][c]}

SameRow(row, other) ==
    (row = None) = (other = None) /\ (row # None => row.system_seeded = other.system_seeded)

\* An insert finds its pair taken, or an update its row gone.
Clashes(w) ==
    \E c \in Written(w) :
        Target(w, c) # None /\ ~SameRow(saw[w][c], member[c][issuer[w]])

CommitMemberships(w) ==
    /\ pc[w] = "write" /\ ~Clashes(w)
    /\ member' = [c \in Slugs |-> [i \in Issuers |->
          IF i = issuer[w] /\ c \in Written(w) /\ SameRow(saw[w][c], member[c][i])
          THEN Target(w, c) ELSE member[c][i]]]
    /\ Finish(w)
    /\ UNCHANGED <<reviews, collection, request>>

\* A clash, a lost connection or any other failure: rollback.
RollBack(w) ==
    /\ pc[w] # "idle"
    /\ Finish(w)
    /\ UNCHANGED <<reviews, collection, member, request>>

\* _backfill_issuer_is_subject takes a bundle with definitive evidence whose
\* alert does not say whose event it is, and has it reviewed again.
ChooseBundle(w, b) ==
    /\ w \in Correctors /\ pc[w] = "idle"
    /\ alert[b] # None /\ alert[b].subject = "unknown"
    /\ \E e \in Definitive : BundleOf[e] = b
    /\ bundle' = [bundle EXCEPT ![w] = b]
    /\ Goto(w, "review")
    /\ UNCHANGED <<reviews, collection, member, issuer, expected, saw, request>>

\* backfill_issuer_is_subject writes the answer whatever the alert says by now;
\* an alert is never deleted.  Without an answer the worker rolls back.
WriteSubject(w) ==
    /\ pc[w] = "review"
    /\ \E found \in {"yes", "no"} :
          Say(bundle[w], [alert[bundle[w]] EXCEPT !.subject = found])
    /\ Finish(w)
    /\ UNCHANGED <<stored, collection, member, request>>

-----------------------------------------------------------------------------
(* The two seed scripts. *)

\* A slug is not used again while a request holds the id of the collection
\* that was deleted there: ids are not modelled.
Held(c) == \E q \in Clients :
    request[q] # None /\ request[q].slug = c /\ request[q].op # "create"

\* seed_evidence_driven_universes: all of them, or an error and none.
SeedSystem ==
    /\ \A c \in SystemSlugs : ~Held(c) /\ collection[c] \in {None, SystemSeeded}
    /\ collection' = [c \in Slugs |-> IF c \in SystemSlugs THEN SystemSeeded ELSE collection[c]]
    /\ UNCHANGED <<reviews, member, workers, request>>

\* A slug that exists is the universe, and its curation_method is healed.
SeedCurated(c) ==
    /\ c \in CuratedSlugs /\ ~Held(c)
    /\ collection' = [collection EXCEPT ![c] =
          IF @ = None THEN Curated ELSE [@ EXCEPT !.method = "manual_curated"]]
    /\ UNCHANGED <<reviews, member, workers, request>>

SeedMember(c, i) ==
    /\ c \in CuratedSlugs /\ collection[c] # None /\ collection[c].method = "manual_curated"
    /\ member[c][i] = None
    /\ member' = [member EXCEPT ![c][i] = [status |-> "verified", system_seeded |-> "yes"]]
    /\ UNCHANGED <<reviews, collection, workers, request>>

-----------------------------------------------------------------------------
(* Watchlist requests. *)

IsWatchlist(c) == collection[c] # None /\ collection[c].type = "watchlist"

Ask(q, what) == request[q] = None /\ request' = [request EXCEPT ![q] = what]

Answered(q) == request' = [request EXCEPT ![q] = None]

\* _unique_slug
FreeSlugs(n) == SelectSeq(SlugsFor[n], LAMBDA c : collection[c] = None)

LookForSlug(q, n) ==
    /\ FreeSlugs(n) # <<>>
    /\ Ask(q, [op |-> "create", slug |-> Head(FreeSlugs(n))])
    /\ UNCHANGED <<reviews, collection, member, workers>>

\* The unique index turns a slug taken meanwhile into an error.
CreateWatchlist(q) ==
    /\ request[q] # None /\ request[q].op = "create"
    /\ collection' = IF collection[request[q].slug] # None THEN collection
                     ELSE [collection EXCEPT ![request[q].slug] = Watchlist]
    /\ Answered(q)
    /\ UNCHANGED <<reviews, member, workers>>

LookForMember(q, c, i) ==
    /\ IsWatchlist(c) /\ member[c][i] = None
    /\ Ask(q, [op |-> "add", slug |-> c, issuer |-> i])
    /\ UNCHANGED <<reviews, collection, member, workers>>

\* As does the unique pair, and the foreign key a deleted collection.
AddIssuer(q) ==
    LET r == request[q] IN
    /\ r # None /\ r.op = "add"
    /\ member' = IF collection[r.slug] = None \/ member[r.slug][r.issuer] # None THEN member
                 ELSE [member EXCEPT ![r.slug][r.issuer] =
                          [status |-> "unverified", system_seeded |-> "no"]]
    /\ Answered(q)
    /\ UNCHANGED <<reviews, collection, workers>>

RemoveIssuer(c, i) ==
    /\ IsWatchlist(c) /\ member[c][i] # None
    /\ member' = [member EXCEPT ![c][i] = None]
    /\ UNCHANGED <<reviews, collection, workers, request>>

\* Mutant of LookForMembers: any collection can be deleted by its id.
LookInAnyCollection(q, c) ==
    /\ collection[c] # None
    /\ Ask(q, [op |-> "delete", slug |-> c, rows |-> {i \in Issuers : member[c][i] # None}])
    /\ UNCHANGED <<reviews, collection, member, workers>>

\* delete_collection reads the memberships it deletes first.
LookForMembers(q, c) ==
    /\ IsWatchlist(c)
    /\ Ask(q, [op |-> "delete", slug |-> c, rows |-> {i \in Issuers : member[c][i] # None}])
    /\ UNCHANGED <<reviews, collection, member, workers>>

\* A row it did not read keeps the collection by its foreign key.
DeleteWatchlist(q) ==
    LET r == request[q] IN
    /\ r # None /\ r.op = "delete"
    /\ IF \A i \in Issuers : member[r.slug][i] # None => i \in r.rows
       THEN /\ collection' = [collection EXCEPT ![r.slug] = None]
            /\ member' = [member EXCEPT ![r.slug] = [i \in Issuers |-> None]]
       ELSE UNCHANGED <<collection, member>>
    /\ Answered(q)
    /\ UNCHANGED <<reviews, workers>>

-----------------------------------------------------------------------------
WorkerStep(w) ==
    \/ \E i \in Issuers : Classify(w, i) \/ Recompute(w, i)
    \/ Compare(w) \/ CommitMemberships(w) \/ RollBack(w)
    \/ \E b \in Bundles : ChooseBundle(w, b)
    \/ WriteSubject(w)

ClientStep(q) ==
    \/ \E n \in Names : LookForSlug(q, n)
    \/ \E c \in Slugs : LookForMembers(q, c) \/ \E i \in Issuers : LookForMember(q, c, i)
    \/ CreateWatchlist(q) \/ AddIssuer(q) \/ DeleteWatchlist(q)

Next ==
    \/ \E b \in Bundles : StoreEvidence(b) \/ StoreAlert(b)
    \/ \E w \in Workers : WorkerStep(w)
    \/ SeedSystem
    \/ \E c \in Slugs : SeedCurated(c) \/ \E i \in Issuers : SeedMember(c, i) \/ RemoveIssuer(c, i)
    \/ \E q \in Clients : ClientStep(q)

Spec == Init /\ [][Next]_vars

-----------------------------------------------------------------------------
(* What is read of it. *)

\* list_issuer_ids_for_collection_types: whom the filing monitor watches.
Covered == {i \in Issuers : \E c \in Slugs :
                member[c][i] # None /\ collection[c] # None /\ ~IsWatchlist(c)}

\* derive_current_status: the verified curated universes, else the detected ones.
CurrentStatus(i) ==
    LET verified == {c \in Slugs : /\ collection[c] # None /\ ~IsWatchlist(c)
                                   /\ member[c][i] # None /\ member[c][i].status = "verified"}
        curated == {c \in verified : collection[c].method = "manual_curated"}
    IN IF curated # {} THEN curated ELSE verified

-----------------------------------------------------------------------------
(* Properties. *)

TypeOK ==
    /\ stored \subseteq Bundles
    /\ alert \in [Bundles -> ReviewRecords \cup {None}]
    /\ collection \in [Slugs -> CollectionRows \cup {None}]
    /\ member \in [Slugs -> [Issuers -> MemberRows \cup {None}]]
    /\ saidYes \subseteq Bundles
    /\ pc \in [Workers -> {"idle", "compare", "write", "review"}]
    /\ issuer \in [Workers -> Issuers \cup {None}]
    /\ bundle \in [Workers -> Bundles \cup {None}]
    /\ expected \in [Workers -> [SystemSlugs -> {"none", "partial", "verified"}]]
    /\ saw \in [Workers -> [SystemSlugs -> MemberRows \cup {None}]]

\* A review of definitive evidence has said that the issuer is the subject.
Confirmed(i, c) ==
    \E e \in Definitive :
        /\ IssuerOf[BundleOf[e]] = i /\ c \in {Core, UniverseOf[e]}
        /\ BundleOf[e] \in stored \cap saidYes

\* Where one corrector runs at a time a yes is not taken back.
YesIsKept ==
    (\A v, w \in Correctors : v = w) => \A b \in saidYes : alert[b] = HighYes

\* No issuer is verified in an evidence-driven universe, nor about to be, of
\* whose own bankruptcy or plan no review of its evidence ever spoke; through
\* stale reads, overlapping corrections, second reviews and reused slugs.  What
\* a review said stands if the corrections do not overlap; of two that chose the
\* same bundle the later may take back the yes of the earlier.
VerifiedNeedsSubject ==
    /\ \A c \in SystemSlugs, i \in Issuers :
          member[c][i] # None /\ member[c][i].status = "verified" => Confirmed(i, c)
    /\ \A w \in Workers, c \in SystemSlugs :
          /\ expected[w][c] = "verified" => pc[w] # "idle" /\ Confirmed(issuer[w], c)
          /\ saw[w][c] # None /\ saw[w][c].status = "verified"
                => pc[w] # "idle" /\ Confirmed(issuer[w], c)
    /\ YesIsKept

Settled(i) ==
    LET now == Expected(EvidenceOf(StoredFor(i))) IN
    \A c \in SystemSlugs :
        /\ collection[c] # None
        /\ member[c][i] # None => member[c][i].system_seeded = "yes"
        => IF now[c] = "none" THEN member[c][i] = None
           ELSE member[c][i] # None /\ member[c][i].status = now[c]

\* A correction that nothing overtook leaves exactly the memberships its
\* evidence calls for, so that another one finds nothing to change.
CorrectionSettles ==
    [][\A w \in Correctors, i \in Issuers :
          /\ CommitMemberships(w) /\ issuer[w] = i
          /\ expected[w] = Expected(EvidenceOf(StoredFor(i)))
          /\ \A c \in SystemSlugs : saw[w][c] = member[c][i]
          => Settled(i)']_vars

\* What an analyst put on a list stays until an analyst takes it off, even when
\* a list and a universe share a slug.
AnalystRowsStay ==
    [][\A c \in Slugs, i \in Issuers :
          member[c][i] # None /\ member[c][i].system_seeded = "no" =>
              \/ member'[c][i] # None /\ member'[c][i].system_seeded = "no"
              \/ RemoveIssuer(c, i)
              \/ \E q \in Clients : DeleteWatchlist(q)]_vars

\* A classification removes no membership and leaves none weaker than it read
\* it, nor weaker than its evidence where it has written; what committed since
\* it read may be overwritten, that is not claimed.
LiveNeverWeakens ==
    [][\A w \in Classifiers, c \in Slugs, i \in Issuers :
          CommitMemberships(w) /\ member[c][i] # None =>
              /\ member'[c][i] # None
              /\ member'[c][i] # member[c][i] =>
                    Rank(member'[c][i].status) > Rank(saw[w][c].status)]_vars

\* Nothing a client does to watchlists changes whom the monitor watches or what
\* is said of an issuer.
WatchlistsAreLocal ==
    [][(\E q \in Clients : ClientStep(q)) \/ (\E c \in Slugs, i \in Issuers : RemoveIssuer(c, i))
          => Covered' = Covered /\ \A i \in Issuers : CurrentStatus(i)' = CurrentStatus(i)]_vars
=============================================================================
