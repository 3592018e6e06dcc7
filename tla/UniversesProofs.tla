---------------------------- MODULE UniversesProofs ----------------------------
(* Universes for any number of issuers, classifiers, correctors and clients:   *)
(* what a verified membership rests on, and what no step does to the rows of   *)
(* an analyst, of the live path or of the universes.                           *)
EXTENDS Universes, TLAPS

\* What a client still holds is a watchlist, or gone.
RequestsHeld ==
    /\ DOMAIN request = Clients
    /\ \A q \in Clients :
          request[q] # None /\ request[q].op \in {"add", "delete"} =>
              /\ request[q].slug \in Slugs
              /\ \/ collection[request[q].slug] = None
                 \/ collection[request[q].slug].type = "watchlist"

\* A worker that is on its way is so for an issuer.
WorkersOnIssuers == \A w \in Workers : pc[w] \in {"compare", "write"} => issuer[w] \in Issuers

Lone == \A v, w \in Correctors : v = w

\* An alert that is being reviewed again exists, and is as it was chosen if
\* nobody else corrects.
ReviewsAgain ==
    \A w \in Workers : pc[w] = "review" =>
        /\ w \in Correctors /\ bundle[w] \in Bundles /\ alert[bundle[w]] # None
        /\ Lone => alert[bundle[w]].subject = "unknown"

\* The history holds what the alerts say.
YesIsSeen == \A b \in Bundles : alert[b] = HighYes => b \in saidYes

UniverseInv ==
    TypeOK /\ WorkersOnIssuers /\ ReviewsAgain /\ YesIsSeen /\ VerifiedNeedsSubject /\ RequestsHeld

StatusNames == {"none", "partial", "verified"}

-----------------------------------------------------------------------------
(* What evidence calls for. *)

LEMMA StatusIsKnown == \A e : StatusFrom(e) \in StatusNames
BY DEF StatusFrom, StatusNames

LEMMA StrongestIsMember ==
    ASSUME NEW statuses \in SUBSET StatusNames
    PROVE  Strongest(statuses) \in statuses \cup {"none"}
<1>1. \E s \in statuses \cup {"none"} : \A t \in statuses : Rank(t) <= Rank(s)
  <2>1. Rank("none") = 0 /\ Rank("partial") = 2 /\ Rank("verified") = 3  BY DEF Rank
  <2>2. CASE "verified" \in statuses
    BY <2>1, <2>2 DEF StatusNames
  <2>3. CASE "verified" \notin statuses /\ "partial" \in statuses
    BY <2>1, <2>3 DEF StatusNames
  <2>4. CASE "verified" \notin statuses /\ "partial" \notin statuses
    BY <2>1, <2>4 DEF StatusNames
  <2> QED  BY <2>2, <2>3, <2>4
<1> QED  BY <1>1 DEF Strongest

LEMMA ExpectedIsTyped ==
    ASSUME NEW items
    PROVE  /\ Expected(items) \in [SystemSlugs -> StatusNames]
           /\ \A c \in SystemSlugs : Expected(items)[c] = "verified" =>
                 \E e \in items : c \in {Core, UniverseOf[e]} /\ StatusFrom(e) = "verified"
<1>1. ASSUME NEW c \in SystemSlugs
      PROVE  /\ Expected(items)[c] \in StatusNames
             /\ Expected(items)[c] = "verified" =>
                   \E e \in items : c \in {Core, UniverseOf[e]} /\ StatusFrom(e) = "verified"
  <2> DEFINE statuses == {StatusFrom(e) : e \in {f \in items : c \in {Core, UniverseOf[f]}}}
  <2>1. Expected(items)[c] = Strongest(statuses)  BY DEF Expected
  <2>2. statuses \subseteq StatusNames  BY StatusIsKnown
  <2>3. Strongest(statuses) \in statuses \cup {"none"}  BY <2>2, StrongestIsMember
  <2> QED  BY <2>1, <2>2, <2>3 DEF StatusNames
<1>2. Expected(items) = [c \in SystemSlugs |-> Expected(items)[c]]  BY DEF Expected
<1> QED  BY <1>1, <1>2

\* Only a review that said yes makes evidence verified.
LEMMA VerifiedIsConfirmed ==
    ASSUME TypeOK, YesIsSeen, NEW i \in Issuers, NEW bundles \in SUBSET StoredFor(i),
           NEW c \in SystemSlugs, Expected(EvidenceOf(bundles))[c] = "verified"
    PROVE  Confirmed(i, c)
<1>1. PICK e \in EvidenceOf(bundles) : c \in {Core, UniverseOf[e]} /\ StatusFrom(e) = "verified"
  BY ExpectedIsTyped
<1>2. e \in Evidence /\ BundleOf[e] \in bundles  BY DEF EvidenceOf
<1>3. BundleOf[e] \in stored /\ IssuerOf[BundleOf[e]] = i /\ BundleOf[e] \in Bundles
  BY <1>2 DEF StoredFor, TypeOK
<1>4. e \in Definitive /\ Effective(e).severity = "high" /\ Effective(e).subject = "yes"
  BY <1>1 DEF StatusFrom
<1>5. alert[BundleOf[e]] # None /\ Effective(e) = alert[BundleOf[e]]
  <2>1. CASE alert[BundleOf[e]] = None
    <3>1. Effective(e).subject = "unknown"  BY <2>1 DEF Effective
    <3> QED  BY <1>4, <3>1
  <2> QED  BY <2>1 DEF Effective
<1>6. alert[BundleOf[e]] \in ReviewRecords  BY <1>3, <1>5 DEF TypeOK
<1>7. alert[BundleOf[e]] = HighYes
  BY <1>4, <1>5, <1>6 DEF ReviewRecords, HighYes
<1>8. BundleOf[e] \in saidYes  BY <1>3, <1>7 DEF YesIsSeen
<1> QED  BY <1>1, <1>3, <1>4, <1>8 DEF Confirmed

\* What is confirmed stays confirmed.
LEMMA ConfirmedStays ==
    ASSUME stored \subseteq stored', saidYes \subseteq saidYes', NEW i, NEW c, Confirmed(i, c)
    PROVE  Confirmed(i, c)'
BY DEF Confirmed

-----------------------------------------------------------------------------
(* Rows. *)

LEMMA UpgradedRow ==
    ASSUME NEW row \in MemberRows \cup {None}, NEW status \in StatusNames
    PROVE  /\ Upgraded(row, status) \in MemberRows \cup {None}
           /\ status = "none" => Upgraded(row, status) = row
           /\ status # "none" /\ row = None =>
                 Upgraded(row, status) = [status |-> status, system_seeded |-> "yes"]
           /\ row # None => /\ Upgraded(row, status) # None
                            /\ Upgraded(row, status).system_seeded = row.system_seeded
                            /\ Upgraded(row, status) # row =>
                                  /\ Upgraded(row, status).status = status
                                  /\ Rank(status) > Rank(row.status)
<1>1. CASE status = "none"
  BY <1>1 DEF Upgraded
<1>2. CASE status # "none" /\ row = None
  <2>1. Upgraded(row, status) = [status |-> status, system_seeded |-> "yes"]  BY <1>2 DEF Upgraded
  <2> QED  BY <1>2, <2>1 DEF MemberRows, StatusNames
<1>3. CASE status # "none" /\ row # None
  <2>1. Upgraded(row, status) =
           IF Rank(status) > Rank(row.status) THEN [row EXCEPT !.status = status] ELSE row
    BY <1>3 DEF Upgraded
  <2>2. row \in MemberRows  BY <1>3
  <2>3. [row EXCEPT !.status = status] \in MemberRows
        /\ [row EXCEPT !.status = status].status = status
        /\ [row EXCEPT !.status = status].system_seeded = row.system_seeded
    BY <1>3, <2>2 DEF MemberRows, StatusNames
  <2>4. CASE Rank(status) > Rank(row.status)
    BY <1>3, <2>1, <2>3, <2>4, NoneAssumption
  <2>5. CASE ~(Rank(status) > Rank(row.status))
    BY <1>3, <2>1, <2>2, <2>5, NoneAssumption
  <2> QED  BY <2>4, <2>5
<1> QED  BY <1>1, <1>2, <1>3

LEMMA CorrectedRow ==
    ASSUME NEW row \in MemberRows \cup {None}, NEW status \in StatusNames
    PROVE  /\ Corrected(row, status) \in MemberRows \cup {None}
           /\ row = None => Corrected(row, status) = Upgraded(row, status)
           /\ row # None /\ row.system_seeded = "no" => Corrected(row, status) = row
           /\ row # None /\ row.system_seeded = "yes" =>
                 IF status = "none" THEN Corrected(row, status) = None
                 ELSE /\ Corrected(row, status) # None
                      /\ Corrected(row, status).status = status
<1>1. CASE row = None
  BY <1>1, UpgradedRow DEF Corrected
<1>2. CASE row # None /\ row.system_seeded = "no"
  <2>1. Corrected(row, status) = row  BY <1>2 DEF Corrected
  <2> QED  BY <1>2, <2>1
<1>3. CASE row # None /\ row.system_seeded # "no"
  <2>1. Corrected(row, status) = IF status = "none" THEN None ELSE [row EXCEPT !.status = status]
    BY <1>3 DEF Corrected
  <2>2. row \in MemberRows  BY <1>3
  <2>3. status # "none" => /\ [row EXCEPT !.status = status] \in MemberRows
                           /\ [row EXCEPT !.status = status].status = status
    BY <2>2 DEF MemberRows, StatusNames
  <2> QED  BY <1>3, <2>1, <2>3, NoneAssumption
<1> QED  BY <1>1, <1>2, <1>3

LEMMA TargetRow ==
    ASSUME TypeOK, NEW w \in Workers, NEW c \in SystemSlugs
    PROVE  /\ saw[w][c] \in MemberRows \cup {None} /\ expected[w][c] \in StatusNames
           /\ Target(w, c) \in MemberRows \cup {None}
           /\ Target(w, c) # None /\ Target(w, c).status = "verified" =>
                 \/ expected[w][c] = "verified"
                 \/ saw[w][c] # None /\ saw[w][c].status = "verified"
           /\ saw[w][c] # None /\ saw[w][c].system_seeded = "no" =>
                 Target(w, c) # None /\ Target(w, c).system_seeded = "no"
<1>1. saw[w][c] \in MemberRows \cup {None} /\ expected[w][c] \in StatusNames
  BY DEF TypeOK, StatusNames
<1> DEFINE row == saw[w][c]
           status == expected[w][c]
<1>2. Target(w, c) = Upgraded(row, status) \/ Target(w, c) = Corrected(row, status)
  BY DEF Target
<1> HIDE DEF row, status
<1>3. row \in MemberRows \cup {None} /\ status \in StatusNames  BY <1>1 DEF row, status
<1>4. CASE Target(w, c) = Upgraded(row, status)
  <2>1. CASE row = None /\ status # "none"
    BY <1>3, <1>4, <2>1, UpgradedRow DEF row, status
  <2>2. CASE status = "none"
    BY <1>3, <1>4, <2>2, UpgradedRow DEF row, status
  <2>3. CASE row # None /\ status # "none"
    BY <1>3, <1>4, <2>3, UpgradedRow DEF row, status
  <2> QED  BY <2>1, <2>2, <2>3
<1>5. CASE Target(w, c) = Corrected(row, status)
  <2>1. CASE row = None
    <3>1. Target(w, c) = Upgraded(row, status)  BY <1>3, <1>5, <2>1, CorrectedRow
    <3> QED  BY <1>4, <3>1
  <2>2. CASE row # None /\ row.system_seeded = "no"
    BY <1>3, <1>5, <2>2, CorrectedRow DEF row, status
  <2>3. CASE row # None /\ row.system_seeded = "yes"
    <3>1. IF status = "none" THEN Target(w, c) = None
          ELSE Target(w, c) # None /\ Target(w, c).status = status
      BY <1>3, <1>5, <2>3, CorrectedRow
    <3>2. Target(w, c) \in MemberRows \cup {None}  BY <1>3, <1>5, CorrectedRow
    <3> QED  BY <1>3, <2>3, <3>1, <3>2 DEF row, status
  <2>4. row # None => row.system_seeded \in {"yes", "no"}  BY <1>3 DEF MemberRows
  <2> QED  BY <2>1, <2>2, <2>3, <2>4
<1> QED  BY <1>2, <1>4, <1>5

LEMMA SameRowMeans ==
    ASSUME NEW row, NEW other, SameRow(row, other)
    PROVE  /\ row = None <=> other = None
           /\ row # None => row.system_seeded = other.system_seeded
BY DEF SameRow

\* What a commit makes of a membership.
LEMMA CommittedRow ==
    ASSUME TypeOK, NEW w \in Workers, CommitMemberships(w), NEW c \in Slugs, NEW i \in Issuers
    PROVE  \/ member'[c][i] = member[c][i]
           \/ /\ i = issuer[w] /\ c \in SystemSlugs /\ SameRow(saw[w][c], member[c][i])
              /\ member'[c][i] = Target(w, c) /\ Target(w, c) # saw[w][c]
<1>1. member'[c][i] = IF i = issuer[w] /\ c \in Written(w) /\ SameRow(saw[w][c], member[c][i])
                      THEN Target(w, c) ELSE member[c][i]
  BY DEF CommitMemberships
<1>2. c \in Written(w) => c \in SystemSlugs /\ Target(w, c) # saw[w][c]  BY DEF Written
<1> QED  BY <1>1, <1>2

-----------------------------------------------------------------------------
(* Types. *)

LEMMA UniverseInit == Init => UniverseInv
<1> SUFFICES ASSUME Init PROVE UniverseInv
  OBVIOUS
<1>1. TypeOK  BY DEF Init, TypeOK
<1>2. WorkersOnIssuers  BY DEF Init, WorkersOnIssuers
<1>3. SystemSlugs \subseteq Slugs  BY DEF Slugs
<1>4. VerifiedNeedsSubject  BY <1>3 DEF Init, VerifiedNeedsSubject, YesIsKept
<1>5. RequestsHeld  BY DEF Init, RequestsHeld
<1>6. ReviewsAgain  BY DEF Init, ReviewsAgain
<1>7. YesIsSeen  BY UniverseAssumption DEF Init, YesIsSeen, HighYes, ReviewRecords
<1> QED  BY <1>1, <1>2, <1>4, <1>5, <1>6, <1>7 DEF UniverseInv

\* A worker that is idle again holds nothing.
LEMMA FinishIsTyped ==
    ASSUME TypeOK, NEW w \in Workers, Finish(w)
    PROVE  /\ pc' \in [Workers -> {"idle", "compare", "write", "review"}]
           /\ issuer' \in [Workers -> Issuers \cup {None}]
           /\ bundle' \in [Workers -> Bundles \cup {None}]
           /\ expected' \in [Workers -> [SystemSlugs -> StatusNames]]
           /\ saw' \in [Workers -> [SystemSlugs -> MemberRows \cup {None}]]
           /\ pc'[w] = "idle"
           /\ \A c \in SystemSlugs : expected'[w][c] = "none" /\ saw'[w][c] = None
           /\ \A v \in Workers \ {w} : /\ pc'[v] = pc[v] /\ issuer'[v] = issuer[v]
                                        /\ bundle'[v] = bundle[v]
                                        /\ expected'[v] = expected[v] /\ saw'[v] = saw[v]
BY DEF Finish, Goto, TypeOK, StatusNames

\* One that starts holds what its evidence calls for.
LEMMA StartIsTyped ==
    ASSUME TypeOK, NEW w \in Workers, NEW i \in Issuers, NEW bundles, StartOn(w, i, bundles)
    PROVE  /\ pc' \in [Workers -> {"idle", "compare", "write", "review"}]
           /\ issuer' \in [Workers -> Issuers \cup {None}]
           /\ expected' \in [Workers -> [SystemSlugs -> StatusNames]]
           /\ pc[w] = "idle" /\ pc'[w] = "compare" /\ issuer'[w] = i
           /\ expected'[w] = Expected(EvidenceOf(bundles))
           /\ UNCHANGED <<reviews, collection, member, bundle, saw, request>>
           /\ \A v \in Workers \ {w} : /\ pc'[v] = pc[v] /\ issuer'[v] = issuer[v]
                                        /\ expected'[v] = expected[v]
<1>1. Expected(EvidenceOf(bundles)) \in [SystemSlugs -> StatusNames]  BY ExpectedIsTyped
<1> QED  BY <1>1 DEF StartOn, Goto, TypeOK, StatusNames

\* What an alert is made to say.
LEMMA SayIsTyped ==
    ASSUME TypeOK, NEW b \in Bundles, NEW found \in ReviewRecords, Say(b, found)
    PROVE  /\ alert' \in [Bundles -> ReviewRecords \cup {None}] /\ saidYes' \subseteq Bundles
           /\ alert'[b] = found /\ \A a \in Bundles \ {b} : alert'[a] = alert[a]
           /\ saidYes' = saidYes \cup {a \in {b} : found = HighYes}
BY DEF Say, TypeOK

\* A second review changes whose event its bundle is said to be.
LEMMA WrittenSubject ==
    ASSUME TypeOK, ReviewsAgain, NEW w \in Workers, WriteSubject(w)
    PROVE  /\ bundle[w] \in Bundles /\ w \in Correctors
           /\ alert' \in [Bundles -> ReviewRecords \cup {None}] /\ saidYes' \subseteq Bundles
           /\ \A a \in Bundles \ {bundle[w]} : alert'[a] = alert[a]
           /\ alert'[bundle[w]] # None
           /\ saidYes' = saidYes \cup {a \in {bundle[w]} : alert'[a] = HighYes}
<1>1. /\ w \in Correctors /\ bundle[w] \in Bundles /\ alert[bundle[w]] # None
  BY DEF WriteSubject, ReviewsAgain
<1>2. PICK found \in {"yes", "no"} : Say(bundle[w], [alert[bundle[w]] EXCEPT !.subject = found])
  BY DEF WriteSubject
<1>3. alert[bundle[w]] \in ReviewRecords  BY <1>1 DEF TypeOK
<1>4. [alert[bundle[w]] EXCEPT !.subject = found] \in ReviewRecords  BY <1>3 DEF ReviewRecords
<1>5. None \notin ReviewRecords  BY UniverseAssumption
<1> QED  BY <1>1, <1>2, <1>4, <1>5, SayIsTyped

LEMMA UniverseTypeStep == UniverseInv /\ [Next]_vars => TypeOK' /\ WorkersOnIssuers'
<1> SUFFICES ASSUME UniverseInv, [Next]_vars PROVE TypeOK' /\ WorkersOnIssuers'
  OBVIOUS
<1>0. TypeOK /\ WorkersOnIssuers /\ ReviewsAgain  BY DEF UniverseInv
<1> DEFINE Goal == TypeOK' /\ WorkersOnIssuers'
<1> USE DEF workers, reviews
<1>1. ASSUME NEW b \in Bundles, StoreEvidence(b) PROVE Goal
  BY <1>0, <1>1 DEF StoreEvidence, TypeOK, WorkersOnIssuers
<1>2. ASSUME NEW b \in Bundles, StoreAlert(b) PROVE Goal
  <2>1. PICK found \in Reviews : Say(b, found)  BY <1>2 DEF StoreAlert
  <2>2. found \in ReviewRecords  BY UniverseAssumption
  <2>3. alert' \in [Bundles -> ReviewRecords \cup {None}] /\ saidYes' \subseteq Bundles
    BY <1>0, <2>1, <2>2, SayIsTyped
  <2> QED  BY <1>0, <1>2, <2>3 DEF StoreAlert, TypeOK, WorkersOnIssuers
<1>3. ASSUME NEW w \in Workers, NEW i \in Issuers, NEW bundles, StartOn(w, i, bundles) PROVE Goal
  <2>1. /\ pc' \in [Workers -> {"idle", "compare", "write", "review"}]
        /\ issuer' \in [Workers -> Issuers \cup {None}]
        /\ expected' \in [Workers -> [SystemSlugs -> StatusNames]]
        /\ pc'[w] = "compare" /\ issuer'[w] = i
        /\ UNCHANGED <<reviews, collection, member, bundle, saw, request>>
        /\ \A v \in Workers \ {w} : pc'[v] = pc[v] /\ issuer'[v] = issuer[v]
    BY <1>0, <1>3, StartIsTyped
  <2> QED  BY <1>0, <2>1 DEF TypeOK, WorkersOnIssuers, StatusNames
<1>4. ASSUME NEW w \in Workers, Compare(w) PROVE Goal
  <2>1. issuer[w] \in Issuers  BY <1>0, <1>4 DEF Compare, WorkersOnIssuers
  <2>2. SystemSlugs \subseteq Slugs  BY DEF Slugs
  <2>3. [c \in SystemSlugs |-> member[c][issuer[w]]] \in [SystemSlugs -> MemberRows \cup {None}]
    BY <1>0, <2>1, <2>2 DEF TypeOK
  <2> QED  BY <1>0, <1>4, <2>1, <2>3 DEF Compare, Goto, TypeOK, WorkersOnIssuers
<1>5. ASSUME NEW w \in Workers, CommitMemberships(w) PROVE Goal
  <2>1. Finish(w) /\ UNCHANGED <<reviews, collection, request>>  BY <1>5 DEF CommitMemberships
  <2>2. ASSUME NEW c \in Slugs, NEW i \in Issuers PROVE member'[c][i] \in MemberRows \cup {None}
    <3>1. member[c][i] \in MemberRows \cup {None}  BY <1>0 DEF TypeOK
    <3>2. member'[c][i] = member[c][i] \/ (c \in SystemSlugs /\ member'[c][i] = Target(w, c))
      BY <1>0, <1>5, CommittedRow
    <3> QED  BY <1>0, <3>1, <3>2, TargetRow
  <2>3. member' = [c \in Slugs |-> [i \in Issuers |-> member'[c][i]]]  BY <1>5 DEF CommitMemberships
  <2>4. member' \in [Slugs -> [Issuers -> MemberRows \cup {None}]]  BY <2>2, <2>3
  <2> QED  BY <1>0, <2>1, <2>4, FinishIsTyped DEF TypeOK, WorkersOnIssuers, StatusNames
<1>6. ASSUME NEW w \in Workers, RollBack(w) PROVE Goal
  <2>1. Finish(w) /\ UNCHANGED <<reviews, collection, member, request>>  BY <1>6 DEF RollBack
  <2> QED  BY <1>0, <2>1, FinishIsTyped DEF TypeOK, WorkersOnIssuers, StatusNames
<1>7. ASSUME NEW w \in Workers, NEW b \in Bundles, ChooseBundle(w, b) PROVE Goal
  BY <1>0, <1>7 DEF ChooseBundle, Goto, TypeOK, WorkersOnIssuers
<1>23. ASSUME NEW w \in Workers, WriteSubject(w) PROVE Goal
  <2>1. Finish(w) /\ UNCHANGED <<stored, collection, member, request>>  BY <1>23 DEF WriteSubject
  <2>2. alert' \in [Bundles -> ReviewRecords \cup {None}] /\ saidYes' \subseteq Bundles
    BY <1>0, <1>23, WrittenSubject
  <2> QED  BY <1>0, <2>1, <2>2, FinishIsTyped DEF TypeOK, WorkersOnIssuers, StatusNames
<1>8. ASSUME SeedSystem PROVE Goal
  <2>1. SystemSeeded \in CollectionRows  BY DEF SystemSeeded, CollectionRows
  <2> QED  BY <1>0, <1>8, <2>1 DEF SeedSystem, TypeOK, WorkersOnIssuers
<1>9. ASSUME NEW c \in Slugs, SeedCurated(c) PROVE Goal
  <2>1. Curated \in CollectionRows  BY DEF Curated, CollectionRows
  <2>2. collection[c] # None => [collection[c] EXCEPT !.method = "manual_curated"] \in CollectionRows
    BY <1>0 DEF CollectionRows, TypeOK
  <2> QED  BY <1>0, <1>9, <2>1, <2>2 DEF SeedCurated, TypeOK, WorkersOnIssuers
<1>10. ASSUME NEW c \in Slugs, NEW i \in Issuers, SeedMember(c, i) PROVE Goal
  <2>1. [status |-> "verified", system_seeded |-> "yes"] \in MemberRows  BY DEF MemberRows
  <2> QED  BY <1>0, <1>10, <2>1 DEF SeedMember, TypeOK, WorkersOnIssuers
<1>11. ASSUME NEW c \in Slugs, NEW i \in Issuers, RemoveIssuer(c, i) PROVE Goal
  BY <1>0, <1>11 DEF RemoveIssuer, TypeOK, WorkersOnIssuers
<1>12. ASSUME NEW q \in Clients, CreateWatchlist(q) PROVE Goal
  <2>1. Watchlist \in CollectionRows  BY DEF Watchlist, CollectionRows
  <2> QED  BY <1>0, <1>12, <2>1 DEF CreateWatchlist, TypeOK, WorkersOnIssuers
<1>13. ASSUME NEW q \in Clients, AddIssuer(q) PROVE Goal
  <2>1. [status |-> "unverified", system_seeded |-> "no"] \in MemberRows  BY DEF MemberRows
  <2> QED  BY <1>0, <1>13, <2>1 DEF AddIssuer, TypeOK, WorkersOnIssuers
<1>14. ASSUME NEW q \in Clients, DeleteWatchlist(q) PROVE Goal
  <2>1. collection' \in [Slugs -> CollectionRows \cup {None}]
    BY <1>0, <1>14 DEF DeleteWatchlist, TypeOK
  <2>2. member' \in [Slugs -> [Issuers -> MemberRows \cup {None}]]
    <3>1. member \in [Slugs -> [Issuers -> MemberRows \cup {None}]]  BY <1>0 DEF TypeOK
    <3>2. \/ member' = member
          \/ member' = [member EXCEPT ![request[q].slug] = [i \in Issuers |-> None]]
      BY <1>14 DEF DeleteWatchlist
    <3>3. [i \in Issuers |-> None] \in [Issuers -> MemberRows \cup {None}]  OBVIOUS
    <3> QED  BY <3>1, <3>2, <3>3
  <2>3. DOMAIN request' = DOMAIN request /\ UNCHANGED <<reviews, workers>>
    BY <1>14 DEF DeleteWatchlist, Answered
  <2> QED  BY <1>0, <2>1, <2>2, <2>3 DEF TypeOK, WorkersOnIssuers
<1>15. ASSUME UNCHANGED <<reviews, collection, member, workers>> PROVE Goal
  BY <1>0, <1>15 DEF TypeOK, WorkersOnIssuers
<1>16. ASSUME NEW q \in Clients, NEW n, LookForSlug(q, n) PROVE Goal
  BY <1>15, <1>16 DEF LookForSlug
<1>17. ASSUME NEW q \in Clients, NEW c, NEW i, LookForMember(q, c, i) PROVE Goal
  BY <1>15, <1>17 DEF LookForMember
<1>18. ASSUME NEW q \in Clients, NEW c, LookForMembers(q, c) PROVE Goal
  BY <1>15, <1>18 DEF LookForMembers
<1>19. CASE UNCHANGED vars
  BY <1>15, <1>19 DEF vars
<1> HIDE DEF Goal
<1>20. ASSUME NEW w \in Workers, WorkerStep(w) PROVE Goal
  BY <1>3, <1>4, <1>5, <1>6, <1>7, <1>20, <1>23 DEF WorkerStep, Classify, Recompute
<1>21. ASSUME NEW q \in Clients, ClientStep(q) PROVE Goal
  BY <1>12, <1>13, <1>14, <1>16, <1>17, <1>18, <1>21 DEF ClientStep
<1>22. ASSUME Next PROVE Goal
  <2>1. CASE \E b \in Bundles : StoreEvidence(b) \/ StoreAlert(b)  BY <1>1, <1>2, <2>1
  <2>2. CASE \E w \in Workers : WorkerStep(w)  BY <1>20, <2>2
  <2>3. CASE \E c \in Slugs : SeedCurated(c) \/ \E i \in Issuers : SeedMember(c, i) \/ RemoveIssuer(c, i)
    BY <1>9, <1>10, <1>11, <2>3
  <2>4. CASE \E q \in Clients : ClientStep(q)  BY <1>21, <2>4
  <2> QED  BY <1>8, <1>22, <2>1, <2>2, <2>3, <2>4 DEF Next
<1> QED  BY <1>19, <1>22 DEF Goal

-----------------------------------------------------------------------------
(* Verified memberships. *)

\* A step is of one of these kinds.
LEMMA StepCases ==
    ASSUME [Next]_vars
    PROVE  \/ \E b \in Bundles : StoreEvidence(b) \/ StoreAlert(b)
           \/ \E w \in Workers, i \in Issuers : \E bundles \in SUBSET StoredFor(i) : StartOn(w, i, bundles)
           \/ \E w \in Workers : Compare(w) \/ CommitMemberships(w) \/ RollBack(w)
           \/ \E w \in Workers : WriteSubject(w) \/ \E b \in Bundles : ChooseBundle(w, b)
           \/ SeedSystem
           \/ \E c \in Slugs : SeedCurated(c)
           \/ \E c \in Slugs, i \in Issuers : SeedMember(c, i) \/ RemoveIssuer(c, i)
           \/ \E q \in Clients : ClientStep(q)
           \/ UNCHANGED vars
<1>1. ASSUME NEW w \in Workers, WorkerStep(w)
      PROVE  \/ \E i \in Issuers : \E bundles \in SUBSET StoredFor(i) : StartOn(w, i, bundles)
             \/ Compare(w) \/ CommitMemberships(w) \/ RollBack(w)
             \/ WriteSubject(w) \/ \E b \in Bundles : ChooseBundle(w, b)
  BY <1>1 DEF WorkerStep, Classify, Recompute
<1> QED  BY <1>1 DEF Next

\* A client touches no evidence and no worker.
LEMMA ClientLeaves ==
    ASSUME NEW q \in Clients, ClientStep(q)
    PROVE  /\ UNCHANGED <<reviews, workers>>
           /\ \/ UNCHANGED <<collection, member>>
              \/ CreateWatchlist(q) \/ AddIssuer(q) \/ DeleteWatchlist(q)
BY DEF ClientStep, LookForSlug, LookForMember, LookForMembers, CreateWatchlist, AddIssuer,
       DeleteWatchlist

\* What a step does to the reviews: nothing, or one of three things.
LEMMA ReviewCases ==
    ASSUME [Next]_vars
    PROVE  \/ UNCHANGED reviews
           \/ \E b \in Bundles : StoreEvidence(b) \/ StoreAlert(b)
           \/ \E w \in Workers : WriteSubject(w)
<1> DEFINE Goal == \/ UNCHANGED reviews
                   \/ \E b \in Bundles : StoreEvidence(b) \/ StoreAlert(b)
                   \/ \E w \in Workers : WriteSubject(w)
<1>8. ASSUME NEW w \in Workers, Compare(w) \/ CommitMemberships(w) \/ RollBack(w) PROVE Goal
  BY <1>8 DEF Compare, CommitMemberships, RollBack
<1>9. ASSUME NEW w \in Workers, NEW i, NEW bundles, StartOn(w, i, bundles) PROVE Goal
  BY <1>9 DEF StartOn
<1>10. ASSUME SeedSystem \/ \E c \in Slugs : SeedCurated(c) PROVE Goal
  BY <1>10 DEF SeedSystem, SeedCurated
<1>11. ASSUME NEW c \in Slugs, NEW i \in Issuers, SeedMember(c, i) \/ RemoveIssuer(c, i) PROVE Goal
  BY <1>11 DEF SeedMember, RemoveIssuer
<1>12. ASSUME NEW q \in Clients, ClientStep(q) PROVE Goal
  BY <1>12, ClientLeaves
<1>13. ASSUME UNCHANGED vars PROVE Goal  BY <1>13 DEF vars
<1>14. ASSUME NEW w \in Workers, NEW b \in Bundles, ChooseBundle(w, b) PROVE Goal
  BY <1>14 DEF ChooseBundle
<1>15. ASSUME NEW w \in Workers, WriteSubject(w) PROVE Goal
  BY <1>15
<1>16. ASSUME NEW b \in Bundles, StoreEvidence(b) \/ StoreAlert(b) PROVE Goal
  BY <1>16
<1> HIDE DEF Goal
<1>17. Goal
  <2>1. (\E w \in Workers : WriteSubject(w) \/ \E b \in Bundles : ChooseBundle(w, b)) => Goal
    BY <1>14, <1>15
  <2>2. (\E b \in Bundles : StoreEvidence(b) \/ StoreAlert(b)) => Goal
    BY <1>16
  <2> QED  BY <1>8, <1>9, <1>10, <1>11, <1>12, <1>13, <2>1, <2>2, StepCases
<1> QED  BY <1>17 DEF Goal

LEMMA ReviewsStay ==
    ASSUME TypeOK, ReviewsAgain, [Next]_vars
    PROVE  /\ stored \subseteq stored' /\ saidYes \subseteq saidYes'
           /\ \A b \in Bundles : alert[b] # None => alert'[b] # None
<1>1. ASSUME NEW b \in Bundles, StoreEvidence(b)
      PROVE  stored \subseteq stored' /\ saidYes' = saidYes /\ alert' = alert
  BY <1>1 DEF StoreEvidence
<1>2. ASSUME NEW b \in Bundles, StoreAlert(b)
      PROVE  /\ stored' = stored /\ saidYes \subseteq saidYes'
             /\ \A a \in Bundles : alert[a] # None => alert'[a] = alert[a]
  BY <1>2 DEF StoreAlert, Say, TypeOK
<1>3. ASSUME NEW w \in Workers, WriteSubject(w)
      PROVE  /\ stored' = stored /\ saidYes \subseteq saidYes'
             /\ \A a \in Bundles : alert[a] # None => alert'[a] # None
  <2>1. stored' = stored  BY <1>3 DEF WriteSubject
  <2>2. /\ \A a \in Bundles \ {bundle[w]} : alert'[a] = alert[a]
        /\ alert'[bundle[w]] # None /\ saidYes \subseteq saidYes'
    BY <1>3, WrittenSubject
  <2> QED  BY <2>1, <2>2
<1>4. CASE UNCHANGED reviews  BY <1>4 DEF reviews
<1> QED  BY <1>1, <1>2, <1>3, <1>4, ReviewCases

\* The history takes in what every alert comes to say.
LEMMA SeenStep == UniverseInv /\ [Next]_vars => YesIsSeen'
<1> SUFFICES ASSUME UniverseInv, [Next]_vars PROVE YesIsSeen'
  OBVIOUS
<1>0. TypeOK /\ ReviewsAgain /\ YesIsSeen  BY DEF UniverseInv
<1>1. ASSUME NEW b \in Bundles, StoreEvidence(b) PROVE YesIsSeen'
  BY <1>0, <1>1 DEF StoreEvidence, YesIsSeen, HighYes
<1>2. ASSUME NEW b \in Bundles, StoreAlert(b) PROVE YesIsSeen'
  BY <1>0, <1>2 DEF StoreAlert, Say, TypeOK, YesIsSeen, HighYes
<1>3. ASSUME NEW w \in Workers, WriteSubject(w) PROVE YesIsSeen'
  <2>1. /\ \A a \in Bundles \ {bundle[w]} : alert'[a] = alert[a]
        /\ saidYes' = saidYes \cup {a \in {bundle[w]} : alert'[a] = HighYes}
    BY <1>0, <1>3, WrittenSubject
  <2> QED  BY <1>0, <2>1 DEF YesIsSeen, HighYes
<1>4. CASE UNCHANGED reviews  BY <1>0, <1>4 DEF reviews, YesIsSeen, HighYes
<1> QED  BY <1>1, <1>2, <1>3, <1>4, ReviewCases

\* What a step makes of a worker in review, and of the alert in its hands.
LEMMA ReviewerCases ==
    ASSUME TypeOK, [Next]_vars, NEW w \in Workers, pc'[w] = "review"
    PROVE  \/ pc[w] = "review" /\ bundle'[w] = bundle[w]
           \/ \E b \in Bundles : ChooseBundle(w, b) /\ bundle'[w] = b
<1> DEFINE Goal == \/ pc[w] = "review" /\ bundle'[w] = bundle[w]
                   \/ \E b \in Bundles : ChooseBundle(w, b) /\ bundle'[w] = b
<1>1. ASSUME UNCHANGED workers PROVE Goal
  BY <1>1 DEF workers
<1>2. ASSUME NEW v \in Workers, NEW i \in Issuers, NEW bundles \in SUBSET StoredFor(i),
             StartOn(v, i, bundles)
      PROVE  Goal
  <2>1. pc'[v] = "compare" /\ bundle' = bundle /\ \A u \in Workers \ {v} : pc'[u] = pc[u]
    BY <1>2, StartIsTyped
  <2> QED  BY <2>1
<1>3. ASSUME NEW v \in Workers, Compare(v) PROVE Goal
  BY <1>3 DEF Compare, Goto, TypeOK
<1>4. ASSUME NEW v \in Workers, CommitMemberships(v) \/ RollBack(v) \/ WriteSubject(v) PROVE Goal
  <2>1. Finish(v)  BY <1>4 DEF CommitMemberships, RollBack, WriteSubject
  <2>2. pc'[v] = "idle" /\ \A u \in Workers \ {v} : pc'[u] = pc[u] /\ bundle'[u] = bundle[u]
    BY <2>1, FinishIsTyped
  <2> QED  BY <2>2
<1>5. ASSUME NEW v \in Workers, NEW b \in Bundles, ChooseBundle(v, b) PROVE Goal
  BY <1>5 DEF ChooseBundle, Goto, TypeOK
<1>6. ASSUME NEW b \in Bundles, StoreEvidence(b) \/ StoreAlert(b) PROVE Goal
  BY <1>1, <1>6 DEF StoreEvidence, StoreAlert
<1>7. ASSUME SeedSystem \/ \E d \in Slugs : SeedCurated(d) PROVE Goal
  BY <1>1, <1>7 DEF SeedSystem, SeedCurated
<1>8. ASSUME NEW d, NEW j, SeedMember(d, j) \/ RemoveIssuer(d, j) PROVE Goal
  BY <1>1, <1>8 DEF SeedMember, RemoveIssuer
<1>9. ASSUME NEW q \in Clients, ClientStep(q) PROVE Goal
  BY <1>1, <1>9, ClientLeaves
<1>10. ASSUME UNCHANGED vars PROVE Goal
  BY <1>1, <1>10 DEF vars
<1> HIDE DEF Goal
<1>11. Goal
  BY <1>2, <1>3, <1>4, <1>5, <1>6, <1>7, <1>8, <1>9, <1>10, StepCases
<1> QED  BY <1>11 DEF Goal

LEMMA ReviewStep == UniverseInv /\ [Next]_vars => ReviewsAgain'
<1> SUFFICES ASSUME UniverseInv, [Next]_vars, NEW w \in Workers, pc'[w] = "review"
             PROVE  /\ w \in Correctors /\ bundle'[w] \in Bundles /\ alert'[bundle'[w]] # None
                    /\ Lone => alert'[bundle'[w]].subject = "unknown"
  BY DEF ReviewsAgain, Lone
<1>0. TypeOK /\ ReviewsAgain  BY DEF UniverseInv
<1>1. PICK b : b = bundle'[w]  OBVIOUS
<1>2. /\ w \in Correctors /\ b \in Bundles /\ alert[b] # None
      /\ Lone => alert[b].subject = "unknown"
  <2>1. CASE pc[w] = "review" /\ bundle'[w] = bundle[w]
    BY <1>0, <1>1, <2>1 DEF ReviewsAgain
  <2>2. ASSUME NEW a \in Bundles, ChooseBundle(w, a), bundle'[w] = a
        PROVE  w \in Correctors /\ a \in Bundles /\ alert[a] # None /\ alert[a].subject = "unknown"
    BY <2>2 DEF ChooseBundle
  <2> QED  BY <1>0, <1>1, <2>1, <2>2, ReviewerCases
<1>3. alert'[b] # None  BY <1>0, <1>2, ReviewsStay
<1>4. ASSUME Lone PROVE alert'[b] = alert[b]
  <2>1. ASSUME NEW a \in Bundles, StoreEvidence(a) \/ StoreAlert(a) PROVE alert'[b] = alert[b]
    BY <1>0, <1>2, <2>1 DEF StoreEvidence, StoreAlert, Say, TypeOK
  <2>2. ASSUME NEW v \in Workers, WriteSubject(v) PROVE FALSE
    <3>1. v \in Correctors  BY <1>0, <2>2, WrittenSubject
    <3>2. v = w  BY <1>2, <1>4, <3>1 DEF Lone
    <3>3. Finish(v)  BY <2>2 DEF WriteSubject
    <3>4. pc'[v] = "idle"  BY <1>0, <3>3, FinishIsTyped
    <3> QED  BY <3>2, <3>4
  <2>3. CASE UNCHANGED reviews  BY <2>3 DEF reviews
  <2> QED  BY <2>1, <2>2, <2>3, ReviewCases
<1> QED  BY <1>1, <1>2, <1>3, <1>4

LEMMA KeptStep == UniverseInv /\ [Next]_vars => YesIsKept'
<1> SUFFICES ASSUME UniverseInv, [Next]_vars, Lone, NEW b \in saidYes'
             PROVE  alert'[b] = HighYes
  BY DEF YesIsKept, Lone, HighYes
<1>0. TypeOK /\ ReviewsAgain /\ YesIsSeen /\ YesIsKept
  BY DEF UniverseInv, VerifiedNeedsSubject
<1>1. \A a \in saidYes : a \in Bundles /\ alert[a] = HighYes
  BY <1>0 DEF YesIsKept, Lone, TypeOK
<1>2. HighYes # None /\ HighYes.subject # "unknown"
  BY UniverseAssumption DEF HighYes, ReviewRecords
<1>3. ASSUME NEW a \in Bundles, StoreEvidence(a) PROVE alert'[b] = HighYes
  BY <1>1, <1>3 DEF StoreEvidence
<1>4. ASSUME NEW a \in Bundles, StoreAlert(a) PROVE alert'[b] = HighYes
  <2>1. PICK found \in Reviews : Say(a, found)  BY <1>4 DEF StoreAlert
  <2>2. alert[a] = None  BY <1>4 DEF StoreAlert
  <2>3. found \in ReviewRecords  BY UniverseAssumption
  <2>4. /\ alert'[a] = found /\ \A d \in Bundles \ {a} : alert'[d] = alert[d]
        /\ saidYes' = saidYes \cup {d \in {a} : found = HighYes}
    BY <1>0, <2>1, <2>3, SayIsTyped
  <2> QED  BY <1>1, <1>2, <2>2, <2>4
<1>5. ASSUME NEW v \in Workers, WriteSubject(v) PROVE alert'[b] = HighYes
  <2>1. /\ v \in Correctors /\ bundle[v] \in Bundles
        /\ \A d \in Bundles \ {bundle[v]} : alert'[d] = alert[d]
        /\ saidYes' = saidYes \cup {d \in {bundle[v]} : alert'[d] = HighYes}
    BY <1>0, <1>5, WrittenSubject
  <2>2. alert[bundle[v]].subject = "unknown"  BY <1>0, <1>5, Lone DEF WriteSubject, ReviewsAgain
  <2>3. bundle[v] \notin saidYes  BY <1>1, <1>2, <2>2
  <2> QED  BY <1>1, <2>1, <2>3
<1>6. CASE UNCHANGED reviews  BY <1>1, <1>6 DEF reviews
<1> QED  BY <1>3, <1>4, <1>5, <1>6, ReviewCases

\* A membership that becomes verified in the system's universes was about to.
LEMMA VerifiedRowStep ==
    ASSUME UniverseInv, [Next]_vars, NEW c \in SystemSlugs, NEW i \in Issuers,
           member'[c][i] # None, member'[c][i].status = "verified"
    PROVE  Confirmed(i, c)
<1>0. TypeOK /\ VerifiedNeedsSubject /\ WorkersOnIssuers  BY DEF UniverseInv
<1>1. c \in Slugs /\ c \notin CuratedSlugs  BY UniverseAssumption DEF Slugs
<1>2. CASE member'[c][i] = member[c][i]
  BY <1>0, <1>2 DEF VerifiedNeedsSubject
<1>3. ASSUME NEW w \in Workers, CommitMemberships(w) PROVE Confirmed(i, c)
  <2>1. CASE member'[c][i] = member[c][i]  BY <1>2, <2>1
  <2>2. CASE i = issuer[w] /\ member'[c][i] = Target(w, c)
    <3>1. expected[w][c] = "verified" \/ (saw[w][c] # None /\ saw[w][c].status = "verified")
      BY <1>0, <2>2, TargetRow
    <3> QED  BY <1>0, <2>2, <3>1 DEF VerifiedNeedsSubject
  <2> QED  BY <1>0, <1>1, <1>3, <2>1, <2>2, CommittedRow
<1>4. ASSUME NEW w \in Workers, Compare(w) \/ RollBack(w) PROVE member' = member
  BY <1>4 DEF Compare, RollBack
<1>5. ASSUME NEW w \in Workers, NEW j, NEW bundles, StartOn(w, j, bundles) PROVE member' = member
  BY <1>5 DEF StartOn
<1>6. ASSUME NEW w, NEW b, StoreEvidence(b) \/ StoreAlert(b) \/ ChooseBundle(w, b) \/ WriteSubject(w) PROVE member' = member
  BY <1>6 DEF StoreEvidence, StoreAlert, ChooseBundle, WriteSubject
<1>7. ASSUME SeedSystem \/ \E d \in Slugs : SeedCurated(d) PROVE member' = member
  BY <1>7 DEF SeedSystem, SeedCurated
<1>8. ASSUME NEW d \in Slugs, NEW j \in Issuers, SeedMember(d, j) PROVE member'[c][i] = member[c][i]
  BY <1>0, <1>1, <1>8 DEF SeedMember, TypeOK
<1>9. ASSUME NEW d \in Slugs, NEW j \in Issuers, RemoveIssuer(d, j) PROVE member'[c][i] = member[c][i]
  BY <1>0, <1>1, <1>9 DEF RemoveIssuer, TypeOK
<1>10. ASSUME NEW q \in Clients, ClientStep(q) PROVE member'[c][i] = member[c][i]
  <2>1. CASE AddIssuer(q)
    <3>1. CASE member' = member  BY <3>1
    <3>2. CASE member' = [member EXCEPT ![request[q].slug][request[q].issuer] =
                             [status |-> "unverified", system_seeded |-> "no"]]
      BY <1>0, <1>1, <3>2 DEF TypeOK
    <3> QED  BY <2>1, <3>1, <3>2 DEF AddIssuer
  <2>2. CASE DeleteWatchlist(q)
    <3>1. CASE member' = member  BY <3>1
    <3>2. CASE member' = [member EXCEPT ![request[q].slug] = [j \in Issuers |-> None]]
      BY <1>0, <1>1, <3>2 DEF TypeOK
    <3> QED  BY <2>2, <3>1, <3>2 DEF DeleteWatchlist
  <2>3. CASE CreateWatchlist(q)  BY <2>3 DEF CreateWatchlist
  <2> QED  BY <1>10, <2>1, <2>2, <2>3, ClientLeaves
<1>11. CASE UNCHANGED vars  BY <1>2, <1>11 DEF vars
<1> QED  BY <1>2, <1>3, <1>4, <1>5, <1>6, <1>7, <1>8, <1>9, <1>10, <1>11, StepCases

\* What a step does to a worker: nothing, or it ends, starts or reads.
LEMMA WorkerCases ==
    ASSUME TypeOK, [Next]_vars, NEW v \in Workers
    PROVE  \/ /\ pc'[v] = pc[v] /\ issuer'[v] = issuer[v]
              /\ expected'[v] = expected[v] /\ saw'[v] = saw[v]
           \/ \A c \in SystemSlugs : expected'[v][c] = "none" /\ saw'[v][c] = None
           \/ \E i \in Issuers : \E bundles \in SUBSET StoredFor(i) :
                 /\ pc[v] = "idle" /\ pc'[v] = "compare" /\ issuer'[v] = i
                 /\ expected'[v] = Expected(EvidenceOf(bundles)) /\ saw'[v] = saw[v]
           \/ /\ pc[v] = "compare" /\ pc'[v] = "write" /\ issuer'[v] = issuer[v]
              /\ expected'[v] = expected[v]
              /\ \A c \in SystemSlugs : saw'[v][c] = member[c][issuer[v]]
           \/ /\ pc[v] = "idle" /\ pc'[v] # "idle" /\ issuer'[v] = issuer[v]
              /\ expected'[v] = expected[v] /\ saw'[v] = saw[v]
<1> DEFINE Goal ==
           \/ /\ pc'[v] = pc[v] /\ issuer'[v] = issuer[v]
              /\ expected'[v] = expected[v] /\ saw'[v] = saw[v]
           \/ \A c \in SystemSlugs : expected'[v][c] = "none" /\ saw'[v][c] = None
           \/ \E i \in Issuers : \E bundles \in SUBSET StoredFor(i) :
                 /\ pc[v] = "idle" /\ pc'[v] = "compare" /\ issuer'[v] = i
                 /\ expected'[v] = Expected(EvidenceOf(bundles)) /\ saw'[v] = saw[v]
           \/ /\ pc[v] = "compare" /\ pc'[v] = "write" /\ issuer'[v] = issuer[v]
              /\ expected'[v] = expected[v]
              /\ \A c \in SystemSlugs : saw'[v][c] = member[c][issuer[v]]
           \/ /\ pc[v] = "idle" /\ pc'[v] # "idle" /\ issuer'[v] = issuer[v]
              /\ expected'[v] = expected[v] /\ saw'[v] = saw[v]
<1>1. ASSUME UNCHANGED workers PROVE Goal
  BY <1>1 DEF workers
<1>2. ASSUME NEW w \in Workers, NEW i \in Issuers, NEW bundles \in SUBSET StoredFor(i),
             StartOn(w, i, bundles)
      PROVE  Goal
  <2>1. /\ pc[w] = "idle" /\ pc'[w] = "compare" /\ issuer'[w] = i
        /\ expected'[w] = Expected(EvidenceOf(bundles)) /\ saw' = saw
        /\ \A u \in Workers \ {w} : /\ pc'[u] = pc[u] /\ issuer'[u] = issuer[u]
                                     /\ expected'[u] = expected[u]
    BY <1>2, StartIsTyped
  <2> QED  BY <2>1
<1>3. ASSUME NEW w \in Workers, Compare(w) PROVE Goal
  BY <1>3 DEF Compare, Goto, TypeOK
<1>4. ASSUME NEW w \in Workers, CommitMemberships(w) \/ RollBack(w) \/ WriteSubject(w) PROVE Goal
  <2>1. Finish(w)  BY <1>4 DEF CommitMemberships, RollBack, WriteSubject
  <2> QED  BY <2>1, FinishIsTyped
<1>5. ASSUME NEW b \in Bundles, StoreEvidence(b) \/ StoreAlert(b) PROVE Goal
  BY <1>1, <1>5 DEF StoreEvidence, StoreAlert
<1>11. ASSUME NEW w \in Workers, NEW b \in Bundles, ChooseBundle(w, b) PROVE Goal
  BY <1>11 DEF ChooseBundle, Goto, TypeOK
<1>6. ASSUME SeedSystem \/ \E d \in Slugs : SeedCurated(d) PROVE Goal
  BY <1>1, <1>6 DEF SeedSystem, SeedCurated
<1>7. ASSUME NEW d, NEW j, SeedMember(d, j) \/ RemoveIssuer(d, j) PROVE Goal
  BY <1>1, <1>7 DEF SeedMember, RemoveIssuer
<1>8. ASSUME NEW q \in Clients, ClientStep(q) PROVE Goal
  BY <1>1, <1>8, ClientLeaves
<1>9. ASSUME UNCHANGED vars PROVE Goal
  BY <1>1, <1>9 DEF vars, workers
<1> HIDE DEF Goal
<1>10. Goal
  BY <1>2, <1>3, <1>4, <1>5, <1>6, <1>7, <1>8, <1>9, <1>11, StepCases
<1> QED  BY <1>10 DEF Goal

LEMMA VerifiedStep == UniverseInv /\ [Next]_vars => VerifiedNeedsSubject'
<1> SUFFICES ASSUME UniverseInv, [Next]_vars PROVE VerifiedNeedsSubject'
  OBVIOUS
<1>0. TypeOK /\ VerifiedNeedsSubject /\ WorkersOnIssuers /\ ReviewsAgain /\ YesIsSeen
  BY DEF UniverseInv
<1>1. ASSUME NEW i, NEW c, Confirmed(i, c) PROVE Confirmed(i, c)'
  BY <1>0, <1>1, ReviewsStay, ConfirmedStays
<1>2. ASSUME NEW c \in SystemSlugs, NEW i \in Issuers,
             member'[c][i] # None, member'[c][i].status = "verified"
      PROVE  Confirmed(i, c)'
  BY <1>1, <1>2, VerifiedRowStep
<1>3. ASSUME NEW v \in Workers, NEW c \in SystemSlugs, NEW j, j = issuer'[v],
             \/ expected'[v][c] = "verified"
             \/ saw'[v][c] # None /\ saw'[v][c].status = "verified"
      PROVE  pc'[v] # "idle" /\ Confirmed(j, c)
  <2>1. CASE /\ pc'[v] = pc[v] /\ issuer'[v] = issuer[v]
             /\ expected'[v] = expected[v] /\ saw'[v] = saw[v]
    BY <1>0, <1>3, <2>1 DEF VerifiedNeedsSubject
  <2>2. CASE \A d \in SystemSlugs : expected'[v][d] = "none" /\ saw'[v][d] = None
    BY <1>3, <2>2
  <2>3. ASSUME NEW i \in Issuers, NEW bundles \in SUBSET StoredFor(i),
               pc[v] = "idle", pc'[v] = "compare", issuer'[v] = i,
               expected'[v] = Expected(EvidenceOf(bundles)), saw'[v] = saw[v]
        PROVE  pc'[v] # "idle" /\ Confirmed(j, c)
    <3>1. ~(saw[v][c] # None /\ saw[v][c].status = "verified")
      BY <1>0, <2>3 DEF VerifiedNeedsSubject
    <3>2. Expected(EvidenceOf(bundles))[c] = "verified"  BY <1>3, <2>3, <3>1
    <3>3. Confirmed(i, c)  BY <1>0, <3>2, VerifiedIsConfirmed
    <3> QED  BY <1>3, <2>3, <3>3
  <2>4. CASE /\ pc[v] = "compare" /\ pc'[v] = "write" /\ issuer'[v] = issuer[v]
             /\ expected'[v] = expected[v]
             /\ \A d \in SystemSlugs : saw'[v][d] = member[d][issuer[v]]
    <3>1. issuer[v] \in Issuers  BY <1>0, <2>4 DEF WorkersOnIssuers
    <3> QED  BY <1>0, <1>3, <2>4, <3>1 DEF VerifiedNeedsSubject
  <2>5. CASE /\ pc[v] = "idle" /\ pc'[v] # "idle" /\ issuer'[v] = issuer[v]
             /\ expected'[v] = expected[v] /\ saw'[v] = saw[v]
    BY <1>0, <1>3, <2>5 DEF VerifiedNeedsSubject
  <2> QED  BY <1>0, <2>1, <2>2, <2>3, <2>4, <2>5, WorkerCases
<1>4. ASSUME NEW v \in Workers, NEW c \in SystemSlugs
      PROVE  (/\ expected[v][c] = "verified" => pc[v] # "idle" /\ Confirmed(issuer[v], c)
              /\ saw[v][c] # None /\ saw[v][c].status = "verified"
                    => pc[v] # "idle" /\ Confirmed(issuer[v], c))'
  <2>1. PICK j : j = issuer'[v]  OBVIOUS
  <2>2. Confirmed(issuer[v], c)' <=> Confirmed(j, c)'  BY <2>1 DEF Confirmed
  <2>3. \/ expected'[v][c] = "verified"
        \/ saw'[v][c] # None /\ saw'[v][c].status = "verified"
        => pc'[v] # "idle" /\ Confirmed(j, c)'
    BY <1>1, <1>3, <2>1
  <2> QED  BY <2>2, <2>3
<1> QED  BY <1>2, <1>4, KeptStep DEF VerifiedNeedsSubject

-----------------------------------------------------------------------------
(* Requests. *)

\* A look leaves a request for a watchlist, or one to create.
LEMMA AskedFor ==
    ASSUME RequestsHeld, NEW q \in Clients, NEW what, Ask(q, what), UNCHANGED collection,
           \/ what.op = "create"
           \/ what.slug \in Slugs /\ IsWatchlist(what.slug)
    PROVE  RequestsHeld'
<1>1. DOMAIN request' = Clients /\ request'[q] = what
      /\ \A p \in Clients \ {q} : request'[p] = request[p]
  BY DEF Ask, RequestsHeld
<1> QED  BY <1>1 DEF RequestsHeld, IsWatchlist

\* An answer forgets it.
LEMMA AnsweredHolds ==
    ASSUME RequestsHeld, NEW q \in Clients, Answered(q),
           \A c \in Slugs : collection'[c] = collection[c] \/ collection'[c] = None \/ collection'[c] = Watchlist
    PROVE  RequestsHeld'
<1>1. DOMAIN request' = Clients /\ request'[q] = None
      /\ \A p \in Clients \ {q} : request'[p] = request[p]
  BY DEF Answered, RequestsHeld
<1>2. Watchlist.type = "watchlist"  BY DEF Watchlist
<1> QED  BY <1>1, <1>2 DEF RequestsHeld

LEMMA RequestStep == UniverseInv /\ [Next]_vars => RequestsHeld'
<1> SUFFICES ASSUME UniverseInv, [Next]_vars PROVE RequestsHeld'
  OBVIOUS
<1>0. TypeOK /\ RequestsHeld  BY DEF UniverseInv
<1>1. ASSUME UNCHANGED <<collection, request>> PROVE RequestsHeld'
  BY <1>0, <1>1 DEF RequestsHeld
<1>2. ASSUME NEW w \in Workers, NEW i, NEW bundles, StartOn(w, i, bundles) PROVE RequestsHeld'
  BY <1>1, <1>2 DEF StartOn
<1>3. ASSUME NEW w \in Workers, Compare(w) \/ CommitMemberships(w) \/ RollBack(w) PROVE RequestsHeld'
  BY <1>1, <1>3 DEF Compare, CommitMemberships, RollBack
<1>4. ASSUME NEW w, NEW b, StoreEvidence(b) \/ StoreAlert(b) \/ ChooseBundle(w, b) \/ WriteSubject(w) PROVE RequestsHeld'
  BY <1>1, <1>4 DEF StoreEvidence, StoreAlert, ChooseBundle, WriteSubject
<1>5. ASSUME NEW c, NEW i, SeedMember(c, i) \/ RemoveIssuer(c, i) PROVE RequestsHeld'
  BY <1>1, <1>5 DEF SeedMember, RemoveIssuer
<1>6. ASSUME SeedSystem PROVE RequestsHeld'
  <2>1. request' = request  BY <1>6 DEF SeedSystem
  <2>2. ASSUME NEW q \in Clients, request[q] # None, request[q].op \in {"add", "delete"}
        PROVE  request[q].slug \notin SystemSlugs
    BY <1>6, <2>2 DEF SeedSystem, Held
  <2>3. \A c \in Slugs \ SystemSlugs : collection'[c] = collection[c]  BY <1>6 DEF SeedSystem
  <2> QED  BY <1>0, <2>1, <2>2, <2>3 DEF RequestsHeld
<1>7. ASSUME NEW c \in Slugs, SeedCurated(c) PROVE RequestsHeld'
  <2>1. request' = request  BY <1>7 DEF SeedCurated
  <2>2. ASSUME NEW q \in Clients, request[q] # None, request[q].op \in {"add", "delete"}
        PROVE  request[q].slug # c
    BY <1>7, <2>2 DEF SeedCurated, Held
  <2>3. \A d \in Slugs \ {c} : collection'[d] = collection[d]  BY <1>0, <1>7 DEF SeedCurated, TypeOK
  <2> QED  BY <1>0, <2>1, <2>2, <2>3 DEF RequestsHeld
<1>8. ASSUME NEW q \in Clients, NEW n, LookForSlug(q, n) PROVE RequestsHeld'
  <2> DEFINE what == [op |-> "create", slug |-> Head(FreeSlugs(n))]
  <2>1. Ask(q, what) /\ UNCHANGED collection  BY <1>8 DEF LookForSlug
  <2>2. what.op = "create"  OBVIOUS
  <2> HIDE DEF what
  <2> QED  BY <1>0, <2>1, <2>2, AskedFor
<1>9. ASSUME NEW q \in Clients, NEW c \in Slugs, NEW i, LookForMember(q, c, i) PROVE RequestsHeld'
  <2> DEFINE what == [op |-> "add", slug |-> c, issuer |-> i]
  <2>1. Ask(q, what) /\ UNCHANGED collection /\ IsWatchlist(c)  BY <1>9 DEF LookForMember
  <2>2. what.slug = c  OBVIOUS
  <2> HIDE DEF what
  <2> QED  BY <1>0, <2>1, <2>2, AskedFor
<1>10. ASSUME NEW q \in Clients, NEW c \in Slugs, LookForMembers(q, c) PROVE RequestsHeld'
  <2> DEFINE what == [op |-> "delete", slug |-> c, rows |-> {i \in Issuers : member[c][i] # None}]
  <2>1. Ask(q, what) /\ UNCHANGED collection /\ IsWatchlist(c)  BY <1>10 DEF LookForMembers
  <2>2. what.slug = c  OBVIOUS
  <2> HIDE DEF what
  <2> QED  BY <1>0, <2>1, <2>2, AskedFor
<1>11. ASSUME NEW q \in Clients, CreateWatchlist(q) PROVE RequestsHeld'
  <2>1. Answered(q)  BY <1>11 DEF CreateWatchlist
  <2>2. \A c \in Slugs : collection'[c] = collection[c] \/ collection'[c] = None \/ collection'[c] = Watchlist
    BY <1>0, <1>11 DEF CreateWatchlist, TypeOK
  <2> QED  BY <1>0, <2>1, <2>2, AnsweredHolds
<1>12. ASSUME NEW q \in Clients, AddIssuer(q) PROVE RequestsHeld'
  <2>1. Answered(q) /\ UNCHANGED collection  BY <1>12 DEF AddIssuer
  <2> QED  BY <1>0, <2>1, AnsweredHolds
<1>13. ASSUME NEW q \in Clients, DeleteWatchlist(q) PROVE RequestsHeld'
  <2>1. Answered(q)  BY <1>13 DEF DeleteWatchlist
  <2>2. \A c \in Slugs : collection'[c] = collection[c] \/ collection'[c] = None \/ collection'[c] = Watchlist
    BY <1>0, <1>13 DEF DeleteWatchlist, TypeOK
  <2> QED  BY <1>0, <2>1, <2>2, AnsweredHolds
<1>14. ASSUME NEW q \in Clients, ClientStep(q) PROVE RequestsHeld'
  BY <1>8, <1>9, <1>10, <1>11, <1>12, <1>13, <1>14 DEF ClientStep
<1>15. ASSUME UNCHANGED vars PROVE RequestsHeld'
  BY <1>1, <1>15 DEF vars
<1> QED  BY <1>2, <1>3, <1>4, <1>5, <1>6, <1>7, <1>14, <1>15, StepCases

LEMMA UniverseInvariant == Spec => []UniverseInv
<1>1. UniverseInv /\ [Next]_vars => UniverseInv'
  BY UniverseTypeStep, ReviewStep, SeenStep, VerifiedStep, RequestStep DEF UniverseInv
<1> QED  BY <1>1, UniverseInit, PTL DEF Spec

-----------------------------------------------------------------------------
(* The theorems. *)

\* No issuer becomes verified in a universe of the system, through any
\* interleaving of classifiers, corrections, second reviews and seeds, unless a
\* review of its own evidence has said that it is the subject; and where one
\* corrector runs at a time the alert still says so.
THEOREM VerifiedIssuersAreSubjects == Spec => []VerifiedNeedsSubject
BY UniverseInvariant, PTL DEF UniverseInv

\* An analyst's row is taken off only by an analyst.
THEOREM AnalystsOwnTheirRows == Spec => AnalystRowsStay
<1> DEFINE Kept(c, i) ==
       member[c][i] # None /\ member[c][i].system_seeded = "no" =>
           \/ member'[c][i] # None /\ member'[c][i].system_seeded = "no"
           \/ RemoveIssuer(c, i)
           \/ \E q \in Clients : DeleteWatchlist(q)
<1>1. ASSUME UniverseInv, [Next]_vars, NEW c \in Slugs, NEW i \in Issuers,
             member[c][i] # None, member[c][i].system_seeded = "no"
      PROVE  \/ member'[c][i] # None /\ member'[c][i].system_seeded = "no"
             \/ RemoveIssuer(c, i)
             \/ \E q \in Clients : DeleteWatchlist(q)
  <2>0. TypeOK  BY <1>1 DEF UniverseInv
  <2> DEFINE Goal == \/ member'[c][i] # None /\ member'[c][i].system_seeded = "no"
                     \/ RemoveIssuer(c, i)
                     \/ \E q \in Clients : DeleteWatchlist(q)
  <2>1. ASSUME member'[c][i] = member[c][i] PROVE Goal
    BY <1>1, <2>1
  <2>2. ASSUME NEW w \in Workers, CommitMemberships(w) PROVE Goal
    <3>1. CASE c \in SystemSlugs /\ SameRow(saw[w][c], member[c][i]) /\ member'[c][i] = Target(w, c)
      <4>1. saw[w][c] # None /\ saw[w][c].system_seeded = "no"  BY <1>1, <3>1 DEF SameRow
      <4> QED  BY <2>0, <3>1, <4>1, TargetRow
    <3> QED  BY <2>0, <2>1, <2>2, <3>1, CommittedRow
  <2>3. ASSUME NEW w \in Workers, Compare(w) \/ RollBack(w) PROVE Goal
    BY <2>1, <2>3 DEF Compare, RollBack
  <2>4. ASSUME NEW w \in Workers, NEW j, NEW bundles, StartOn(w, j, bundles) PROVE Goal
    BY <2>1, <2>4 DEF StartOn
  <2>5. ASSUME NEW w, NEW b, StoreEvidence(b) \/ StoreAlert(b) \/ ChooseBundle(w, b) \/ WriteSubject(w) PROVE Goal
    BY <2>1, <2>5 DEF StoreEvidence, StoreAlert, ChooseBundle, WriteSubject
  <2>6. ASSUME SeedSystem \/ \E d \in Slugs : SeedCurated(d) PROVE Goal
    BY <2>1, <2>6 DEF SeedSystem, SeedCurated
  <2>7. ASSUME NEW d \in Slugs, NEW j \in Issuers, SeedMember(d, j) PROVE Goal
    <3>1. member'[c][i] = member[c][i]  BY <1>1, <2>0, <2>7 DEF SeedMember, TypeOK
    <3> QED  BY <2>1, <3>1
  <2>8. ASSUME NEW d \in Slugs, NEW j \in Issuers, RemoveIssuer(d, j) PROVE Goal
    <3>1. CASE d = c /\ j = i  BY <2>8, <3>1
    <3>2. CASE ~(d = c /\ j = i)
      <4>1. member'[c][i] = member[c][i]  BY <2>0, <2>8, <3>2 DEF RemoveIssuer, TypeOK
      <4> QED  BY <2>1, <4>1
    <3> QED  BY <3>1, <3>2
  <2>9. ASSUME NEW q \in Clients, AddIssuer(q) PROVE Goal
    <3>1. member'[c][i] = member[c][i]  BY <1>1, <2>0, <2>9 DEF AddIssuer, TypeOK
    <3> QED  BY <2>1, <3>1
  <2>10. ASSUME NEW q \in Clients, ClientStep(q) PROVE Goal
    <3>1. CreateWatchlist(q) => member' = member  BY DEF CreateWatchlist
    <3> QED  BY <2>1, <2>9, <2>10, <3>1, ClientLeaves
  <2>11. ASSUME UNCHANGED vars PROVE Goal
    BY <2>1, <2>11 DEF vars
  <2> HIDE DEF Goal
  <2>12. Goal
    BY <1>1, <2>2, <2>3, <2>4, <2>5, <2>6, <2>7, <2>8, <2>10, <2>11, StepCases
  <2> QED  BY <2>12 DEF Goal
<1>2. UniverseInv /\ [Next]_vars => [\A c \in Slugs, i \in Issuers : Kept(c, i)]_vars
  BY <1>1
<1> QED  BY <1>2, UniverseInvariant, PTL DEF Spec, AnalystRowsStay

\* A classification only ever strengthens what it read.
THEOREM ClassifiersStrengthen == Spec => LiveNeverWeakens
<1> DEFINE Stronger(w, c, i) ==
       CommitMemberships(w) /\ member[c][i] # None =>
           /\ member'[c][i] # None
           /\ member'[c][i] # member[c][i] => Rank(member'[c][i].status) > Rank(saw[w][c].status)
<1>1. ASSUME UniverseInv, NEW w \in Classifiers, NEW c \in Slugs, NEW i \in Issuers,
             CommitMemberships(w), member[c][i] # None
      PROVE  /\ member'[c][i] # None
             /\ member'[c][i] # member[c][i] => Rank(member'[c][i].status) > Rank(saw[w][c].status)
  <2>0. TypeOK /\ w \in Workers /\ w \notin Correctors
    BY <1>1, UniverseAssumption DEF UniverseInv, Workers
  <2>1. CASE member'[c][i] = member[c][i]  BY <1>1, <2>1
  <2>2. CASE /\ c \in SystemSlugs /\ SameRow(saw[w][c], member[c][i])
             /\ member'[c][i] = Target(w, c) /\ Target(w, c) # saw[w][c]
    <3>1. saw[w][c] # None  BY <1>1, <2>2 DEF SameRow
    <3>2. Target(w, c) = Upgraded(saw[w][c], expected[w][c])  BY <2>0 DEF Target
    <3>3. saw[w][c] \in MemberRows \cup {None} /\ expected[w][c] \in StatusNames
      BY <2>0, <2>2, TargetRow
    <3>4. /\ Upgraded(saw[w][c], expected[w][c]) # None
          /\ Upgraded(saw[w][c], expected[w][c]).status = expected[w][c]
          /\ Rank(expected[w][c]) > Rank(saw[w][c].status)
      BY <2>2, <3>1, <3>2, <3>3, UpgradedRow
    <3> QED  BY <2>2, <3>2, <3>4
  <2> QED  BY <1>1, <2>0, <2>1, <2>2, CommittedRow
<1>2. UniverseInv /\ [Next]_vars =>
         [\A w \in Classifiers, c \in Slugs, i \in Issuers : Stronger(w, c, i)]_vars
  BY <1>1
<1> QED  BY <1>2, UniverseInvariant, PTL DEF Spec, LiveNeverWeakens

\* A correction that nothing overtook settles its issuer.
THEOREM CorrectionsSettle == Spec => CorrectionSettles
<1> DEFINE Settles(w, i) ==
       /\ CommitMemberships(w) /\ issuer[w] = i
       /\ expected[w] = Expected(EvidenceOf(StoredFor(i)))
       /\ \A c \in SystemSlugs : saw[w][c] = member[c][i]
       => Settled(i)'
<1>1. ASSUME UniverseInv, NEW w \in Correctors, NEW i \in Issuers,
             CommitMemberships(w), issuer[w] = i,
             expected[w] = Expected(EvidenceOf(StoredFor(i))),
             \A c \in SystemSlugs : saw[w][c] = member[c][i]
      PROVE  Settled(i)'
  <2>0. TypeOK /\ w \in Workers  BY <1>1 DEF UniverseInv, Workers
  <2>1. UNCHANGED <<reviews, collection>>  BY <1>1 DEF CommitMemberships
  <2>2. Expected(EvidenceOf(StoredFor(i)))' = expected[w]
    BY <1>1, <2>1 DEF Expected, StatusFrom, Effective, EvidenceOf, StoredFor, reviews
  <2>3. ASSUME NEW c \in SystemSlugs, collection[c] # None,
               member'[c][i] # None => member'[c][i].system_seeded = "yes"
        PROVE  IF expected[w][c] = "none" THEN member'[c][i] = None
               ELSE member'[c][i] # None /\ member'[c][i].status = expected[w][c]
    <3>1. c \in Slugs  BY DEF Slugs
    <3>2. SameRow(saw[w][c], member[c][i])  BY <1>1 DEF SameRow
    <3>3. Target(w, c) = Corrected(member[c][i], expected[w][c])  BY <1>1 DEF Target
    <3>4. member'[c][i] = Target(w, c)
      BY <1>1, <2>3, <3>1, <3>2 DEF CommitMemberships, Written
    <3>5. member[c][i] \in MemberRows \cup {None} /\ expected[w][c] \in StatusNames
      BY <1>1, <2>0, TargetRow
    <3>6. CASE member[c][i] = None
      <4>1. member'[c][i] = Upgraded(None, expected[w][c])  BY <3>3, <3>4, <3>5, <3>6, CorrectedRow
      <4>2. CASE expected[w][c] = "none"  BY <3>5, <4>1, <4>2, UpgradedRow
      <4>3. CASE expected[w][c] # "none"
        <5>1. member'[c][i] = [status |-> expected[w][c], system_seeded |-> "yes"]
          BY <3>5, <4>1, <4>3, UpgradedRow
        <5>2. member'[c][i] \in MemberRows  BY <3>5, <4>3, <5>1 DEF MemberRows, StatusNames
        <5> QED  BY <4>3, <5>1, <5>2, NoneAssumption
      <4> QED  BY <4>2, <4>3
    <3>7. CASE member[c][i] # None /\ member[c][i].system_seeded = "no"
      BY <2>3, <3>3, <3>4, <3>5, <3>7, CorrectedRow
    <3>8. CASE member[c][i] # None /\ member[c][i].system_seeded = "yes"
      BY <3>3, <3>4, <3>5, <3>8, CorrectedRow
    <3>9. member[c][i] # None => member[c][i].system_seeded \in {"yes", "no"}
      BY <3>5 DEF MemberRows
    <3> QED  BY <3>6, <3>7, <3>8, <3>9
  <2> QED  BY <2>1, <2>2, <2>3 DEF Settled
<1>2. UniverseInv /\ [Next]_vars => [\A w \in Correctors, i \in Issuers : Settles(w, i)]_vars
  BY <1>1
<1> QED  BY <1>2, UniverseInvariant, PTL DEF Spec, CorrectionSettles

\* The collections that are not watchlists.
Universe(c) == collection[c] # None /\ ~IsWatchlist(c)

\* A step on watchlists changes none of them.
LEMMA UniversesUntouched ==
    ASSUME UniverseInv,
           \/ \E q \in Clients : ClientStep(q)
           \/ \E c \in Slugs, i \in Issuers : RemoveIssuer(c, i),
           NEW d \in Slugs
    PROVE  /\ Universe(d)' <=> Universe(d)
           /\ Universe(d) => collection'[d] = collection[d] /\ member'[d] = member[d]
<1>0. TypeOK /\ RequestsHeld  BY DEF UniverseInv
<1> DEFINE Goal == /\ Universe(d)' <=> Universe(d)
                   /\ Universe(d) => collection'[d] = collection[d] /\ member'[d] = member[d]
<1>1. ASSUME UNCHANGED <<collection, member>> PROVE Goal
  BY <1>1 DEF Universe, IsWatchlist
<1>2. ASSUME NEW c \in Slugs, NEW i \in Issuers, RemoveIssuer(c, i) PROVE Goal
  <2>1. collection' = collection /\ (d # c => member'[d] = member[d])
    BY <1>0, <1>2 DEF RemoveIssuer, TypeOK
  <2>2. Universe(d) => d # c  BY <1>2 DEF RemoveIssuer, Universe
  <2> QED  BY <2>1, <2>2 DEF Universe, IsWatchlist
<1>3. ASSUME NEW q \in Clients, CreateWatchlist(q) PROVE Goal
  <2>1. member' = member  BY <1>3 DEF CreateWatchlist
  <2>2. CASE collection' = collection  BY <1>1, <2>1, <2>2
  <2>3. CASE /\ collection[request[q].slug] = None
             /\ collection' = [collection EXCEPT ![request[q].slug] = Watchlist]
    <3>1. CASE d = request[q].slug
      <4>1. collection'[d] = Watchlist /\ Watchlist.type = "watchlist"
        BY <1>0, <2>3, <3>1 DEF TypeOK, Watchlist
      <4> QED  BY <2>3, <3>1, <4>1 DEF Universe, IsWatchlist
    <3>2. CASE d # request[q].slug
      <4>1. collection'[d] = collection[d]  BY <1>0, <2>3, <3>2 DEF TypeOK
      <4> QED  BY <2>1, <4>1 DEF Universe, IsWatchlist
    <3> QED  BY <3>1, <3>2
  <2> QED  BY <1>3, <2>2, <2>3 DEF CreateWatchlist
<1>4. ASSUME NEW q \in Clients, AddIssuer(q) PROVE Goal
  <2>1. collection' = collection  BY <1>4 DEF AddIssuer
  <2>2. CASE member' = member  BY <1>1, <2>1, <2>2
  <2>3. CASE /\ collection[request[q].slug] # None
             /\ member' = [member EXCEPT ![request[q].slug][request[q].issuer] =
                              [status |-> "unverified", system_seeded |-> "no"]]
    <3>1. IsWatchlist(request[q].slug)
      BY <1>0, <1>4, <2>3 DEF AddIssuer, RequestsHeld, IsWatchlist
    <3>2. Universe(d) => d # request[q].slug  BY <3>1 DEF Universe
    <3>3. d # request[q].slug => member'[d] = member[d]  BY <1>0, <2>3 DEF TypeOK
    <3> QED  BY <2>1, <3>2, <3>3 DEF Universe, IsWatchlist
  <2> QED  BY <1>4, <2>2, <2>3 DEF AddIssuer
<1>5. ASSUME NEW q \in Clients, DeleteWatchlist(q) PROVE Goal
  <2>1. CASE UNCHANGED <<collection, member>>  BY <1>1, <2>1
  <2>2. CASE /\ collection' = [collection EXCEPT ![request[q].slug] = None]
             /\ member' = [member EXCEPT ![request[q].slug] = [i \in Issuers |-> None]]
    <3>1. ~Universe(request[q].slug)
      BY <1>0, <1>5 DEF DeleteWatchlist, RequestsHeld, IsWatchlist, Universe
    <3>2. d # request[q].slug => collection'[d] = collection[d] /\ member'[d] = member[d]
      BY <1>0, <2>2 DEF TypeOK
    <3>3. d = request[q].slug => collection'[d] = None
      BY <1>0, <2>2 DEF TypeOK
    <3> QED  BY <3>1, <3>2, <3>3 DEF Universe, IsWatchlist
  <2> QED  BY <1>5, <2>1, <2>2 DEF DeleteWatchlist
<1> HIDE DEF Goal
<1>6. ASSUME NEW q \in Clients, ClientStep(q) PROVE Goal
  BY <1>1, <1>3, <1>4, <1>5, <1>6, ClientLeaves
<1>7. Goal  BY <1>2, <1>6
<1> QED  BY <1>7 DEF Goal

\* A client's watchlists are nobody else's business.
THEOREM WatchlistsConcernNobodyElse == Spec => WatchlistsAreLocal
<1> DEFINE Local ==
       (\E q \in Clients : ClientStep(q)) \/ (\E c \in Slugs, i \in Issuers : RemoveIssuer(c, i))
           => Covered' = Covered /\ \A i \in Issuers : CurrentStatus(i)' = CurrentStatus(i)
<1>1. ASSUME UniverseInv,
             \/ \E q \in Clients : ClientStep(q)
             \/ \E c \in Slugs, i \in Issuers : RemoveIssuer(c, i)
      PROVE  Covered' = Covered /\ \A i \in Issuers : CurrentStatus(i)' = CurrentStatus(i)
  <2>1. \A c \in Slugs : /\ Universe(c)' <=> Universe(c)
                         /\ Universe(c) => collection'[c] = collection[c] /\ member'[c] = member[c]
    BY <1>1, UniversesUntouched
  <2>2. Covered = {i \in Issuers : \E c \in Slugs : member[c][i] # None /\ Universe(c)}
    BY DEF Covered, Universe
  <2>3. Covered' = {i \in Issuers : \E c \in Slugs : member'[c][i] # None /\ Universe(c)'}
    BY DEF Covered, Universe
  <2>4. Covered' = Covered  BY <2>1, <2>2, <2>3
  <2>5. ASSUME NEW i \in Issuers PROVE CurrentStatus(i)' = CurrentStatus(i)
    <3> DEFINE verified == {c \in Slugs : Universe(c) /\ member[c][i] # None
                                                      /\ member[c][i].status = "verified"}
               curated == {c \in verified : collection[c].method = "manual_curated"}
    <3>1. CurrentStatus(i) = IF curated # {} THEN curated ELSE verified
      BY DEF CurrentStatus, Universe
    <3>2. CurrentStatus(i)' = IF curated' # {} THEN curated' ELSE verified'
      BY DEF CurrentStatus, Universe
    <3>3. verified' = {c \in Slugs : Universe(c)' /\ member'[c][i] # None
                                                  /\ member'[c][i].status = "verified"}
      OBVIOUS
    <3>4. verified' = verified  BY <2>1, <3>3
    <3>5. curated' = {c \in verified' : collection'[c].method = "manual_curated"}
      OBVIOUS
    <3>6. curated' = curated  BY <2>1, <3>4, <3>5
    <3> QED  BY <3>1, <3>2, <3>4, <3>6
  <2> QED  BY <2>4, <2>5
<1>2. UniverseInv /\ [Next]_vars => [Local]_vars
  BY <1>1
<1> QED  BY <1>2, UniverseInvariant, PTL DEF Spec, WatchlistsAreLocal
=============================================================================
