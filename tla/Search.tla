--------------------------------- MODULE Search ---------------------------------
(* Universal Search: exact identifiers first, then one group per entity type in *)
(* a fixed order; issuers and securities are searched by name prefix, by text   *)
(* and by similarity until the group is full.  Every tier is a query of its     *)
(* own and sees the rows as they are by then.                                   *)
EXTENDS Integers, Sequences, FiniteSetsExt

CONSTANTS
    Entities,       \* rows that may be found: a kind and an id
    Ways,           \* bound: the sets of ways in which a row may match the query
    GroupLimit,     \* per_group_limit
    MaxEdits        \* bound: edits while a search runs

\* The order of _GROUP_FUNCTIONS.
GroupOrder == [issuer |-> 1, security |-> 2, alert_event |-> 3, court_docket |-> 4,
               court_docket_entry |-> 5, collection |-> 6, research_note |-> 7,
               research_document |-> 8, sec_filing |-> 9]

ASSUME SearchAssumption ==
    /\ IsFiniteSet(Entities) /\ \A e \in Entities : e.kind \in DOMAIN GroupOrder
    /\ GroupLimit \in Nat /\ MaxEdits \in Nat

VARIABLES
    matches,    \* per entity: how its row matches the query now
    archived,   \* entities archived
    asked,      \* queries still to run
    found,      \* hits so far, in order: entity, tier
    edits

searchVars == <<matches, archived, asked, found, edits>>

Identified == {"issuer", "security", "court_docket", "sec_filing"}
Named == {"issuer", "security"}
Archivable == {"research_note", "research_document"}

\* sec_filing matches its form type only: a prefix of a name, as it were.
Tiers(kind) == CASE kind \in Named -> {"prefix", "text", "similar"}
                 [] kind = "sec_filing" -> {"prefix"}
                 [] OTHER -> {"text"}

Kinds == {e.kind : e \in Entities}

\* The queries of a search, those of kinds without rows left out: a kind and a tier.
ExactQueries == {<<k, "exact">> : k \in Identified \cap Kinds}
GroupQueries == UNION {{<<k, t>> : t \in Tiers(k)} : k \in Kinds}

\* Identifiers of every kind first, then group by group, the better tiers first.
Tier(tier) == [exact |-> 0, prefix |-> 1, text |-> 2, similar |-> 3][tier]
QueryTurn(query) == IF query[2] = "exact" THEN GroupOrder[query[1]]
               ELSE 10 * GroupOrder[query[1]] + Tier(query[2])

SearchInit ==
    /\ matches \in [Entities -> Ways]
    /\ archived \in SUBSET {e \in Entities : e.kind \in Archivable}
    /\ asked = ExactQueries \cup GroupQueries
    /\ found = <<>> /\ edits = 0

InGroup(kind) == {i \in DOMAIN found : found[i].entity.kind = kind /\ found[i].tier # "exact"}

\* Mutant of SeenSoFar: later tiers are not told what was found.
SeenNothing(kind) == {}

\* Rows a query may return: a hit of this group's earlier tiers is not asked for again.
SeenSoFar(kind) == {found[i].entity : i \in InGroup(kind)}
Candidates(kind, tier) ==
    {e \in Entities : /\ e.kind = kind /\ tier \in matches[e] /\ e \notin archived
                      /\ tier # "exact" => e \notin SeenSoFar(kind)}

ExactHits == {found[i].entity : i \in {j \in DOMAIN found : found[j].tier = "exact"}}

\* What fits the group.  A hit shown as an exact match is dropped from its group
\* after the limit was applied.
Fetched(kind, tier) ==
    LET room == GroupLimit - Cardinality(IF tier = "exact" THEN ExactHits ELSE InGroup(kind))
        rows == Candidates(kind, tier)
    IN {s \in SUBSET rows : Cardinality(s) = Min({room, Cardinality(rows)})}

Orders(set) == {q \in [1..Cardinality(set) -> set] : \A i, j \in DOMAIN q : i # j => q[i] # q[j]}

Hits(order, tier) == [i \in DOMAIN order |-> [entity |-> order[i], tier |-> tier]]

Ask ==
    /\ \E query \in asked :
          /\ \A other \in asked : QueryTurn(query) <= QueryTurn(other)
          /\ \E rows \in Fetched(query[1], query[2]) : \E order \in Orders(rows) :
                found' = found \o Hits(order, query[2])
          /\ asked' = asked \ {query}
    /\ UNCHANGED <<matches, archived, edits>>

\* The response, as places in what was found: the groups without what is already
\* an exact match.
Results == {i \in DOMAIN found : found[i].tier = "exact" \/ found[i].entity \notin ExactHits}

Edit(e) ==
    /\ edits < MaxEdits /\ asked # {} /\ edits' = edits + 1
    /\ \/ /\ \E w \in Ways \ {matches[e]} : matches' = [matches EXCEPT ![e] = w]
          /\ UNCHANGED archived
       \/ /\ e.kind \in Archivable /\ e \notin archived /\ archived' = archived \cup {e}
          /\ UNCHANGED matches
    /\ UNCHANGED <<asked, found>>

SearchNext == Ask \/ \E e \in Entities : Edit(e)
SearchSpec == SearchInit /\ [][SearchNext]_searchVars

(***************************************************************************)
(* Property                                                                *)
(***************************************************************************)
(* Nothing appears twice in a response, although a row may come to match a      *)
(* later tier while the search runs; better tiers of a group come first, and no *)
(* group is longer than the limit.                                              *)
NothingShownTwice ==
    /\ \A i, j \in Results : i < j =>
          /\ found[i].entity # found[j].entity
          /\ found[i].entity.kind = found[j].entity.kind =>
                Tier(found[i].tier) <= Tier(found[j].tier)
    /\ \A k \in Kinds : Cardinality(InGroup(k)) <= GroupLimit
=============================================================================
