----------------------------- MODULE DistressRules -----------------------------
(* From the text of a filing or a docket entry to an alert and a universe: the *)
(* rules of Layer 1, the evidence they produce, its bundles and the alert made *)
(* of a bundle without a model.  A text is the set of its mentions: the place  *)
(* where a rule's pattern, or an 8-K item, occurs; a place is masked when a     *)
(* suppressing phrase stands within the excerpt window around it.              *)
EXTENDS Integers, Sequences, FiniteSets, Functions

CONSTANTS
    Sources,        \* filings and docket entries
    DocketSources,  \* those that are docket entries
    Places,         \* places in a text
    MaxMentions     \* bound: mentions over all texts

ASSUME PlacesAssumption == Places \subseteq Nat \ {0} /\ DocketSources \subseteq Sources

VARIABLES
    mentions,   \* what the texts say: source, rule, place (0 for an item code)
    masked,     \* places with a suppressing phrase near
    evidence,   \* evidence of a source: the rules that matched
    alerts      \* per source: {} or the alert of its bundle

distressVars == <<mentions, masked, evidence, alerts>>

(***************************************************************************)
(* The rules: identifier, evidence type, severity                          *)
(***************************************************************************)
ItemRules == <<
    <<"8k_item_1_03_bankruptcy", "bankruptcy_or_receivership", "high">>,
    <<"8k_item_2_04_debt_acceleration", "debt_acceleration", "high">>,
    <<"8k_item_3_01_delisting", "delisting_notice", "medium">>,
    <<"8k_item_4_01_auditor_change", "auditor_resignation", "medium">> >>

InsolvencyRules == <<
    <<"chapter_11_petition", "chapter_11", "high">>,
    <<"chapter_11_bare_mention", "chapter_11", "low">>,
    <<"chapter_7_petition", "chapter_7", "high">>,
    <<"missed_interest_payment", "default_or_missed_payment", "high">>,
    <<"event_of_default", "covenant_breach", "high">>,
    <<"debt_acceleration", "debt_acceleration", "high">>,
    <<"substantial_doubt_going_concern", "substantial_doubt", "high">>,
    <<"going_concern_bare_mention", "going_concern", "low">>,
    <<"liquidity_shortfall", "liquidity_warning", "medium">>,
    <<"restructuring_advisor", "restructuring_advisor", "medium">>,
    <<"restructuring_support_agreement", "restructuring_support_agreement", "high">> >>

FinancingRules == <<
    <<"exchange_offer", "exchange_offer", "medium">>,
    <<"liability_management", "liability_management_transaction", "medium">>,
    <<"amend_and_extend", "maturity_extension", "medium">>,
    <<"maturity_extension", "maturity_extension", "medium">>,
    <<"refinancing", "refinancing", "low">>,
    <<"dip_financing", "dip_financing", "high">>,
    <<"emergency_financing", "emergency_financing", "high">>,
    <<"material_asset_sale", "material_asset_sale", "medium">> >>

OperatingRules == <<
    <<"delisting_notice", "delisting_notice", "medium">>,
    <<"workforce_reduction", "workforce_reduction", "low">>,
    <<"facility_closure", "facility_closure", "low">>,
    <<"material_impairment", "material_impairment", "medium">>,
    <<"auditor_resignation", "auditor_resignation", "medium">>,
    <<"adverse_audit_opinion", "adverse_audit_development", "medium">>,
    <<"strategic_alternatives", "strategic_alternatives", "medium">>,
    <<"debt_amendment", "debt_amendment", "low">> >>

DocketRules == <<
    <<"plan_confirmed", "plan_confirmed", "medium">>,
    <<"case_dismissed", "case_dismissed", "medium">>,
    <<"case_converted_chapter_7", "case_converted", "high">>,
    <<"trustee_appointed", "trustee_appointed", "high">>,
    <<"claims_bar_date", "claims_bar_date_set", "low">>,
    <<"relief_from_stay", "relief_from_stay_motion", "medium">> >>

PhraseRules == InsolvencyRules \o FinancingRules \o OperatingRules \o DocketRules
\* A rule is its place in this list; the rules run, and evidence is made, in its order.
Rules == ItemRules \o PhraseRules

\* The one rule a suppressing phrase nearby disarms.
Suppressible == {"chapter_11_bare_mention"}
\* The rules a docket entry is not read with.
DocketExcluded == {"chapter_11_bare_mention", "going_concern_bare_mention"}

Rank(severity) == [high |-> 0, medium |-> 1, low |-> 2][severity]

(***************************************************************************)
(* match_rules                                                             *)
(***************************************************************************)
PlacesOf(s, rule) == {m.at : m \in {n \in mentions : n.source = s /\ n.rule = rule}}

FirstOnly(s, rule) ==
    {p \in PlacesOf(s, rule) : /\ \A q \in PlacesOf(s, rule) : p <= q
                               /\ rule \in Suppressible => p \notin masked}

\* The scan skips a masked place and stops at the first that is not.
Match(s, rule) ==
    LET clear == {p \in PlacesOf(s, rule) : rule \in Suppressible => p \notin masked}
    IN {p \in clear : \A q \in clear : p <= q}

Excluded(s) == IF s \in DocketSources THEN DocketExcluded ELSE {}

MatchRules(s) ==
    {i \in DOMAIN Rules : Rules[i][1] \notin Excluded(s) /\ Match(s, Rules[i][1]) # {}}

(***************************************************************************)
(* Evidence, bundles, alerts                                               *)
(***************************************************************************)
MentionsOf(s) ==
    {[source |-> s, rule |-> r[1], at |-> 0] : r \in {x \in Range(ItemRules) : s \notin DocketSources}}
    \cup {[source |-> s, rule |-> r[1], at |-> p] : r \in Range(PhraseRules), p \in Places}

UpTo(n, set) == {{}} \cup {{x} : x \in set} \cup (IF n > 1 THEN {{x, y} : x, y \in set} ELSE {})

DistressInit ==
    /\ mentions = {} /\ masked = {}
    /\ evidence = [s \in Sources |-> {}]
    /\ alerts = [s \in Sources |-> {}]

\* The texts of the day.
Publish ==
    /\ mentions = {}
    /\ mentions' \in UpTo(MaxMentions, UNION {MentionsOf(s) : s \in Sources})
    /\ masked' \in {{}} \cup {{p} : p \in Places}
    /\ UNCHANGED <<evidence, alerts>>

\* A source that has evidence is not read again.
ProcessSource(s) ==
    /\ evidence[s] = {} /\ MatchRules(s) # {}
    /\ evidence' = [evidence EXCEPT ![s] = MatchRules(s)]
    /\ UNCHANGED <<mentions, masked, alerts>>

\* The most serious signal, the earliest of them.
Worst(bundle) == {i \in bundle : \A j \in bundle : Rank(Rules[i][3]) <= Rank(Rules[j][3])}
PrimaryEvidence(bundle) ==
    Rules[CHOOSE i \in Worst(bundle) : \A j \in Worst(bundle) : i <= j]

Alert(bundle) ==
    [category |-> PrimaryEvidence(bundle)[2], severity |-> PrimaryEvidence(bundle)[3],
     evidence |-> {Rules[i][1] : i \in bundle}]

\* One bundle per source; a bundle that has an alert is skipped.
SynthesizeAlerts ==
    /\ \E s \in Sources : evidence[s] # {} /\ alerts[s] = {}
    /\ alerts' = [s \in Sources |-> IF evidence[s] = {} \/ alerts[s] # {} THEN alerts[s]
                                    ELSE {Alert(evidence[s])}]
    /\ UNCHANGED <<mentions, masked, evidence>>

DistressNext == Publish \/ SynthesizeAlerts \/ \E s \in Sources : ProcessSource(s)
DistressSpec == DistressInit /\ [][DistressNext]_distressVars

(***************************************************************************)
(* Universes, before any model has reviewed the evidence                   *)
(***************************************************************************)
DefinitiveTypes == {"chapter_11", "bankruptcy_or_receivership", "plan_confirmed"}
SuggestiveTypes ==
    {"going_concern", "substantial_doubt", "default_or_missed_payment", "covenant_breach",
     "debt_acceleration", "liability_management_transaction", "exchange_offer",
     "restructuring_support_agreement", "refinancing", "maturity_extension", "debt_amendment",
     "strategic_alternatives", "restructuring_advisor", "dip_financing", "emergency_financing"}
Classifies(r) == \/ r[2] \in DefinitiveTypes /\ r[3] = "high"
                 \/ r[2] \in SuggestiveTypes /\ r[3] \in {"high", "medium"}

(***************************************************************************)
(* Property                                                                *)
(***************************************************************************)
Mentioned(s, r) == \E p \in PlacesOf(s, r[1]) : r[1] \in Suppressible => p \notin masked

(* A text with a signal never passes for one without, and its alert is as       *)
(* serious as the worst signal it holds, however many lesser or suppressed       *)
(* mentions come before it, and cites every signal; the rules a docket entry is  *)
(* not read with could not have classified the issuer.                           *)
WorstSignalLeads ==
    \A s \in Sources : \A r \in Range(Rules) :
        Mentioned(s, r) =>
            IF r[1] \in Excluded(s) THEN ~Classifies(r)
            ELSE /\ MatchRules(s) # {}
                 /\ \A alert \in alerts[s] :
                       r[1] \in alert.evidence /\ Rank(alert.severity) <= Rank(r[3])
=============================================================================
