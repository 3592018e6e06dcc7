---------------------------- MODULE ModelRouter ----------------------------
(***************************************************************************)
(* The routing of evidence reviews to two language models and the per-run  *)
(* budget that limits them: ModelRouter and AiCallBudget in               *)
(* app/ai/model_router.py, with the ai_call_log rows it writes.  One       *)
(* router serves one run, which reviews its bundles one after the other.   *)
(* What a model answers, and whether a request fails, is arbitrary.  A     *)
(* call of AnthropicProvider.complete may send several requests: the       *)
(* client is built with the SDK's own retries left on.                     *)
(***************************************************************************)
EXTENDS Naturals

CONSTANTS
    Providers,         \* the models that are configured, a subset of Routes
    MaxAttempts,       \* RoutingConfig.max_attempts: complete() per call
    SdkRetries,        \* max_retries of the Anthropic client: 2 unless set
    MaxCalls,          \* AiCallBudget.max_calls, or Unlimited
    MaxSonnetCalls,    \* AiCallBudget.max_sonnet_calls, or Unlimited
    MaxCost,           \* AiCallBudget.max_cost_usd, or Unlimited
    Costs,             \* what one call may be estimated to cost; 0 if unknown
    Unlimited,         \* a limit of None
    Faults,            \* "database": writing a log row may fail
    MaxReviews         \* bound of the model: bundles reviewed in the run

Routes == {"haiku", "sonnet"}
Results == {"unsure", "confident"}   \* confidence below, or at, the threshold
NoResult == "none"                   \* unparseable, or every attempt failed
NotAsked == "not asked"
Deferred == "deferred"               \* no result, and a later run may ask
Raised == "raised"                   \* review_evidence left by an exception
Opinions == Results \cup {NoResult, NotAsked}

ASSUME RouterAssumption ==
    /\ Providers \subseteq Routes
    /\ MaxAttempts \in Nat \ {0}
    /\ SdkRetries \in Nat
    /\ MaxReviews \in Nat
    /\ Faults \subseteq {"database"}
    /\ Unlimited \notin Nat
    /\ {MaxCalls, MaxSonnetCalls, MaxCost} \subseteq Nat \cup {Unlimited}
    /\ Costs \subseteq Nat

VARIABLES
    calls, sonnetCalls, cost,    \* AiCallBudget: what has been recorded
    blocked, deferrals, skips,   \* AiCallBudget: what was not called
    logRows,                     \* ai_call_log rows of the run, per route
    requests,                    \* API requests really sent, per route
    pc,                          \* idle, or the route being called
    attempt,                     \* attempts of the current call that failed
    bundle,                      \* ordinary, definitive (a high-impact evidence
                                 \*   type), or none: too weak to be reviewed
    opinions,                    \* locals of review_evidence: per route, whether it
                                 \*   was asked about the bundle and what it said
    review                       \* RoutedReview: how the last review ended

budget == <<calls, sonnetCalls, cost>>
tallies == <<blocked, deferrals, skips>>
rows == <<logRows, requests>>
locals == <<bundle, opinions>>
vars == <<budget, tallies, rows, pc, attempt, locals, review>>

Init ==
    /\ calls = 0 /\ sonnetCalls = 0 /\ cost = 0
    /\ blocked = 0 /\ deferrals = 0 /\ skips = 0
    /\ logRows = [r \in Routes |-> 0]
    /\ requests = [r \in Routes |-> 0]
    /\ pc = "idle"
    /\ attempt = 0
    /\ opinions = [r \in Routes |-> NotAsked]
    /\ bundle = "none"
    /\ review = NoResult

Below(used, limit) == IF limit = Unlimited THEN TRUE ELSE used < limit

\* Mutants of CanCall: <= in place of <, and a forgotten limit.
LastCallTwice(route) ==
    /\ IF MaxCalls = Unlimited THEN TRUE ELSE calls <= MaxCalls
    /\ Below(cost, MaxCost)
    /\ route = "sonnet" => Below(sonnetCalls, MaxSonnetCalls)

\* AiCallBudget.can_call
CanCall(route) ==
    /\ Below(calls, MaxCalls)
    /\ Below(cost, MaxCost)
    /\ route = "sonnet" => Below(sonnetCalls, MaxSonnetCalls)

Reviews == skips + deferrals + calls   \* each review adds to one of them

MayReview == pc = "idle" /\ Reviews < MaxReviews

Return(routed) ==
    /\ pc' = "idle"
    /\ review' = routed

\* A review begins: no model was asked about this bundle yet.
StartReview(kind) ==
    /\ MayReview
    /\ bundle' = kind
    /\ opinions' = [r \in Routes |-> NotAsked]

\* The next route is asked; its first attempt is the next step.
Ask(route) ==
    /\ pc' = route
    /\ attempt' = 0
    /\ UNCHANGED review

\* review_evidence: no candidate reaches the deterministic floor.
SkipWeakBundle ==
    /\ StartReview("none")
    /\ skips' = skips + 1
    /\ Return(NoResult)
    /\ UNCHANGED <<budget, blocked, deferrals, rows, attempt>>

\* A definitive evidence type goes to Sonnet, or is deferred.
ReviewHighImpact ==
    /\ StartReview("definitive")
    /\ UNCHANGED <<budget, skips, rows>>
    /\ \/ /\ "sonnet" \in Providers /\ CanCall("sonnet")
          /\ Ask("sonnet")
          /\ UNCHANGED <<blocked, deferrals>>
       \/ /\ "sonnet" \notin Providers \/ ~CanCall("sonnet")
          /\ blocked' = IF "sonnet" \in Providers THEN blocked + 1 ELSE blocked
          /\ deferrals' = deferrals + 1
          /\ Return(Deferred)
          /\ UNCHANGED attempt

\* Mutant of EscalateOrReturn: Haiku's answer is dropped when Sonnet is blocked.
HaikuDroppedWhenBlocked(haiku, blockedSoFar) ==
    \/ /\ haiku = "confident"
       /\ Return(haiku)
       /\ blocked' = blockedSoFar
       /\ UNCHANGED <<deferrals, attempt>>
    \/ /\ haiku # "confident"
       /\ "sonnet" \in Providers /\ CanCall("sonnet")'
       /\ Ask("sonnet")
       /\ blocked' = blockedSoFar
       /\ UNCHANGED deferrals
    \/ /\ haiku # "confident"
       /\ "sonnet" \notin Providers \/ ~CanCall("sonnet")'
       /\ blocked' = IF "sonnet" \in Providers THEN blockedSoFar + 1 ELSE blockedSoFar
       /\ deferrals' = deferrals + 1
       /\ Return(Deferred)
       /\ UNCHANGED attempt

(***************************************************************************)
(* The second half of review_evidence for an ordinary bundle, entered with *)
(* Haiku's opinion and the count of calls blocked so far: a confident      *)
(* answer stands, anything else goes to Sonnet if Sonnet may be called.    *)
(***************************************************************************)
EscalateOrReturn(haiku, blockedSoFar) ==
    \/ /\ haiku = "confident"
       /\ Return(haiku)
       /\ blocked' = blockedSoFar
       /\ UNCHANGED <<deferrals, attempt>>
    \/ /\ haiku # "confident"
       /\ "sonnet" \in Providers /\ CanCall("sonnet")'
       /\ Ask("sonnet")
       /\ blocked' = blockedSoFar
       /\ UNCHANGED deferrals
    \/ /\ haiku # "confident"
       /\ "sonnet" \notin Providers \/ ~CanCall("sonnet")'
       /\ blocked' = IF "sonnet" \in Providers THEN blockedSoFar + 1 ELSE blockedSoFar
       /\ deferrals' = IF haiku = NotAsked THEN deferrals + 1 ELSE deferrals
       /\ Return(IF haiku = NotAsked THEN Deferred ELSE haiku)
       /\ UNCHANGED attempt

\* Any other bundle goes to Haiku first, if Haiku may be called.
ReviewOrdinary ==
    /\ StartReview("ordinary")
    /\ UNCHANGED <<budget, skips, rows>>
    /\ \/ /\ "haiku" \in Providers /\ CanCall("haiku")
          /\ Ask("haiku")
          /\ UNCHANGED <<blocked, deferrals>>
       \/ /\ "haiku" \notin Providers \/ ~CanCall("haiku")
          /\ EscalateOrReturn(NotAsked,
                IF "haiku" \in Providers THEN blocked + 1 ELSE blocked)

\* One complete(): a first request, and the retries the SDK adds by itself.
Send(route) ==
    \E sent \in 1..(SdkRetries + 1) :
        requests' = [requests EXCEPT ![route] = @ + sent]

\* _attempt: complete() raised and another attempt is allowed.
RetryRequest ==
    /\ pc \in Routes
    /\ attempt + 1 < MaxAttempts
    /\ Send(pc)
    /\ attempt' = attempt + 1
    /\ UNCHANGED <<budget, tallies, logRows, pc, locals, review>>

\* Mutants of Record: a failed or a Sonnet call is not counted.
SonnetUncounted(route, spent) ==
    /\ calls' = calls + 1
    /\ UNCHANGED sonnetCalls
    /\ cost' = cost + spent

OnlyPaidCallsCounted(route, spent) ==
    /\ calls' = IF spent = 0 THEN calls ELSE calls + 1
    /\ sonnetCalls' = IF route = "sonnet" THEN sonnetCalls + 1 ELSE sonnetCalls
    /\ cost' = cost + spent

\* AiCallBudget.record, after the last attempt of a call.
Record(route, spent) ==
    /\ calls' = calls + 1
    /\ sonnetCalls' = IF route = "sonnet" THEN sonnetCalls + 1 ELSE sonnetCalls
    /\ cost' = cost + spent

\* The end of _attempt: the budget, the log row and its commit.
EndCall(route, spent) ==
    /\ pc = route
    /\ Send(route)
    /\ Record(route, spent)
    /\ logRows' = [logRows EXCEPT ![route] = @ + 1]

\* The last attempt of a call to Haiku: an answer, an unparseable one, an error.
HaikuAnswers(answer, spent) ==
    /\ EndCall("haiku", spent)
    /\ opinions' = [opinions EXCEPT !["haiku"] = answer]
    /\ EscalateOrReturn(answer, blocked)
    /\ UNCHANGED <<skips, bundle>>

\* Sonnet's answer wins; without one Haiku's stands, if Haiku was asked.
SonnetAnswers(answer, spent) ==
    /\ EndCall("sonnet", spent)
    /\ opinions' = [opinions EXCEPT !["sonnet"] = answer]
    /\ Return(IF answer = NoResult /\ opinions["haiku"] # NotAsked
              THEN opinions["haiku"] ELSE answer)
    /\ UNCHANGED <<tallies, attempt, bundle>>

\* Writing the log row fails: the exception leaves review_evidence.
LogFails(spent) ==
    /\ "database" \in Faults
    /\ pc \in Routes
    /\ Send(pc)
    /\ Record(pc, spent)
    /\ Return(Raised)
    /\ UNCHANGED <<tallies, logRows, attempt, locals>>

Next ==
    \/ SkipWeakBundle
    \/ ReviewHighImpact
    \/ ReviewOrdinary
    \/ RetryRequest
    \/ \E answer \in Results \cup {NoResult}, spent \in Costs :
          HaikuAnswers(answer, spent) \/ SonnetAnswers(answer, spent)
    \/ \E spent \in Costs : LogFails(spent)

Spec == Init /\ [][Next]_vars

-----------------------------------------------------------------------------
TypeOK ==
    /\ calls \in Nat /\ sonnetCalls \in Nat /\ cost \in Nat /\ attempt \in Nat
    /\ blocked \in Nat /\ deferrals \in Nat /\ skips \in Nat
    /\ logRows \in [Routes -> Nat] /\ requests \in [Routes -> Nat]
    /\ pc \in Routes \cup {"idle"}
    /\ opinions \in [Routes -> Opinions]
    /\ bundle \in {"none", "ordinary", "definitive"}
    /\ review \in Results \cup {NoResult, Deferred, Raised}

Within(used, limit) == IF limit = Unlimited THEN TRUE ELSE used <= limit

\* The limits on calls hold at every moment, and the cost exceeds its limit
\* by less than one call: can_call looks at the cost before a call, which may
\* then cost anything.
BudgetIsHard ==
    /\ Within(calls, MaxCalls)
    /\ Within(sonnetCalls, MaxSonnetCalls)
    /\ IF MaxCost = Unlimited THEN TRUE
       ELSE cost = 0 \/ \E c \in Costs : cost < MaxCost + c

\* What the provider is sent is bounded by the recorded calls: no sequence of
\* failures makes more than max_attempts times (1 + the SDK's retries) requests
\* per call of the budget, the attempts of a call under way included.
RequestsAreBounded ==
    requests["haiku"] + requests["sonnet"]
        <= (SdkRetries + 1) * (MaxAttempts * calls + (IF pc = "idle" THEN 0 ELSE attempt))

\* The module's own claim, "exactly one ai_call_log row per real API request"
\* (model_router.py:12).  No run checks it: a retry of either kind refutes it.
OneRowPerRequest == pc = "idle" => requests = logRows

\* Run-level reporting reads ai_call_log while the budget is in memory: the
\* log never shows more calls than the budget counted, in total or of Sonnet,
\* and no fewer unless writing a row failed.
LogMatchesBudget ==
    /\ logRows["haiku"] + logRows["sonnet"] <= calls
    /\ logRows["sonnet"] <= sonnetCalls
    /\ "database" \notin Faults => /\ logRows["haiku"] + logRows["sonnet"] = calls
                         /\ logRows["sonnet"] = sonnetCalls

\* A bundle of a definitive type is never judged by Haiku, whatever fails and
\* whatever an earlier bundle left behind.
NoHaikuVerdictOnDefinitive ==
    bundle = "definitive" => pc # "haiku" /\ opinions["haiku"] = NotAsked

Available(route) == route \in Providers /\ CanCall(route)

\* How a review that did not raise ended, over every path of review_evidence:
\* deferred exactly when the bundle is worth a review and nobody was asked (a
\* deferral never throws a paid answer away, and a weak bundle or a failed call
\* is never put off to be paid for again); otherwise with Sonnet's answer if it
\* has one, else with Haiku's, also when Sonnet is missing, blocked or failing.
\* And no route was passed over that could have been asked: the bundle stays
\* without Sonnet's opinion only if Haiku was sure of an ordinary one or Sonnet
\* could not be called, an ordinary one without Haiku's only if Haiku could not.
BestOpinionReturned ==
    pc = "idle" /\ review # Raised =>
        /\ review = Deferred <=>
              bundle # "none" /\ \A r \in Routes : opinions[r] = NotAsked
        /\ opinions["sonnet"] \in Results => review = opinions["sonnet"]
        /\ opinions["sonnet"] \notin Results /\ opinions["haiku"] \in Results
              => review = opinions["haiku"]
        /\ review \in Results => \E r \in Routes : review = opinions[r]
        /\ opinions["haiku"] = "confident" => opinions["sonnet"] = NotAsked
        /\ bundle # "none" /\ opinions["sonnet"] = NotAsked /\ Available("sonnet")
              => opinions["haiku"] = "confident"
        /\ bundle = "ordinary" /\ opinions["haiku"] = NotAsked => ~Available("haiku")
=============================================================================
