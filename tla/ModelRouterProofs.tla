------------------------- MODULE ModelRouterProofs -------------------------
(***************************************************************************)
(* The budget of the model router holds for every limit, every number of   *)
(* requests per call and every sequence of answers and failures.  The      *)
(* strengthening says what can_call left behind: while a model is being    *)
(* asked, there is still room in the budget for that call, and how the     *)
(* review came to ask it.                                                  *)
(***************************************************************************)
EXTENDS ModelRouter, TLAPS

CallInProgress ==
    pc # "idle" =>
        /\ pc \in Providers /\ CanCall(pc) /\ attempt < MaxAttempts
        /\ bundle # "none" /\ opinions[pc] = NotAsked
        /\ pc = "haiku" => bundle = "ordinary" /\ opinions["sonnet"] = NotAsked
        /\ pc = "sonnet" => opinions["haiku"] # "confident"
        /\ pc = "sonnet" /\ bundle = "ordinary" /\ opinions["haiku"] = NotAsked
              => ~Available("haiku")

RouterInv ==
    /\ TypeOK
    /\ CallInProgress
    /\ BudgetIsHard
    /\ RequestsAreBounded
    /\ LogMatchesBudget
    /\ NoHaikuVerdictOnDefinitive
    /\ BestOpinionReturned

\* Recording a call that can_call allowed keeps every limit.
LEMMA RecordKeepsBudget ==
    ASSUME TypeOK, BudgetIsHard, NEW route \in Routes, CanCall(route),
           NEW spent \in Costs, Record(route, spent)
    PROVE  BudgetIsHard' /\ calls' \in Nat /\ sonnetCalls' \in Nat /\ cost' \in Nat
<1>1. calls \in Nat /\ sonnetCalls \in Nat /\ cost \in Nat /\ spent \in Nat
  BY RouterAssumption DEF TypeOK
<1>2. calls' \in Nat /\ sonnetCalls' \in Nat /\ cost' \in Nat
  BY <1>1 DEF Record
<1>3. Within(calls, MaxCalls)'
  BY <1>1, RouterAssumption DEF Record, CanCall, Below, Within
<1>4. Within(sonnetCalls, MaxSonnetCalls)'
  BY <1>1, RouterAssumption DEF Record, CanCall, Below, Within, BudgetIsHard
<1>5. CASE MaxCost = Unlimited
  BY <1>2, <1>3, <1>4, <1>5 DEF BudgetIsHard
<1>6. CASE MaxCost # Unlimited
  <2>1. cost < MaxCost /\ MaxCost \in Nat
    BY <1>6, RouterAssumption DEF CanCall, Below
  <2>2. cost + spent < MaxCost + spent
    BY <1>1, <2>1
  <2> QED
    BY <1>2, <1>3, <1>4, <1>6, <2>2 DEF BudgetIsHard, Record
<1> QED
  BY <1>5, <1>6

\* A route that could not be called cannot be called later either.
LEMMA RecordKeepsClosed ==
    ASSUME TypeOK, NEW route \in Routes, NEW spent \in Costs, Record(route, spent),
           NEW other \in Routes, ~Available(other)
    PROVE  ~Available(other)'
<1>1. calls \in Nat /\ sonnetCalls \in Nat /\ cost \in Nat /\ spent \in Nat
  BY RouterAssumption DEF TypeOK
<1>2. calls' >= calls /\ sonnetCalls' >= sonnetCalls /\ cost' >= cost
  BY <1>1 DEF Record
<1>3. calls' \in Nat /\ sonnetCalls' \in Nat /\ cost' \in Nat
  BY <1>1 DEF Record
<1> QED
  BY <1>1, <1>2, <1>3, RouterAssumption DEF Available, CanCall, Below

\* A complete() sends between one request and one more than the SDK's retries.
LEMMA SendStep ==
    ASSUME TypeOK, NEW route \in Routes, Send(route)
    PROVE  /\ requests' \in [Routes -> Nat]
           /\ requests'["haiku"] + requests'["sonnet"]
                 <= requests["haiku"] + requests["sonnet"] + (SdkRetries + 1)
<1>1. PICK sent \in 1..(SdkRetries + 1) : requests' = [requests EXCEPT ![route] = @ + sent]
  BY DEF Send
<1>2. sent \in Nat /\ sent <= SdkRetries + 1 /\ SdkRetries \in Nat
  BY RouterAssumption
<1>3. requests \in [Routes -> Nat]
  BY DEF TypeOK
<1>4. requests' \in [Routes -> Nat]
  BY <1>1, <1>2, <1>3 DEF Routes
<1>5. requests'["haiku"] + requests'["sonnet"] = requests["haiku"] + requests["sonnet"] + sent
  BY <1>1, <1>2, <1>3 DEF Routes
<1> QED
  BY <1>2, <1>3, <1>4, <1>5 DEF Routes

\* The bound on the requests moves by one complete() per attempt.
LEMMA OneAttemptMore ==
    ASSUME NEW x \in Nat, NEW y \in Nat, x < y
    PROVE  /\ (SdkRetries + 1) * x \in Nat
           /\ (SdkRetries + 1) * (x + 1) = (SdkRetries + 1) * x + (SdkRetries + 1)
           /\ (SdkRetries + 1) * (x + 1) <= (SdkRetries + 1) * y
<1>1. SdkRetries + 1 \in Nat
  BY RouterAssumption
<1>2. PICK p \in Nat : p = SdkRetries + 1
  BY <1>1
<1>3. PICK d \in Nat : y = x + 1 + d
  <2>1. y - (x + 1) \in Nat /\ y = x + 1 + (y - (x + 1))
    OBVIOUS
  <2> QED
    BY <2>1
<1>4. p * (x + 1) = p * x + p /\ p * x \in Nat
  OBVIOUS
<1>5. p * y = p * (x + 1) + p * d /\ p * d \in Nat /\ p * (x + 1) \in Nat
  BY <1>3
<1> QED
  BY <1>2, <1>4, <1>5

\* The last attempt of a call under way keeps the requests within their bound.
LEMMA LastAttempt ==
    ASSUME RouterInv, NEW route \in Routes, pc = route, Send(route), calls' = calls + 1
    PROVE  /\ requests' \in [Routes -> Nat]
           /\ requests'["haiku"] + requests'["sonnet"]
                 <= (SdkRetries + 1) * (MaxAttempts * calls')
<1>1. /\ TypeOK /\ calls \in Nat /\ attempt \in Nat /\ MaxAttempts \in Nat /\ SdkRetries \in Nat
      /\ attempt < MaxAttempts /\ pc # "idle"
  BY RouterAssumption DEF RouterInv, TypeOK, CallInProgress, Routes
<1>2. PICK x \in Nat : x = MaxAttempts * calls + attempt
  BY <1>1
<1>3. PICK y \in Nat : y = MaxAttempts * calls'
  BY <1>1
<1>4. x < y
  <2>1. MaxAttempts * (calls + 1) = MaxAttempts * calls + MaxAttempts /\ MaxAttempts * calls \in Nat
    BY <1>1
  <2> QED
    BY <1>1, <1>2, <1>3, <2>1
<1>5. requests["haiku"] + requests["sonnet"] <= (SdkRetries + 1) * x
  BY <1>1, <1>2 DEF RouterInv, RequestsAreBounded
<1>6. /\ requests' \in [Routes -> Nat]
      /\ requests'["haiku"] + requests'["sonnet"]
            <= requests["haiku"] + requests["sonnet"] + (SdkRetries + 1)
  BY <1>1, SendStep
<1>7. /\ requests'["haiku"] \in Nat /\ requests'["sonnet"] \in Nat
      /\ requests["haiku"] \in Nat /\ requests["sonnet"] \in Nat
  BY <1>1, <1>6 DEF TypeOK, Routes
<1>8. /\ (SdkRetries + 1) * x \in Nat
      /\ (SdkRetries + 1) * (x + 1) = (SdkRetries + 1) * x + (SdkRetries + 1)
      /\ (SdkRetries + 1) * (x + 1) <= (SdkRetries + 1) * y
  BY <1>4, OneAttemptMore
<1>9. PICK low \in Nat, high \in Nat : low = (SdkRetries + 1) * x /\ high = (SdkRetries + 1) * y
  BY <1>1, <1>8
<1>10. requests'["haiku"] + requests'["sonnet"] <= high
  BY <1>1, <1>5, <1>6, <1>7, <1>8, <1>9
<1> QED
  BY <1>3, <1>6, <1>9, <1>10

\* The end of a call: what EndCall does to the budget, the log and the requests.
LEMMA EndCallStep ==
    ASSUME RouterInv, NEW route \in Routes, NEW spent \in Costs, EndCall(route, spent)
    PROVE  /\ BudgetIsHard' /\ calls' \in Nat /\ sonnetCalls' \in Nat /\ cost' \in Nat
           /\ logRows' \in [Routes -> Nat] /\ requests' \in [Routes -> Nat]
           /\ requests'["haiku"] + requests'["sonnet"]
                 <= (SdkRetries + 1) * (MaxAttempts * calls')
           /\ LogMatchesBudget'
<1>1. CanCall(route) /\ attempt < MaxAttempts /\ pc = route /\ route # "idle"
  BY DEF EndCall, RouterInv, CallInProgress, Routes
<1>2. BudgetIsHard' /\ calls' \in Nat /\ sonnetCalls' \in Nat /\ cost' \in Nat
  BY <1>1, RecordKeepsBudget DEF EndCall, RouterInv
<1>3. /\ logRows' = [logRows EXCEPT ![route] = @ + 1]
      /\ calls' = calls + 1
      /\ sonnetCalls' = IF route = "sonnet" THEN sonnetCalls + 1 ELSE sonnetCalls
  BY DEF EndCall, Record
<1>4. /\ logRows \in [Routes -> Nat] /\ calls \in Nat /\ sonnetCalls \in Nat
  BY DEF RouterInv, TypeOK
<1>5. logRows' \in [Routes -> Nat]
  BY <1>3, <1>4 DEF Routes
<1>6. /\ requests' \in [Routes -> Nat]
      /\ requests'["haiku"] + requests'["sonnet"]
            <= (SdkRetries + 1) * (MaxAttempts * calls')
  BY <1>1, <1>3, LastAttempt DEF EndCall
<1>7. LogMatchesBudget'
  BY <1>3, <1>4 DEF RouterInv, LogMatchesBudget, Routes
<1> QED
  BY <1>2, <1>5, <1>6, <1>7

LEMMA RouterInvInit == Init => RouterInv
<1> SUFFICES ASSUME Init PROVE RouterInv
  OBVIOUS
<1>1. RequestsAreBounded
  <2>1. MaxAttempts * 0 = 0 /\ (SdkRetries + 1) * 0 = 0
    BY RouterAssumption
  <2> QED
    BY <2>1 DEF Init, RequestsAreBounded, Routes
<1>2. BestOpinionReturned
  BY DEF Init, BestOpinionReturned, Routes, Results, NoResult, NotAsked, Deferred, Raised
<1>3. TypeOK /\ CallInProgress /\ NoHaikuVerdictOnDefinitive
  BY DEF Init, TypeOK, CallInProgress, NoHaikuVerdictOnDefinitive, Routes, Opinions
<1>4. BudgetIsHard /\ LogMatchesBudget
  BY RouterAssumption DEF Init, BudgetIsHard, LogMatchesBudget, Within, Routes
<1> QED
  BY <1>1, <1>2, <1>3, <1>4 DEF RouterInv

\* Between calls: a review is opened and ends at once, or asks a route.
LEMMA OpeningStep ==
    ASSUME RouterInv, UNCHANGED <<budget, rows>>, pc = "idle",
           pc' = "idle" \/ attempt' = 0
    PROVE  BudgetIsHard' /\ RequestsAreBounded' /\ LogMatchesBudget'
<1>1. calls \in Nat /\ MaxAttempts * calls \in Nat
  BY RouterAssumption DEF RouterInv, TypeOK
<1>2. RequestsAreBounded'
  <2>1. IF pc' = "idle" THEN TRUE ELSE attempt' = 0
    OBVIOUS
  <2>2. MaxAttempts * calls' + (IF pc' = "idle" THEN 0 ELSE attempt') = MaxAttempts * calls
    BY <1>1, <2>1 DEF budget
  <2>3. MaxAttempts * calls + (IF pc = "idle" THEN 0 ELSE attempt) = MaxAttempts * calls
    BY <1>1
  <2> QED
    BY <2>2, <2>3 DEF RouterInv, RequestsAreBounded, rows, budget
<1> QED
  BY <1>2 DEF RouterInv, BudgetIsHard, LogMatchesBudget, Within, budget, rows

LEMMA RouterInvStep == RouterInv /\ [Next]_vars => RouterInv'
<1> SUFFICES ASSUME RouterInv, [Next]_vars PROVE RouterInv'
  OBVIOUS
<1> USE RouterAssumption DEF RouterInv
<1>0. MaxAttempts \in Nat /\ 0 < MaxAttempts /\ "sonnet" # "haiku" /\ "sonnet" # "idle"
  BY RouterAssumption
<1>1. CASE SkipWeakBundle
  <2>1. BudgetIsHard' /\ RequestsAreBounded' /\ LogMatchesBudget'
    BY <1>1, OpeningStep DEF SkipWeakBundle, StartReview, Return, MayReview, Routes
  <2>2. BestOpinionReturned'
    BY <1>1 DEF SkipWeakBundle, StartReview, Return, BestOpinionReturned, Routes, Results,
       NoResult, NotAsked, Deferred, Raised
  <2> QED
    BY <1>1, <2>1, <2>2 DEF SkipWeakBundle, StartReview, Return, MayReview, budget, rows, TypeOK,
       CallInProgress, NoHaikuVerdictOnDefinitive, Routes, Results, Opinions
<1>2. CASE ReviewHighImpact
  <2>1. BudgetIsHard' /\ RequestsAreBounded' /\ LogMatchesBudget'
    BY <1>2, OpeningStep DEF ReviewHighImpact, StartReview, Ask, Return, MayReview, Routes, budget,
       CanCall
  <2>2. BestOpinionReturned'
    BY <1>2 DEF ReviewHighImpact, StartReview, Ask, Return, BestOpinionReturned, Available,
       CanCall, budget, Routes, Results, NoResult, NotAsked, Deferred, Raised
  <2>3. CallInProgress'
    BY <1>0, <1>2 DEF ReviewHighImpact, StartReview, Ask, Return, CallInProgress, CanCall, budget, Routes, NotAsked
  <2> QED
    BY <1>2, <2>1, <2>2, <2>3 DEF ReviewHighImpact, StartReview, Ask, Return, MayReview, budget, rows,
       TypeOK, NoHaikuVerdictOnDefinitive, Routes, Results, Opinions, Deferred
<1>3. CASE ReviewOrdinary
  <2>1. CASE "haiku" \in Providers /\ CanCall("haiku") /\ Ask("haiku") /\ UNCHANGED <<blocked, deferrals>>
    <3>1. BudgetIsHard' /\ RequestsAreBounded' /\ LogMatchesBudget'
      BY <1>3, <2>1, OpeningStep DEF ReviewOrdinary, StartReview, Ask, MayReview, Routes, budget, CanCall
    <3>2. CallInProgress'
      BY <1>3, <2>1 DEF ReviewOrdinary, StartReview, Ask, CallInProgress, CanCall, budget, Routes
    <3> QED
      BY <1>3, <2>1, <3>1, <3>2 DEF ReviewOrdinary, StartReview, Ask, budget, rows,
         TypeOK, NoHaikuVerdictOnDefinitive, BestOpinionReturned, Routes, Results, Opinions
  <2>2. ASSUME "haiku" \notin Providers \/ ~CanCall("haiku"),
               EscalateOrReturn(NotAsked, IF "haiku" \in Providers THEN blocked + 1 ELSE blocked)
        PROVE  RouterInv'
    <3>1. /\ bundle' = "ordinary" /\ opinions' = [r \in Routes |-> NotAsked]
          /\ UNCHANGED <<budget, skips, rows>> /\ pc = "idle"
      BY <1>3 DEF ReviewOrdinary, StartReview, MayReview
    <3>2. ~Available("haiku")'
      BY <2>2, <3>1 DEF Available, CanCall, budget
    <3>3. CASE "sonnet" \in Providers /\ CanCall("sonnet")' /\ Ask("sonnet")
      <4>1. BudgetIsHard' /\ RequestsAreBounded' /\ LogMatchesBudget'
        BY <3>1, <3>3, OpeningStep DEF Ask, Routes
      <4>2. CallInProgress'
        BY <1>0, <3>1, <3>2, <3>3 DEF Ask, CallInProgress, CanCall, Routes, NotAsked
      <4>3. blocked' \in Nat /\ deferrals' \in Nat
        BY <2>2, <3>1, <3>3 DEF EscalateOrReturn, TypeOK
      <4>4. NoHaikuVerdictOnDefinitive' /\ BestOpinionReturned'
        BY <3>1, <3>3 DEF Ask, NoHaikuVerdictOnDefinitive, BestOpinionReturned, Routes
      <4> QED
        BY <3>1, <3>3, <4>1, <4>2, <4>3, <4>4 DEF Ask, budget, rows, TypeOK, Routes, Opinions
    <3>4. CASE ~Available("sonnet")' /\ Return(Deferred) /\ UNCHANGED attempt
      <4>1. BudgetIsHard' /\ RequestsAreBounded' /\ LogMatchesBudget'
        BY <3>1, <3>4, OpeningStep DEF Return, Routes
      <4>2. BestOpinionReturned'
        BY <3>1, <3>2, <3>4 DEF Return, BestOpinionReturned, Routes, Results, NotAsked, NoResult,
           Deferred, Raised
      <4> QED
        BY <2>2, <3>1, <3>4, <4>1, <4>2 DEF EscalateOrReturn, Return, Ask, budget, rows, TypeOK,
           CallInProgress, NoHaikuVerdictOnDefinitive, Routes, Results, Opinions
    <3> QED
      BY <2>2, <3>3, <3>4 DEF EscalateOrReturn, Available, NotAsked
  <2> QED
    BY <1>3, <2>1, <2>2 DEF ReviewOrdinary
<1>4. CASE RetryRequest
  <2>1. pc \in Routes /\ pc # "idle" /\ attempt + 1 < MaxAttempts /\ calls \in Nat /\ attempt \in Nat
    BY <1>4 DEF RetryRequest, Routes, TypeOK
  <2>2. /\ requests' \in [Routes -> Nat]
        /\ requests'["haiku"] + requests'["sonnet"]
              <= requests["haiku"] + requests["sonnet"] + (SdkRetries + 1)
    BY <1>4, <2>1, SendStep DEF RetryRequest
  <2>3. PICK x \in Nat : x = MaxAttempts * calls + attempt
    BY <2>1
  <2>4. x + 1 = MaxAttempts * calls' + attempt' /\ pc' = pc
    BY <1>4, <2>1, <2>3 DEF RetryRequest, budget
  <2>5. (SdkRetries + 1) * x \in Nat
        /\ (SdkRetries + 1) * (x + 1) = (SdkRetries + 1) * x + (SdkRetries + 1)
    <3>1. x + 1 \in Nat /\ x < x + 1
      OBVIOUS
    <3> QED
      BY <3>1, OneAttemptMore
  <2>6. requests["haiku"] + requests["sonnet"] <= (SdkRetries + 1) * x
    BY <2>1, <2>3 DEF RequestsAreBounded
  <2>7. requests'["haiku"] + requests'["sonnet"] <= (SdkRetries + 1) * (x + 1)
    <3>1. /\ requests["haiku"] \in Nat /\ requests["sonnet"] \in Nat
          /\ requests'["haiku"] \in Nat /\ requests'["sonnet"] \in Nat
      BY <2>2 DEF TypeOK, Routes
    <3>2. PICK low \in Nat, high \in Nat : low = (SdkRetries + 1) * x /\ high = (SdkRetries + 1) * (x + 1)
      BY <2>5
    <3> QED
      BY <2>2, <2>5, <2>6, <3>1, <3>2
  <2>8. RequestsAreBounded'
    BY <2>1, <2>4, <2>7 DEF RequestsAreBounded
  <2> QED
    BY <1>4, <2>1, <2>2, <2>8 DEF RetryRequest, budget, tallies, locals, TypeOK, CallInProgress,
       BudgetIsHard, LogMatchesBudget, NoHaikuVerdictOnDefinitive, CanCall, Within, Below,
       Available, BestOpinionReturned
<1>5. ASSUME NEW answer \in Results \cup {NoResult}, NEW spent \in Costs,
             HaikuAnswers(answer, spent)
      PROVE  RouterInv'
  <2>1. /\ BudgetIsHard' /\ calls' \in Nat /\ sonnetCalls' \in Nat /\ cost' \in Nat
        /\ logRows' \in [Routes -> Nat] /\ requests' \in [Routes -> Nat]
        /\ requests'["haiku"] + requests'["sonnet"]
              <= (SdkRetries + 1) * (MaxAttempts * calls')
        /\ LogMatchesBudget'
    BY <1>5, EndCallStep DEF HaikuAnswers, Routes
  <2>2. pc = "haiku" /\ bundle' = bundle /\ bundle = "ordinary" /\ opinions["sonnet"] = NotAsked
    BY <1>5 DEF HaikuAnswers, EndCall, CallInProgress
  <2>3. /\ opinions' = [opinions EXCEPT !["haiku"] = answer]
        /\ EscalateOrReturn(answer, blocked)
        /\ opinions \in [Routes -> Opinions]
        /\ answer # NotAsked
    BY <1>5 DEF HaikuAnswers, TypeOK, Results, NoResult, NotAsked
  <2>4. /\ opinions' \in [Routes -> Opinions]
        /\ opinions'["haiku"] = answer /\ opinions'["sonnet"] = NotAsked
    BY <2>2, <2>3 DEF Routes, Opinions
  <2>5. /\ pc' \in {"idle", "sonnet"}
        /\ pc' = "sonnet" => "sonnet" \in Providers /\ CanCall("sonnet")' /\ attempt' = 0
                             /\ answer # "confident"
        /\ pc' = "idle" => review' = answer
                           /\ (answer = "confident" \/ ~Available("sonnet")')
        /\ review' \in Results \cup {NoResult, Deferred, Raised}
        /\ blocked' \in Nat /\ deferrals' \in Nat /\ attempt' \in Nat
    BY <2>3 DEF EscalateOrReturn, Ask, Return, TypeOK, Available
  <2>6. RequestsAreBounded'
    <3>1. MaxAttempts * calls' \in Nat
      <4>1. PICK n \in Nat : n = calls'
        BY <2>1
      <4>2. MaxAttempts * n \in Nat
        BY <1>0
      <4> QED
        BY <4>1, <4>2
    <3>2. MaxAttempts * calls' + (IF pc' = "idle" THEN 0 ELSE attempt') = MaxAttempts * calls'
      BY <2>5, <3>1
    <3> QED
      BY <2>1, <3>2 DEF RequestsAreBounded
  <2>7. CallInProgress'
    BY <2>2, <2>3, <2>4, <2>5 DEF CallInProgress
  <2>8. BestOpinionReturned'
    BY <2>2, <2>3, <2>4, <2>5 DEF BestOpinionReturned, Routes, Results, NotAsked, NoResult, Deferred, Raised
  <2> QED
    BY <1>5, <2>1, <2>2, <2>4, <2>5, <2>6, <2>7, <2>8 DEF HaikuAnswers, TypeOK,
       NoHaikuVerdictOnDefinitive, Routes
<1>6. ASSUME NEW answer \in Results \cup {NoResult}, NEW spent \in Costs,
             SonnetAnswers(answer, spent)
      PROVE  RouterInv'
  <2>1. /\ BudgetIsHard' /\ calls' \in Nat /\ sonnetCalls' \in Nat /\ cost' \in Nat
        /\ logRows' \in [Routes -> Nat] /\ requests' \in [Routes -> Nat]
        /\ requests'["haiku"] + requests'["sonnet"]
              <= (SdkRetries + 1) * (MaxAttempts * calls')
        /\ LogMatchesBudget'
    BY <1>6, EndCallStep DEF SonnetAnswers, Routes
  <2>2. /\ pc = "sonnet" /\ pc' = "idle" /\ UNCHANGED <<tallies, attempt, bundle>>
        /\ opinions' = [opinions EXCEPT !["sonnet"] = answer]
        /\ review' = IF answer = NoResult /\ opinions["haiku"] # NotAsked
                     THEN opinions["haiku"] ELSE answer
        /\ opinions \in [Routes -> Opinions]
    BY <1>6 DEF SonnetAnswers, EndCall, Return, TypeOK
  <2>3. /\ opinions' \in [Routes -> Opinions] /\ opinions'["sonnet"] = answer
        /\ opinions'["haiku"] = opinions["haiku"] /\ opinions["haiku"] \in Opinions
        /\ review' \in Results \cup {NoResult}
    BY <2>2 DEF Routes, Opinions
  <2>4. RequestsAreBounded'
    <3>1. MaxAttempts * calls' \in Nat
      <4>1. PICK n \in Nat : n = calls'
        BY <2>1
      <4>2. MaxAttempts * n \in Nat
        BY <1>0
      <4> QED
        BY <4>1, <4>2
    <3>2. MaxAttempts * calls' + (IF pc' = "idle" THEN 0 ELSE attempt') = MaxAttempts * calls'
      BY <2>2, <3>1
    <3> QED
      BY <2>1, <3>2 DEF RequestsAreBounded
  <2>5. opinions["haiku"] # "confident"
    BY <2>2 DEF CallInProgress
  <2>6. bundle' = "ordinary" /\ opinions'["haiku"] = NotAsked => ~Available("haiku")'
    <3>1. ASSUME bundle' = "ordinary", opinions'["haiku"] = NotAsked PROVE ~Available("haiku")'
      <4>1. ~Available("haiku")
        BY <2>2, <2>3, <3>1 DEF CallInProgress
      <4>2. Record("sonnet", spent) /\ "sonnet" \in Routes /\ "haiku" \in Routes
        BY <1>6 DEF SonnetAnswers, EndCall, Routes
      <4> QED
        BY <4>1, <4>2, RecordKeepsClosed
    <3> QED
      BY <3>1
  <2>7. BestOpinionReturned'
    BY <2>2, <2>3, <2>5, <2>6 DEF BestOpinionReturned, Routes, Results, NotAsked, NoResult, Deferred,
       Raised, Opinions
  <2> QED
    BY <2>1, <2>2, <2>3, <2>4, <2>7 DEF TypeOK, CallInProgress, NoHaikuVerdictOnDefinitive, tallies
<1>7. ASSUME NEW spent \in Costs, LogFails(spent)
      PROVE  RouterInv'
  <2>1. pc \in Routes /\ CanCall(pc) /\ "database" \in Faults
    BY <1>7 DEF LogFails, CallInProgress, Routes
  <2>2. BudgetIsHard' /\ calls' \in Nat /\ sonnetCalls' \in Nat /\ cost' \in Nat
    BY <1>7, <2>1, RecordKeepsBudget DEF LogFails
  <2>3. /\ calls' = calls + 1 /\ pc' = "idle" /\ logRows' = logRows /\ review' = Raised
        /\ sonnetCalls' \in {sonnetCalls, sonnetCalls + 1}
        /\ UNCHANGED <<tallies, attempt, locals>>
    BY <1>7 DEF LogFails, Record, Return
  <2>4. /\ requests' \in [Routes -> Nat]
        /\ requests'["haiku"] + requests'["sonnet"]
              <= (SdkRetries + 1) * (MaxAttempts * calls')
    BY <1>7, <2>1, <2>3, LastAttempt DEF LogFails
  <2>5. RequestsAreBounded'
    <3>1. MaxAttempts * calls' \in Nat
      <4>1. PICK n \in Nat : n = calls'
        BY <2>2
      <4>2. MaxAttempts * n \in Nat
        BY <1>0
      <4> QED
        BY <4>1, <4>2
    <3>2. MaxAttempts * calls' + (IF pc' = "idle" THEN 0 ELSE attempt') = MaxAttempts * calls'
      BY <2>3, <3>1
    <3> QED
      BY <2>4, <3>2 DEF RequestsAreBounded
  <2>6. LogMatchesBudget'
    BY <2>1, <2>3 DEF LogMatchesBudget, TypeOK, Routes
  <2> QED
    BY <2>2, <2>3, <2>4, <2>5, <2>6 DEF TypeOK, CallInProgress, NoHaikuVerdictOnDefinitive,
       BestOpinionReturned, tallies, locals
<1>8. CASE UNCHANGED vars
  BY <1>8 DEF vars, budget, tallies, rows, locals, TypeOK, CallInProgress, BudgetIsHard,
     RequestsAreBounded, LogMatchesBudget, NoHaikuVerdictOnDefinitive, BestOpinionReturned,
     Available, CanCall, Within, Below
<1> QED
  BY <1>1, <1>2, <1>3, <1>4, <1>5, <1>6, <1>7, <1>8 DEF Next

\* The inductive invariant of the router.
THEOREM RouterInvariant == Spec => []RouterInv
BY RouterInvInit, RouterInvStep, PTL DEF Spec

\* The limits on calls are never exceeded, the cost by less than one call.
THEOREM BudgetHolds == Spec => []BudgetIsHard
BY RouterInvariant, PTL DEF RouterInv

\* Whatever fails, a recorded call stands for at most max_attempts complete()s,
\* each of at most one request more than the SDK retries.
THEOREM RequestsBounded == Spec => []RequestsAreBounded
BY RouterInvariant, PTL DEF RouterInv

\* Every counted call has its log row unless writing the row failed.
THEOREM LogAgrees == Spec => []LogMatchesBudget
BY RouterInvariant, PTL DEF RouterInv

\* Haiku never judges a bundle of a definitive type.
THEOREM DefinitiveGoesToSonnet == Spec => []NoHaikuVerdictOnDefinitive
BY RouterInvariant, PTL DEF RouterInv

\* Every review that does not raise ends with the best opinion to be had, and
\* without one is deferred exactly when nobody could be asked.
THEOREM BestOpinion == Spec => []BestOpinionReturned
BY RouterInvariant, PTL DEF RouterInv
=============================================================================
