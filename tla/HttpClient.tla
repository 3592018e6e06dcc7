------------------------------ MODULE HttpClient ------------------------------
(* The throttled HTTP client every provider adapter goes through: an interval *)
(* between requests, and for CourtListener a bounded number of retries with a *)
(* ceiling on any one wait.  The client is synchronous: one call at a time.   *)
EXTENDS Integers

CONSTANTS
    MinInterval,        \* min_interval_seconds
    MaxRetries,         \* max_retries: retry_on_status is the status "throttled"
    DefaultRetryAfter,  \* default_retry_after_seconds
    MaxRetryAfter,      \* max_retry_after_seconds
    Timeout,            \* longest answer: after it the request raises
    MaxAsked,           \* bound: longest Retry-After a server names
    MaxClock            \* bound: seconds observed

ASSUME HttpAssumption ==
    /\ MinInterval \in Nat /\ MaxRetries \in Nat /\ Timeout \in Nat
    /\ DefaultRetryAfter \in Nat /\ MaxRetryAfter \in Nat
    /\ MaxAsked \in Nat /\ MaxClock \in Nat

VARIABLES
    clock,          \* seconds
    lastRequestAt,  \* {} or the second of the last request
    phase,          \* idle, throttling, sent, sleeping
    method,         \* of the call: get or post
    attempt,        \* retries so far
    startedAt,      \* when the call began
    wakeAt          \* end of the sleep the call is in

httpVars == <<clock, lastRequestAt, phase, method, attempt, startedAt, wakeAt>>

HttpInit ==
    /\ clock = 0 /\ lastRequestAt = {}
    /\ phase = "idle" /\ method = "get"
    /\ attempt = 0 /\ startedAt = 0 /\ wakeAt = 0

\* When _throttle lets the next request go.
Unthrottled == IF \E t \in lastRequestAt : t + MinInterval > clock
               THEN (CHOOSE t \in lastRequestAt : t + MinInterval > clock) + MinInterval
               ELSE clock

Call(m) ==
    /\ phase = "idle"
    /\ phase' = "throttling" /\ method' = m /\ attempt' = 0
    /\ startedAt' = clock /\ wakeAt' = Unthrottled
    /\ UNCHANGED <<clock, lastRequestAt>>

Send ==
    /\ phase = "throttling" /\ clock >= wakeAt
    /\ phase' = "sent" /\ lastRequestAt' = {clock}
    /\ UNCHANGED <<clock, method, attempt, startedAt, wakeAt>>

\* A success, a status that is not retried, a transport error, a timeout.
Return ==
    /\ phase = "sent" /\ phase' = "idle"
    /\ UNCHANGED <<clock, lastRequestAt, method, attempt, startedAt, wakeAt>>

\* Retry-After is seconds or a date, possibly a date gone by; a header that is
\* missing or unreadable counts as the default.
Headers == [form : {"seconds", "date"}, n : 0..MaxAsked] \cup [form : {"none", "unreadable"}]

RetryAfterSeconds(header) ==
    CASE header.form = "seconds" -> header.n
      [] header.form = "date" -> IF header.n > clock THEN header.n - clock ELSE 0
      [] header.form \in {"none", "unreadable"} -> DefaultRetryAfter

NeverTooLong(wait) == FALSE
TooLong(wait) == wait > MaxRetryAfter

\* The status retried.  post_json has no retries; the last attempt raises.
Throttled(header) ==
    /\ phase = "sent" /\ method = "get" /\ attempt < MaxRetries
    /\ LET wait == RetryAfterSeconds(header)
       IN IF TooLong(wait) THEN phase' = "idle" /\ UNCHANGED wakeAt
          ELSE phase' = "sleeping" /\ wakeAt' = clock + wait
    /\ UNCHANGED <<clock, lastRequestAt, method, attempt, startedAt>>

Retry ==
    /\ phase = "sleeping" /\ clock >= wakeAt
    /\ phase' = "throttling" /\ attempt' = attempt + 1 /\ wakeAt' = Unthrottled
    /\ UNCHANGED <<clock, lastRequestAt, method, startedAt>>

\* A sleep ends when it is due; an answer comes within the timeout.
Tick ==
    /\ clock < MaxClock
    /\ phase \in {"throttling", "sleeping"} => clock < wakeAt
    /\ phase = "sent" => \A t \in lastRequestAt : clock < t + Timeout
    /\ clock' = clock + 1
    /\ UNCHANGED <<lastRequestAt, phase, method, attempt, startedAt, wakeAt>>

HttpNext == \/ \E m \in {"get", "post"} : Call(m)
            \/ \E header \in Headers : Throttled(header)
            \/ Send \/ Return \/ Retry \/ Tick
HttpSpec == HttpInit /\ [][HttpNext]_httpVars

(***************************************************************************)
(* Properties                                                              *)
(***************************************************************************)
\* The longest a call that has been retried n times can have run.
Budget(n) == (n + 1) * (MinInterval + Timeout) + n * MaxRetryAfter

(* A call, with its throttling, its answers and all its waits, is over within *)
(* a time the settings determine, whatever the server asks for in its         *)
(* Retry-After headers.                                                       *)
CallTimeBounded == phase # "idle" => clock - startedAt <= Budget(MaxRetries)

(* Requests stay an interval apart, across retries and calls, and a retry goes *)
(* out only when the wait asked for is over.                                   *)
Paced == lastRequestAt' # lastRequestAt =>
            \A t \in lastRequestAt' : /\ \A s \in lastRequestAt : t - s >= MinInterval
                                      /\ t >= wakeAt

(* The client keeps its pace, and never keeps its caller longer than bounded: *)
(* each step leaves the call in its time and sends a request only when due.   *)
PoliteClient == [][CallTimeBounded' /\ Paced]_httpVars
=============================================================================
