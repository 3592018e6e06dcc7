----------------------------- MODULE ResearchDesk -----------------------------
(* The pages an analyst reads: the Morning Research Brief, a watchlist, an     *)
(* issuer's timeline, a page of alerts and the tiles above it.  A page is       *)
(* assembled from several queries; each sees what is committed when it runs,    *)
(* and runs finish, alerts are raised and settled, and lists change between.    *)
EXTENDS Integers, Sequences, FiniteSetsExt, TLC

CONSTANTS
    Alerts,         \* alerts a run may raise: issuer, asOf, category, severity, subject
    Issuers,
    FirstWeekday,   \* weekday of day 0, Monday being 0
    LastDay,        \* bound: days observed
    PageSize,       \* rows of a page
    Scenarios,     \* bound: sets of pages and events that occur in one behaviour
    MaxRuns,        \* bound: runs of the two pipelines
    MaxLag          \* bound: days from the day a run represents to its start

ASSUME DeskAssumption ==
    /\ FirstWeekday \in 0..6 /\ LastDay \in Nat /\ MaxRuns \in Nat /\ MaxLag \in Nat /\ PageSize \in Nat \ {0}
    /\ \A a \in Alerts : a.issuer \in Issuers /\ a.asOf \in 0..LastDay

VARIABLES
    scenario,      \* the pages and events that occur
    date,          \* America/New_York
    runs,           \* filing_monitor_run and market_discovery_run, as started
    book,           \* alert_event: status and the day it was triggered
    members,        \* issuers of the universe and of the watchlist
    view,           \* the page being assembled: what is left to ask, and what was read
    screen,         \* the last page assembled
    latestSince,    \* history: every latest daily run there was since the view began
    newOn           \* history: research days whose brief listed an alert as new

deskVars == <<scenario, date, runs, book, members, view, screen, latestSince, newOn>>

Lists == {"universe", "watchlist"}
Pipelines == {"filing_monitor", "market_discovery"}
Modes == {"delta", "baseline", "backfill"}
Daily == {"delta", "baseline"}

(***************************************************************************)
(* Business days and the research cycle                                    *)
(***************************************************************************)
BusinessDay(d) == (d + FirstWeekday) % 7 < 5

LastBusinessDay(from) == CHOOSE d \in (from - 3)..from :
                            BusinessDay(d) /\ \A e \in (d + 1)..from : ~BusinessDay(e)
MostRecentBusinessDay(d) == LastBusinessDay(d)
PreviousBusinessDay(d) == LastBusinessDay(d - 1)

Successful(pipeline) ==
    {i \in DOMAIN runs : runs[i].pipeline = pipeline /\ runs[i].status = "success"}
LatestSuccessful(pipeline) ==
    LET done == Successful(pipeline)
    IN {i \in done : \A j \in done : runs[j].completed <= runs[i].completed}
LatestSuccessfulDaily(pipeline) ==
    LET done == {i \in Successful(pipeline) : runs[i].mode \in Daily}
    IN {i \in done : \A j \in done : runs[j].completed <= runs[i].completed}
LatestDaily == {i \in DOMAIN runs : /\ runs[i].mode \in Daily
                                   /\ \A j \in (i + 1)..Len(runs) : runs[j].mode \notin Daily}

\* Of the latest of each pipeline, the one that completed last.
LatestOf(candidates) ==
    {i \in candidates : \A j \in candidates : runs[j].completed <= runs[i].completed}

LatestRun == LatestOf(UNION {LatestSuccessfulDaily(p) : p \in Pipelines})

Cycle(got) ==
    LET run == LatestOf(got.filing \cup got.discovery.runs)
        latest == IF run = {} THEN MostRecentBusinessDay(got.discovery.date)
                  ELSE runs[CHOOSE i \in run : TRUE].researchDay
    IN [latest |-> latest, preceding |-> PreviousBusinessDay(latest), run |-> run]

IsNewDevelopment(a, cycle) == cycle.preceding < a.asOf /\ a.asOf <= cycle.latest

(***************************************************************************)
(* Queries and pages                                                       *)
(***************************************************************************)
Present == {a \in Alerts : book[a].status # "absent"}
With(status) == {a \in Present : book[a].status = status}
Of(issuers) == {a \in Present : a.issuer \in issuers}
High(alerts) == {a \in alerts : a.severity = "high"}
On(list) == {i \in Issuers : <<i, list>> \in members}
Qualifies(a, status) == status # "dismissed" /\ a.subject # "no"

\* The four tiles, after the issuers on a watchlist.
TileCounts == <<"members", "new", "high", "watched", "acknowledged">>

\* The queries of a page, in order.  A filter by list is resolved to its issuers;
\* what only decorates the brief (lists, changes, counts) is read in one step.
Plan(page) ==
    [brief |-> <<"filing", "discovery", "alerts", "context">>,
     watchlist |-> <<"members", "status", "filing", "discovery", "counts">>,
     timeline |-> <<"status">>,
     page |-> <<"members", "total", "rows">>,
     tiles |-> TileCounts][page]

NewestFirst(alerts, n) ==
    {s \in SUBSET alerts : /\ Cardinality(s) = Min({n, Cardinality(alerts)})
                           /\ \A a \in s, b \in alerts \ s : book[a].triggered >= book[b].triggered}

\* What decorates a brief: lists and changes of its issuers, the latest runs,
\* which are looked up again and need not be those its cycle came from.
Context(alerts) ==
    [lists |-> {m \in members : \E a \in alerts : m[1] = a.issuer},
     latest |-> LatestDaily, successful |-> LatestRun]

Answers(query, got) ==
    CASE query = "filing" -> {LatestSuccessfulDaily("filing_monitor")}
      [] query = "discovery" ->
            {[runs |-> LatestSuccessfulDaily("market_discovery"), date |-> date]}
      [] query = "alerts" -> {{a \in With("new") : book[a].triggered >= Cycle(got).latest}}
      [] query = "context" -> {Context(got.alerts)}
      [] query = "members" -> {On("watchlist")}
      [] query = "status" -> {[a \in Present |-> book[a].status]}
      [] query = "counts" -> {Cardinality(With("new") \cap Of(got.members))}
      [] query = "total" -> {Cardinality(Of(got.members))}
      [] query = "rows" -> NewestFirst(Of(got.members), PageSize)
      [] query = "new" -> {Cardinality(With("new"))}
      [] query = "high" -> {Cardinality(High(With("new")))}
      [] query = "watched" -> {Cardinality(With("new") \cap Of(got.members))}
      [] query = "acknowledged" -> {Cardinality(With("acknowledged"))}

\* One event per day and category, ordered by day; the worst severity of each.
Events(status) ==
    LET shown == {a \in DOMAIN status : Qualifies(a, status[a])}
    IN {[day |-> a.asOf, category |-> a.category, of |-> a.issuer,
         severity |-> IF \E b \in High(shown) : /\ b.issuer = a.issuer
                                                /\ b.asOf = a.asOf /\ b.category = a.category
                      THEN "high" ELSE "low"] : a \in shown}

Brief(got) ==
    LET new == {a \in got.alerts : IsNewDevelopment(a, Cycle(got))}
    IN [page |-> "brief", cycle |-> Cycle(got), new |-> new, historical |-> got.alerts \ new,
        high |-> Cardinality(High(new)), context |-> got.context]

WatchlistRows(got) ==
    [page |-> "watchlist", cycle |-> Cycle(got),
     new |-> {a \in DOMAIN got.status : /\ a.issuer \in got.members /\ Qualifies(a, got.status[a])
                                        /\ IsNewDevelopment(a, Cycle(got))},
     unacknowledged |-> got.counts]

Assembled(page, got) ==
    CASE page = "brief" -> Brief(got)
      [] page = "watchlist" -> WatchlistRows(got)
      [] page = "timeline" -> [page |-> page, events |-> Events(got.status)]
      [] page = "page" -> [page |-> page, rows |-> got.rows, total |-> got.total]
      [] page = "tiles" -> [page |-> page, counts |-> got]

Closed == [page |-> "none", todo |-> <<>>, got |-> <<>>]

\* What a cycle should follow: the daily run, of either pipeline, that succeeded last.
LastDailySuccess ==
    LET done == {i \in DOMAIN runs : runs[i].status = "success" /\ runs[i].mode # "backfill"}
    IN {i \in done : \A j \in done : runs[j].completed <= runs[i].completed}

DeskInit ==
    /\ scenario \in Scenarios
    /\ date = 0 /\ runs = <<>> /\ members = {}
    /\ book = [a \in Alerts |-> [status |-> "absent", triggered |-> 0]]
    /\ view = Closed /\ screen = [page |-> "none"]
    /\ latestSince = {} /\ newOn = [a \in Alerts |-> {}]

Open(page) ==
    /\ view = Closed /\ page \in scenario
    /\ view' = [page |-> page, todo |-> Plan(page), got |-> <<>>]
    /\ screen' = [page |-> "none"]
    /\ latestSince' = {LastDailySuccess}
    /\ UNCHANGED <<scenario, date, runs, book, members, newOn>>

Noted(got, query, answer) ==
    [q \in DOMAIN got \cup {query} |-> IF q = query THEN answer ELSE got[q]]

Query ==
    /\ view.todo # <<>>
    /\ \E answer \in Answers(Head(view.todo), view.got) :
          view' = [view EXCEPT !.todo = Tail(@), !.got = Noted(@, Head(view.todo), answer)]
    /\ UNCHANGED <<scenario, date, runs, book, members, screen, latestSince, newOn>>

Show ==
    /\ view # Closed /\ view.todo = <<>>
    /\ screen' = Assembled(view.page, view.got)
    /\ newOn' = IF view.page # "brief" THEN newOn
                ELSE [a \in Alerts |-> newOn[a] \cup
                        {d \in {screen'.cycle.latest} : a \in screen'.new}]
    /\ view' = Closed
    /\ UNCHANGED <<scenario, date, runs, book, members, latestSince>>

(***************************************************************************)
(* What goes on meanwhile                                                  *)
(***************************************************************************)
\* A run represents the first day of its window.
StartRun(pipeline, mode, day) ==
    /\ \/ "runs" \in scenario /\ Len(runs) < MaxRuns
       \/ "run" \in scenario /\ runs = <<>>
    /\ day <= date /\ date <= day + MaxLag
    /\ runs' = Append(runs, [pipeline |-> pipeline, mode |-> mode, status |-> "running",
                             researchDay |-> day, completed |-> 0])
    /\ UNCHANGED <<scenario, date, book, members, view, screen, latestSince, newOn>>

FinishRun(i, status) ==
    /\ runs[i].status = "running"
    /\ runs' = [runs EXCEPT ![i].status = status,
                   ![i].completed = 1 + Cardinality({j \in DOMAIN runs : runs[j].completed > 0})]
    /\ latestSince' = latestSince \cup {LastDailySuccess'}
    /\ UNCHANGED <<scenario, date, book, members, view, screen, newOn>>

Raise(a) ==
    /\ "alerts" \in scenario /\ book[a].status = "absent" /\ a.asOf <= date
    /\ book' = [book EXCEPT ![a] = [status |-> "new", triggered |-> date]]
    /\ UNCHANGED <<scenario, date, runs, members, view, screen, latestSince, newOn>>

\* acknowledge_alert and dismiss_alert set the status whatever it was.
Settle(a, status) ==
    /\ "desk" \in scenario /\ a \in Present /\ book[a].status # status
    /\ book' = [book EXCEPT ![a].status = status]
    /\ UNCHANGED <<scenario, date, runs, members, view, screen, latestSince, newOn>>

ChangeList(i, list) ==
    /\ "lists" \in scenario
    /\ members' = IF <<i, list>> \in members THEN members \ {<<i, list>>}
                  ELSE members \cup {<<i, list>>}
    /\ UNCHANGED <<scenario, date, runs, book, view, screen, latestSince, newOn>>

Midnight ==
    /\ "days" \in scenario /\ date < LastDay /\ date' = date + 1
    /\ UNCHANGED <<scenario, runs, book, members, view, screen, latestSince, newOn>>

DeskNext ==
    \/ \E page \in {"brief", "watchlist", "timeline", "page", "tiles"} : Open(page)
    \/ Query \/ Show \/ Midnight
    \/ \E p \in Pipelines, m \in Modes, d \in 0..LastDay : StartRun(p, m, d)
    \/ \E i \in DOMAIN runs, s \in {"success", "errors"} : FinishRun(i, s)
    \/ \E a \in Alerts : Raise(a)
    \/ \E a \in Alerts, s \in {"acknowledged", "dismissed"} : Settle(a, s)
    \/ \E i \in Issuers, l \in Lists : ChangeList(i, l)
DeskSpec == DeskInit /\ [][DeskNext]_deskVars

(***************************************************************************)
(* Properties                                                              *)
(***************************************************************************)
\* The cycle a page shows is that of a run that was the latest successful daily
\* run of both pipelines at some moment while the page was assembled; a backfill
\* or a failed run never moves it.
CycleFollowsDailyRuns == screen.page \in {"brief", "watchlist"} /\ view = Closed =>
                            screen.cycle.run \in latestSince

\* However often briefs are read, and whenever an alert was found, it is new in
\* the brief of one business day at most: the cycles neither overlap nor shift.
NewOncePerBusinessDay ==
    \A a \in Alerts : Cardinality({d \in newOn[a] : BusinessDay(d)}) <= 1

(* A page view is no research boundary: only daily runs move the cycle, and no *)
(* development is announced on two business days.                              *)
BriefKeepsItsCycle == CycleFollowsDailyRuns /\ NewOncePerBusinessDay
=============================================================================
