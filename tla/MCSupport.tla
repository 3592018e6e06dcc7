------------------------------- MODULE MCSupport -------------------------------
(* The supporting components on small instances, one at a time: they share no *)
(* state, so a behaviour picks one of them and leaves the others where they    *)
(* started.                                                                    *)
EXTENDS HttpClient, ReferenceData, SyntheticData, DistressRules, Chunker, ResearchDesk, Search

VARIABLE part   \* the component this behaviour is about

MCProgrammes == {{"series"}, {"identity", "aggregate", "filings"}, {"identity", "fact"},
                 {"identity", "bonds"}}

MCStacks == {[amount |-> <<1, 2, 1>>, value |-> 2], [amount |-> <<3, 0, 3>>, value |-> 4],
             [amount |-> <<3, 1, 2>>, value |-> 9]}
MCResearch == {"collection_membership", "research_note"}

MCBlocks == {[type |-> "table", level |-> 0, words |-> <<2>>],
             [type |-> "heading", level |-> 1, words |-> <<1>>],
             [type |-> "heading", level |-> 2, words |-> <<1>>],
             [type |-> "body", level |-> 0, words |-> <<1>>],
             [type |-> "body", level |-> 0, words |-> <<2>>],
             [type |-> "body", level |-> 0, words |-> <<3, 2, 0, 0, 7, 1>>]}

MCAlerts ==
    {[id |-> 1, issuer |-> "i1", asOf |-> 0, category |-> "c", severity |-> "low", subject |-> "yes"],
     [id |-> 2, issuer |-> "i1", asOf |-> 3, category |-> "c", severity |-> "high", subject |-> "unknown"]}
MCScenarios == {{"brief", "runs", "days"}, {"brief", "run", "alerts", "days"},
                {"brief", "alerts", "desk", "lists", "days"}, {"watchlist", "brief", "runs", "alerts"},
                {"watchlist", "desk", "alerts", "lists"},
                {"timeline", "page", "tiles", "alerts", "lists", "desk", "days"}}

MCEntities == {[kind |-> "issuer", id |-> 1], [kind |-> "issuer", id |-> 2],
               [kind |-> "research_note", id |-> 3]}
MCWays == {{}, {"text"}, {"exact", "text", "similar"}, {"prefix", "text", "similar"},
           {"prefix", "similar"}}

\* The demo data are two parts: "synthetic", what is done to the rows, and "pages",
\* what is read while seeding and cleanup go on and nobody writes real rows.
Parts == {"http", "reference", "synthetic", "pages", "distress", "chunker", "desk", "search"}

\* A component that is not picked starts in one state of its own.
RefAtRest == /\ programme = {} /\ today = 0 /\ payloads = <<>> /\ stored = NoWork
             /\ ingest = [w \in Ingesters |-> Idle]
SynthAtRest == /\ stack = (CHOOSE s \in Stacks : TRUE) /\ rows = Real
               /\ recoveries = [l \in Layers |-> 0] /\ cleanup = NoCleanup /\ page = NoPage
               /\ deletion = NoDeletion /\ orphans = {}
ChunkAtRest == /\ document = <<>> /\ at = <<1, 1>> /\ word = 1 /\ headings = <<>> /\ acc = <<>>
               /\ drafts = <<>> /\ verdict = "none"
DeskAtRest == /\ scenario = {} /\ date = 0 /\ runs = <<>> /\ members = {}
              /\ book = [a \in Alerts |-> [status |-> "absent", triggered |-> 0]]
              /\ view = Closed /\ screen = [page |-> "none"]
              /\ latestSince = {} /\ newOn = [a \in Alerts |-> {}]
SearchAtRest == /\ matches = [e \in Entities |-> {}] /\ archived = {} /\ asked = {}
                /\ found = <<>> /\ edits = 0

SupportInit ==
    /\ part \in Parts
    /\ HttpInit /\ DistressInit
    /\ IF part = "reference" THEN RefInit ELSE RefAtRest
    /\ IF part = "synthetic" THEN SynthInit ELSE SynthAtRest
    /\ IF part = "chunker" THEN ChunkInit ELSE ChunkAtRest
    /\ IF part = "desk" THEN DeskInit ELSE DeskAtRest
    /\ IF part = "search" THEN SearchInit ELSE SearchAtRest

Http == part = "http" /\ HttpNext
        /\ UNCHANGED <<refVars, synthVars, distressVars, chunkVars, deskVars, searchVars>>
Reference == part = "reference" /\ RefNext
             /\ UNCHANGED <<httpVars, synthVars, distressVars, chunkVars, deskVars, searchVars>>
Synthesis == /\ part \in {"synthetic", "pages"} /\ SynthNext
             /\ part = "synthetic" => page' = page
             /\ part = "pages" => \A r \in rows' \ rows : r.table \notin Research /\ ~RealRow(r)
             /\ UNCHANGED <<httpVars, refVars, distressVars, chunkVars, deskVars, searchVars>>
Distress == part = "distress" /\ DistressNext
            /\ UNCHANGED <<httpVars, refVars, synthVars, chunkVars, deskVars, searchVars>>
Chunking == part = "chunker" /\ ChunkNext
            /\ UNCHANGED <<httpVars, refVars, synthVars, distressVars, deskVars, searchVars>>
Desk == part = "desk" /\ DeskNext
        /\ UNCHANGED <<httpVars, refVars, synthVars, distressVars, chunkVars, searchVars>>
Searching == part = "search" /\ SearchNext
             /\ UNCHANGED <<httpVars, refVars, synthVars, distressVars, chunkVars, deskVars>>

SupportNext ==
    /\ \/ Http \/ Reference \/ Synthesis \/ Distress \/ Chunking \/ Desk \/ Searching
    /\ UNCHANGED part
supportVars == <<part, httpVars, refVars, synthVars, distressVars, chunkVars, deskVars, searchVars>>
SupportSpec == SupportInit /\ [][SupportNext]_supportVars
=============================================================================
