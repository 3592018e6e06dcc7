SPECIFICATION SupportSpec
CONSTANTS
    MinInterval = 2
    MaxRetries = 2
    DefaultRetryAfter = 1
    MaxRetryAfter = 3
    Timeout = 2
    MaxAsked = 20
    MaxClock = 20
    Ingesters = {w1, w2}
    Ciks = {c1}
    Days = {1, 2}
    Figis = {f1}
    Window = 2
    MissingDates = {2}
    Revisions = 1
    MaxFetches = 4
    Programmes <- MCProgrammes
    Layers = {1, 2, 3}
    Securities = {1, 2}
    Stacks <- MCStacks
    Research <- MCResearch
    MaxResearch = 1
    Sources = {f1, d1}
    DocketSources = {d1}
    Places = {1, 2}
    MaxMentions = 2
    Blocks <- MCBlocks
    MaxPages = 2
    MaxBlocks = 4
    Target = 4
    Ceiling = 6
    OcrThreshold = 1
    Alerts <- MCAlerts
    Issuers = {"i1"}
    FirstWeekday = 4
    LastDay = 3
    PageSize = 1
    MaxRuns = 2
    MaxLag = 1
    Scenarios <- MCScenarios
    Entities <- MCEntities
    Ways <- MCWays
    GroupLimit = 2
    MaxEdits = 2
INVARIANTS RowsTraceToPayloads ContextAsFreshAsLabelled SeniorFirst WorstSignalLeads ChunksPartition NothingShownTwice BriefKeepsItsCycle
PROPERTIES PoliteClient CleanupIsExact
CHECK_DEADLOCK FALSE
