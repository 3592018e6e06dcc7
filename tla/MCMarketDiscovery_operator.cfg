\* Operator runs of every mode next to the nightly one.
CONSTANTS
    h1 = h1  h2 = h2  h3 = h3  c1 = c1  c2 = c2  q1 = q1  q2 = q2
    Hits = {h1, h2}
    Ciks = {c1}
    CikOf <- MCCikOfTwo
    Known = {}
    Queries = {q1}
    Matches <- MCMatchesOne
    Scheduled = {night}
    Operators = {op}
    Modes = {"baseline", "delta", "backfill", "reprocess"}
    MaxHits = 1
    Lookback = 2
    Faults = {"search", "resolve", "issuer", "enrich", "crash"}
    LastDay = 2
    MaxFaults = 1
    None = None
SPECIFICATION Spec
INVARIANT DiscoveryInv
CHECK_DEADLOCK FALSE
