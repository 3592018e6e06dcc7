\* The nightly trigger alone, over three days, with every failure that does not stop the clock.
CONSTANTS
    h1 = h1  h2 = h2  h3 = h3  c1 = c1  c2 = c2  q1 = q1  q2 = q2
    Hits = {h1, h2, h3}
    Ciks = {c1, c2}
    CikOf <- MCCikOf
    Known = {c2}
    Queries = {q1, q2}
    Matches <- MCMatches
    Scheduled = {night}
    Operators = {}
    Modes = {}
    MaxHits = 2
    Lookback = 2
    Faults = {"search", "resolve", "verify", "issuer", "enrich", "crash"}
    LastDay = 3
    MaxFaults = 2
    None = None
SPECIFICATION FairSpec
INVARIANTS WatermarkCoversSearch ChecksLeaveNoGap
PROPERTY EventuallyExamined
CHECK_DEADLOCK FALSE
