\* Two nights without any failure.
CONSTANTS
    h1 = h1  h2 = h2  h3 = h3  c1 = c1  c2 = c2  q1 = q1  q2 = q2
    Hits = {h1, h2}
    Ciks = {c1}
    CikOf <- MCCikOfTwo
    Known = {c1}
    Queries = {q1, q2}
    Matches <- MCMatchesTwo
    Scheduled = {night}
    Operators = {}
    Modes = {}
    MaxHits = 2
    Lookback = 2
    Faults = {}
    LastDay = 3
    MaxFaults = 1
    None = None
SPECIFICATION Spec
INVARIANT ResolvedIsStored
CHECK_DEADLOCK FALSE
