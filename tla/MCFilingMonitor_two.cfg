CONSTANTS
    r1 = r1  r2 = r2  i1 = i1  i2 = i2  f1 = f1  f2 = f2  f3 = f3
    Issuers = {i1, i2}
    Filings = {f1, f3}
    IssuerOf <- MCIssuerOfTwo
    Distress <- MCDistress
    Runners = {r1, r2}
    Modes = {"baseline", "delta", "backfill"}
    Lookback = 1
    LastDay = 2
    Faults = {"source", "crash", "defer"}
    MaxFaults = 1
    None = None
SPECIFICATION Spec
INVARIANT FilingsCarryEvidence
CHECK_DEADLOCK FALSE
