CONSTANTS
    r1 = r1  i1 = i1  i2 = i2  f1 = f1  f2 = f2  f3 = f3
    Issuers = {i1, i2}
    Filings = {f1, f2, f3}
    IssuerOf <- MCIssuerOf
    Distress <- MCDistress
    Runners = {r1}
    Modes = {"delta"}
    Lookback = 1
    LastDay = 3
    Faults = {"source", "crash"}
    MaxFaults = 2
    None = None
SPECIFICATION FairSpec
INVARIANTS NothingSkipped OneAlertPerBundle
PROPERTY EvidenceIsAlerted
CHECK_DEADLOCK FALSE
