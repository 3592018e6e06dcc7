\* A nightly run and the sync script over one linked and one curated docket.
CONSTANTS
    i1 = i1  i2 = i2  d1 = d1  d2 = d2  r1 = r1  r2 = r2
    Issuers = {i1, i2}
    Enriched = {i1}
    Dockets = {d1, d2}
    Entries = {1, 2, 3}
    DocketOf <- MCDocketOf
    NumberOf <- MCNumberOf
    Described = {}
    Documents <- MCDocuments
    Signals <- MCSignals
    Curated <- MCCurated
    PageSize = 1
    MaxPages = 2
    Visitors = {r1}
    Syncers = {r2}
    Faults = {"source", "crash", "defer"}
    MaxFaults = 1
    HasCik = {i1}
    Configured = {"sec_edgar", "courtlistener"}
    Ttl <- MCTtl
    RecheckTtl = 0
    RetryDelay = 1
    MaxAge = 1
    None = None
SPECIFICATION MCSpec
INVARIANTS DocketInv LinksAreJustified NoGapBelowCursor StatusIsBacked
CHECK_DEADLOCK FALSE
