\* Every kind of document, two classes, one invocation at a time.
CONSTANTS
    TextDocs = {d1}
    ScannedDocs = {s1}
    CorruptDocs = {c1}
    Classes = {public, restricted}
    Workers = {w1}
    MaxAttempts = 2
    MaxExtractions = 2
    Overwrite = FALSE
    Faults = {"crash", "storage", "slow"}
SPECIFICATION FairSpec
INVARIANTS ChunksIffCompleted RetryBudgetHonoured
PROPERTIES ImplementsLifecycle EventuallySettled
