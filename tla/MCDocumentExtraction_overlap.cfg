\* Two invocations that overlap, two extractions of one document, every fault.
CONSTANTS
    TextDocs = {d1}
    ScannedDocs = {}
    CorruptDocs = {}
    Classes = {public}
    Workers = {w1, w2}
    MaxAttempts = 3
    MaxExtractions = 2
    Overwrite = TRUE
    Faults = {"crash", "storage", "database", "slow"}
SYMMETRY Symmetric
SPECIFICATION Spec
INVARIANTS IndInv AttemptsBounded
PROPERTY ImplementsCorpus
