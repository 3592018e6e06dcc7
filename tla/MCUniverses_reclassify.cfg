\* A classifier, a correction and two analysts over shared slugs.
CONSTANTS
    i1 = i1  b1 = b1   e1 = e1  e2 = e2 
    sys = sys  core = core  cur = cur   n1 = n1  n2 = n2
    Issuers = {i1}
    Bundles = {b1}
    Evidence = {e1, e2}
    IssuerOf <- MCIssuerOf
    BundleOf <- MCBundleOf
    UniverseOf <- MCUniverseOf
    Definitive = {e1}
    Severity <- MCSeverity
    Reviews <- MCReviews
    SystemSlugs = {sys, core}
    Core = core
    CuratedSlugs = {cur}
    OtherSlugs = {}
    SlugsFor <- MCSlugsFor
    Classifiers = {k1}
    Correctors = {k2, k3}
    Clients = {q1}
    None = None
SYMMETRY MCSymmetry
SPECIFICATION Spec
INVARIANT VerifiedNeedsSubject
PROPERTIES CorrectionSettles AnalystRowsStay LiveNeverWeakens WatchlistsAreLocal
CHECK_DEADLOCK FALSE
