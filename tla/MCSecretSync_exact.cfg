SPECIFICATION FairSpec
CONSTANTS
    a = a
    b = b
    x = x
    y = y
    d = d
    e = e
    Source <- TwoSources
    Namespace <- TwoNamespaces
    Data <- OneDatum
    StaleReads = FALSE
    MayCalm = TRUE
INVARIANTS
    TypeOK
    CopiesAreOwned
PROPERTIES
    SourcesAreReleased
    CopiesConverge
