SPECIFICATION FairSpec
CONSTANTS
    a = a
    b = b
    x = x
    y = y
    d = d
    e = e
    Source <- OneSource
    Namespace <- OneNamespace
    Data <- TwoData
    StaleReads = TRUE
    MayCalm = TRUE
PROPERTIES
    SourcesAreReleased
    CopiesConverge
