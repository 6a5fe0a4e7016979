SPECIFICATION JSpec
CONSTANTS
    Component <- CrossplanePair
    FluxType <- MCFluxType
    ObjectType <- MCObjectType
    Dependencies <- MCDependencies
    Guards <- MCGuards
    Gates <- MCGates
    Keep <- MCKeep
    Detected <- MCDetected
    Versioned <- MCVersioned
    Rank <- MCRank
    Guarded = {}
    Touched = {}
    StaleReads = TRUE
    MayCalm = FALSE
INVARIANTS
    DisabledMeansGone
