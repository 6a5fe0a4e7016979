SPECIFICATION FairSpec
CONSTANTS
    Component <- CrossplaneStack
    FluxType <- MCFluxType
    ObjectType <- MCObjectType
    Dependencies <- MCDependencies
    Guards <- MCGuards
    Gates <- MCGates
    Keep <- MCKeep
    Detected <- MCDetected
    Versioned <- MCVersioned
    Rank <- MCRank
    Guarded = {}
    Touched <- MCTouched
    StaleReads = FALSE
    MayCalm = TRUE
    Nested <- MCNested
    MayMove = FALSE
PROPERTIES
    Converges
    DeletionCompletes
