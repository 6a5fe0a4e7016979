SPECIFICATION JSpec
CONSTANTS
    Component <- CrossplanePair
    FluxType <- MCFluxType
    ObjectType <- MCObjectType
    Dependencies <- MCDependencies
    Guards <- MCGuards
    Gates <- MCGates
    Keep <- MCKeep
    Detected <- MCDetected
    Versioned <- MCVersioned
    Rank <- MCRank
    Guarded = {}
    Touched <- MCTouched
    StaleReads = FALSE
    MayCalm = FALSE
PROPERTIES
    AnnotatedIsLeftAlone
