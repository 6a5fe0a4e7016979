SPECIFICATION JSpec
CONSTANTS
    Component <- CrossplaneStack
    FluxType <- MCFluxType
    ObjectType <- MCObjectType
    Dependencies <- MCDependencies
    Guards <- MCGuards
    Gates <- MCGates
    Keep <- MCKeep
    Detected <- MCDetected
    Versioned <- MCVersioned
    Rank <- MCRank
    Guarded = {}
    Touched <- MCTouched
    StaleReads = TRUE
    MayCalm = TRUE
INVARIANTS
    TypeOK
PROPERTIES
    GuardedTeardown
    GatedInstall
    LivesLifecycle
