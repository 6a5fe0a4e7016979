SPECIFICATION FairSpec
CONSTANTS
    Component <- LooseStack
    FluxType <- MCFluxType
    ObjectType <- MCObjectType
    Dependencies <- MCDependencies
    Guards <- MCGuards
    Gates <- MCGates
    Keep <- MCKeep
    Detected <- MCDetected
    Versioned <- MCVersioned
    Rank <- MCRank
    Guarded <- MCGuarded
    Touched = {}
    StaleReads = FALSE
    MayCalm = TRUE
    Nested <- MCNested
    MayMove = TRUE
PROPERTIES
    DeletionCompletes
    KeptForever
