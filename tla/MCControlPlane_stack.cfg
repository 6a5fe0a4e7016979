SPECIFICATION Spec
CONSTANTS
    Component <- CrossplaneStack
    FluxType <- MCFluxType
    ObjectType <- MCObjectType
    Dependencies <- MCDependencies
    Guards <- MCGuards
    Gates <- MCGates
    Keep <- MCKeep
    Detected <- MCDetected
    Versioned <- MCVersioned
    Rank <- MCRank
    Guarded <- MCGuarded
    Touched <- MCTouched
    StaleReads = FALSE
    MayCalm = FALSE
    Nested <- MCNested
    MayMove = TRUE
INVARIANTS
    ControlPlaneTypeOK
    NothingLeaks
    ReleasesAreServed
    ProvidersArePoliced
    CleanSweep
    DisabledMeansGone
    InstalledMeansComplete
PROPERTIES
    FinalizerGoesLast
    EngineSpec
