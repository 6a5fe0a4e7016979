SPECIFICATION Spec
CONSTANTS
    Channel <- OneChannel
    Version <- OneVersion
    ChartVersion = {"", "v1"}
    MayCalm = FALSE
INVARIANTS
    ChartsAreResolved
