SPECIFICATION FairSpec
CONSTANTS
    Component <- MCComponent
    TypeOf <- MCTypeOf
    Keep = {"ClusterRoleAdmin"}
    Seen <- MCSeen
INVARIANTS
    TypeOK
    ReadyMeansCounted
    StatusIsOneReport
PROPERTIES
    TransitionTimesKept
    StatusFollows
    ComesToRest
    KeptDoesNotBlock
