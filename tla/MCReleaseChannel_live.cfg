SPECIFICATION FairSpec
CONSTANTS
    Channel <- OneChannel
    Version <- OneVersion
    ChartVersion = {"own"}
    MayCalm = TRUE
INVARIANTS
    TypeOK
    OnlyOffered
    PackagesAreResolved
PROPERTIES
    ChannelsFollow
    VersionConverges
