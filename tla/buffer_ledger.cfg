\* Pushes and drains in every order, across the capacity limit, and what the
\* drained evidence says of the run.
CONSTANTS
    None = None
    String <- Strings
    Capacities <- SmallCapacities
    MaxPushes = 7
    Contexts <- SmallContexts
    GatewayRuns <- GatewayWork
    MixedRuns <- MixedWork
SPECIFICATION RunSpec
INVARIANTS
    TypeOK
    NothingLostSilently
    HoldsTheNewest
    DeliversInOrder
    RollupsCoverTheRun
    UnknownForcesReview
    RollupsAgree
PROPERTIES
    EvictsOnlyWhenFull
