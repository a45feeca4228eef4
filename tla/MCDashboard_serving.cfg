SPECIFICATION FairSpec
CONSTANTS
    Nil = Nil
    Chains = {"a", "b"}
    Watched = {"a"}
    Setups <- MCSetups
    Capacity = 1
    HistoryLength = 2
INVARIANTS ActiveIsNotReportedOver
PROPERTIES AlertGetsThrough PageFollowsCondition
