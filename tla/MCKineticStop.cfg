SPECIFICATION FairSpec
CONSTANTS
    Proxies <- TwoProxies
    Epoch <- TwoEpochs
    Commands <- TwoCommands
    Through <- TwoThroughs
    Budgets <- RestartsOrPeers
CHECK_DEADLOCK FALSE
INVARIANTS
    AckMeansEnforced
    ContainedStaysDead
    CoveredNeverLaunches
PROPERTIES
    StopTakesEffect
