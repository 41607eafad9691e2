\* Three keys share the one slot of the high lane, one has the low lane.
CONSTANTS
    HighKeys = {h1, h2, h3}
    LowKeys = {l1}
    Keys <- MCKeys
    PriorityOf <- MCPriorityOf
    Generations = {1, 2}
    HighCapacity = 1
    LowCapacity = 1
SPECIFICATION FairSpec
INVARIANTS OneInFlight NewestSurvives SendNeverBlocks
PROPERTIES EventuallyDelivers ShutdownReturns
CHECK_DEADLOCK FALSE
