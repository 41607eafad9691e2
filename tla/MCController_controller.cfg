\* The controller, with its agents, Herdr and the worker's queue.
SPECIFICATION Spec
CONSTANTS
    Conversations = {c1}
    None = None
    Waiting = Waiting
    Failed = Failed
    Adaptive = TRUE
    MaxQueue = 1
    MaxChanges = 1
    MaxIntents = 3
    MaxFaults = 1
INVARIANTS
    GatesMatch
    InputsInOrder
    ListComplete
PROPERTIES
    NoSilentDrop
    LiveSettles
CHECK_DEADLOCK FALSE
