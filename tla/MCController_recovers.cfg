\* A refresh that fails once.
SPECIFICATION Spec
CONSTANTS
    Conversations = {c1}
    None = None
    Waiting = Waiting
    Failed = Failed
    Adaptive = TRUE
    MaxQueue = 1
    MaxChanges = 0
    MaxIntents = 2
    MaxFaults = 1
PROPERTIES
    LiveRecovers
CHECK_DEADLOCK FALSE
