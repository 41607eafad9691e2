\* The Files view with a changing disk, panics and a full queue.
SPECIFICATION Spec
CONSTANTS
    Dirs <- MCDirs
    Ignored <- MCIgnored
    Configurations <- MCConfigurations
    None = None
    Failed = Failed
    MaxEdits = 1
    MaxIntents = 3
    MaxFaults = 1
INVARIANTS
    ReloadReaches
    WishesServed
    Polls
PROPERTIES
    TreeAdvances
    PromptStatusCatchesUp
