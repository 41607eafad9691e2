\* Commands of a job, and the scan of a transcript.
SPECIFICATION MCSpec
CONSTANTS
    Limit = 1
    MayLeave = FALSE
    Panes <- MCPanes
    Dock = 3
    Origin = 1
    Layouts <- MCLayouts
    Timeout = 2
    ReadyTimeout = 1
    Overrun = 1
    MaxSteps = 3
INVARIANTS NoneLeft TabClosed ScannedAsWhole
PROPERTIES WorkEnds
CHECK_DEADLOCK FALSE
