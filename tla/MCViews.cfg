\* The search, the list of conversations, and the panes of the Files view.
SPECIFICATION MCSpec
CONSTANTS
    a = a
    b = b
    Dirs <- MCDirs
    Files <- MCFiles
    Ignored <- MCIgnored
    Tracked <- MCTracked
    Letters = {1, 2}
    Limits <- MCLimits
    SearchIgnored = FALSE
    PageSize = 1
    None = None
    MaxQuery = 1
    MaxEdits = 1
    MaxIntents = 3
    MaxFaults = 1
INVARIANTS ScanFinds RowsTrue SelectionShown StatusTrue
PROPERTIES SearchRests SelectionFollows
CHECK_DEADLOCK FALSE
