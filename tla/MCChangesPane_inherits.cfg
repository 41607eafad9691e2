\* A directory with an added file.
SPECIFICATION Spec
CONSTANTS
    Dirs <- MCDirs
    Files <- MCFiles
    WorkspaceFiles <- MCFiles
    Repositories <- MCAddedBelow
    Ignored <- MCIgnored
    Heights = {6}
    MaxStatusEntries = 4
    MaxEdits = 0
    MaxIntents = 0
    MaxFaults = 0
    None = None
INVARIANT DirectoriesInherit
CHECK_DEADLOCK FALSE
