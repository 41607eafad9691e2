\* A file that was deleted and comes back.
SPECIFICATION Spec
CONSTANTS
    Dirs <- MCDirs
    Files <- MCFiles
    WorkspaceFiles <- MCFiles
    Repositories <- MCRepositories
    Ignored <- MCIgnored
    Heights = {6}
    MaxStatusEntries = 4
    MaxEdits = 2
    MaxIntents = 0
    MaxFaults = 0
    None = None
PROPERTIES FilesKept
CHECK_DEADLOCK FALSE
