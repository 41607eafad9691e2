\* Two sessions that are rows of one database.
SPECIFICATION Spec
CONSTANTS
    a = a
    b = b
    Providers <- TwoTools
    Sessions = {1, 2, 3}
    Discovered <- Databases
    Tool <- MCTool
    Path <- SharedPath
    Documented = {}
    Reported <- NoReports
    Heights = {4}
    None = None
    MaxChanges = 3
PROPERTIES SelectionStays
CHECK_DEADLOCK FALSE
