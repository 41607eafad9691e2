\* A directory that is listed while an entry disappears from it.
SPECIFICATION MCSpec
CONSTANTS
    a = a
    b = b
    p = p
    q = q
    Docks = {d, e}
    NoFile = NoFile
    NoProc = NoProc
    NoTab = NoTab
    Absent = Absent
    MaxEntries = 3
    MaxJobs = 2
    MaxFaults = 2
PROPERTY ListedStay
CHECK_DEADLOCK FALSE
