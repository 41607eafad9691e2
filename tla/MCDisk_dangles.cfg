\* A slow dock points `current` at a file that is no longer there.
SPECIFICATION MCSpec
CONSTANTS
    a = a
    b = b
    p = p
    q = q
    Docks = {d, e}
    NoFile = NoFile
    NoProc = NoProc
    NoTab = NoTab
    Absent = Absent
    MaxEntries = 3
    MaxJobs = 2
    MaxFaults = 2
INVARIANT NeverDangles
CHECK_DEADLOCK FALSE
