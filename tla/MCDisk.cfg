SPECIFICATION MCSpec
CONSTANTS
    a = a
    b = b
    p = p
    q = q
    Docks = {d, e}
    NoFile = NoFile
    NoProc = NoProc
    NoTab = NoTab
    Absent = Absent
    MaxEntries = 3
    MaxJobs = 2
    MaxFaults = 2
INVARIANTS Tidy RecordsAreDocks InventoryComplete
PROPERTIES GenerationsAdvance TerminalRemains KeysSettle
CHECK_DEADLOCK FALSE
