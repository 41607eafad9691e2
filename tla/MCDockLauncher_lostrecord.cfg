SPECIFICATION Spec
CONSTANTS
    a = a
    b = b
    p = p
    q = q
    Servers = {1}
    Tabs <- TwoTabs
    Panes = {1, 2, 3, 4, 5, 6, 7}
    ServerOf <- SameServerOf
    MaxServers = 1
    MaxRecords = 2
    Procs <- MCProcs
    NoProc = NoProc
    NoTab = NoTab
    HomeOf <- TwoHomeOf
    Terminals = {1, 5}
    Mortal = {2, 3, 4, 6, 7}
    RestoreOnStartup = TRUE
    UserWaits = FALSE
    MaxFaults = 0
    MaxRestarts = 1
PROPERTIES
    LiveRecordsStay
CHECK_DEADLOCK FALSE
