SPECIFICATION MCSpec
CONSTANTS
    a = a
    b = b
    c = c
    Servers = {1, 2}
    Tabs <- MCTabs
    Panes = {1}
    ServerOf <- MCServerOf
    MaxServers = 1
    MaxRecords = 1
    Procs = {p, q}
    NoProc = NoProc
    NoTab = NoTab
    NoRequest = NoRequest
    Torn = Torn
    Missing = Missing
INVARIANTS Exclusive OneDockPerTab
PROPERTIES ImplementsAtomic HooksEnd
CHECK_DEADLOCK FALSE
