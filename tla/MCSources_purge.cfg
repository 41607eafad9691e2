\* A transcript without a record.
SPECIFICATION MCSpec
CONSTANTS
    a = a
    b = b
    c = c
    s = s
    u = u
    NoSession = NoSession
    None = None
    Files = {a, b, c}
    Sessions = {s, u}
    Shapes <- MCShapes
    Hideable = {a, c}
    Limit = 1
    MaxEdits = 4
    MaxFaults = 1
PROPERTY SessionsStay
CHECK_DEADLOCK FALSE
