SPECIFICATION MCSpec
CONSTANTS
    a = a
    b = b
    c = c
    s = s
    u = u
    NoSession = NoSession
    None = None
    Files = {a, b, c}
    Sessions = {s, u}
    Shapes <- MCShapes
    Hideable = {a, c}
    Limit = 1
    MaxEdits = 4
    MaxFaults = 1
INVARIANTS Covered Accounted OthersCovered
PROPERTIES SessionsStayDecoded SourcesSettle
CHECK_DEADLOCK FALSE
