SPECIFICATION ServicesSpec
CONSTANTS
    c1 = c1
    c2 = c2
    Connections = {c1, c2}
    Keys <- KeysDef
    MaxAdded = 2
    MaxStarts = 2
    Words = {"http", "https", "h", "80"}
    Requests <- RequestsDef
    Ports <- PortsDef
    k1 = k1
    k2 = k2
    JsonKeys = {k1, k2}
    Scalars = {"x"}
    Texts <- TextsDef
    MaxDepth = 2
    MaxIndex = 1
    MaxViews = 2
    w1 = w1
    w2 = w2
    Wrappers = {w1, w2}
    Columns = {1, 2}
    Values = {"x"}
    NULL = NULL
    NoWrapper = NoWrapper
    Conditions <- ConditionsDef
    MaxRows = 2
INVARIANTS ServicesTypeOK UrlSplitsBack FreshAnswer QueryIsPrefix
PROPERTIES CallsReturn AccessKeepsData
\* Behaviours end: with the last call, or with the program.
CHECK_DEADLOCK FALSE
