SPECIFICATION Spec
CONSTANTS
    Handlers = {h1, h2}
    Operations <- OfRoutes
    Vals = {v1, v2}
    Escaped = {v2}
    Garbled = Garbled
    MaxRequests = 4
    MaxVersion = 4
    Tries = 2
    YamlRefreshes = TRUE
    HandWritten = TRUE
    Faults = TRUE
    None = None
SYMMETRY Symmetry
PROPERTY BackupPrecedesChange
CHECK_DEADLOCK FALSE
