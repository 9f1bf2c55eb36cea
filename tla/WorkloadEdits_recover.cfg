SPECIFICATION Spec
CONSTANTS
    Handlers = {h1}
    Operations <- Restoring
    Vals = {v1, v2}
    Escaped = {}
    Garbled = Garbled
    MaxRequests = 3
    MaxVersion = 3
    Tries = 2
    YamlRefreshes = FALSE
    HandWritten = FALSE
    Faults = FALSE
    None = None
PROPERTY RecoverOverwrites
CHECK_DEADLOCK FALSE
