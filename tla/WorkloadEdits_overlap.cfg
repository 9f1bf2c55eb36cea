SPECIFICATION Spec
CONSTANTS
    Handlers = {h1, h2}
    Operations <- Overlapping
    Vals = {v1, v2}
    Escaped = {v2}
    Garbled = Garbled
    MaxRequests = 3
    MaxVersion = 3
    Tries = 2
    YamlRefreshes = FALSE
    HandWritten = TRUE
    Faults = TRUE
    None = None
SYMMETRY Symmetry
INVARIANT TypeOK
PROPERTIES OnlyIntended BackupPrecedesChange ConflictIsFinal ImplementsAtomicEdits
CHECK_DEADLOCK FALSE
