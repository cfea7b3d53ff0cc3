CONSTANTS
    FileExists = TRUE
    EncryptionEnabled = TRUE
    MayFail = FALSE
    Null = Null
SPECIFICATION Spec
INVARIANT ReportsOutcome
CHECK_DEADLOCK FALSE
