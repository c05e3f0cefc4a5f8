SPECIFICATION Spec
CONSTANTS
    Letters <- MCLetters
    Patterns <- MCPatterns
    Later <- MCLater
    Messages <- MCMessages
    Switch = 4
    Refresh = 3
INVARIANTS ShownAsWritten TimeOfMessage OffsetRecent
CHECK_DEADLOCK FALSE
