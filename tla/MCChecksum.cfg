CONSTANTS
    Base = 4
    HeaderWords = 4
    FlagsWord = 2
    ChecksumWord = 3
    MaxPayload = 2
SPECIFICATION ChecksumSpec
INVARIANTS
    BuiltIsValid
    OneWordNoticed
    FoldsModulo
CHECK_DEADLOCK FALSE
