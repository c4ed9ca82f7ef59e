CONSTANTS
    NilOption = NilOption
    Panicked = Panicked
    NoSent = NoSent
    Codes = {1001, 1002}
    SliceLen = 2

SPECIFICATION AliasSpec
INVARIANT StoredOptionKeepsCodes
CHECK_DEADLOCK FALSE
