CONSTANTS
    NilOption = NilOption
    Panicked = Panicked
    Codes = {1001, 1002, 1003}
    MaxOpts = 5
SPECIFICATION Spec
INVARIANT ToLegacyIgnoredMeetsSpec
