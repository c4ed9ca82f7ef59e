CONSTANTS
    NilOption = NilOption
    Panicked = Panicked
    NilClient = NilClient
    NoRpc = NoRpc
    NoHandle = NoHandle
    NoCall = NoCall
    NoReq = NoReq
    NoResult = NoResult
    Codes = {1001}
    Callers = {c1}
    Rpcs = {rpc1}
    LegacyIds = {l1, l2}
    PreLegacy = {l1}
    Params = {p1}
    Results = {ok, err}
    MaxOpts = 1
    Options <- MCDocOptions
    RunPrograms <- MCAllPrograms

SPECIFICATION DocSpec
PROPERTIES DocProgramsComplete
CHECK_DEADLOCK FALSE
