CONSTANTS
    NilOption = NilOption
    Panicked = Panicked
    NilClient = NilClient
    NoRpc = NoRpc
    NoHandle = NoHandle
    NoCall = NoCall
    NoReq = NoReq
    NoResult = NoResult
    Codes = {1001, 1002}
    Callers = {c1}
    Rpcs = {rpc1}
    LegacyIds = {l1, l2}
    PreLegacy = {l1}
    Params = {p1, p2}
    Results = {ok, err}
    MaxOpts = 2
    Options <- MCOptions
SPECIFICATION Spec
INVARIANT TypeOK
INVARIANT LegacyCallIdentifiesOperation
INVARIANT CallReachesOwnClient
PROPERTY ImplementsDirectLegacy
CHECK_DEADLOCK FALSE
