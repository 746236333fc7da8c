CONSTANTS
    Threads = {t1, t2}
    Routes = {euw1}
    Methods = {league}
    Responses = {}
    FallbackLimits <- MCFallback
    MaxWindow = 3
    MaxTime = 3
    InitialErrors = {0, 2}
    DefaultHeader <- MCDefaultHeader
    Replies <- MCReplies
    MaxCalls = 2
    NoRequest = NoRequest
SPECIFICATION Spec
SYMMETRY MCSymmetry
INVARIANTS TypeOK WaitShownIsReal RetriesBounded
PROPERTIES RetryAfterHonoured
