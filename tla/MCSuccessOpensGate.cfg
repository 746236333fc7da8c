CONSTANTS
    Threads = {t1}
    Routes = {euw1}
    Methods = {league, match}
    Responses = {}
    FallbackLimits <- MCFallback
    MaxWindow = 3
    MaxTime = 5
    InitialErrors = {0}
    DefaultHeader <- MCDefaultHeader
    Replies <- MCReplies
    MaxCalls = 2
    NoRequest = NoRequest
SPECIFICATION Spec
PROPERTIES SuccessOpensGate
