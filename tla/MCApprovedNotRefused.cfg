CONSTANTS
    Threads = {t1, t2}
    Routes = {euw1}
    Methods = {league, match}
    Responses = {}
    FallbackLimits <- MCFallback
    MaxWindow = 3
    MaxTime = 6
    InitialErrors = {0}
    DefaultHeader <- MCDefaultHeader
    MaxCalls = 2
    NoRequest = NoRequest
    AppLimits <- MCAppLimits
    MethodLimits <- MCMethodLimits
    TicksPerSecond = 1
    Statuses = {200, 404, 500}
    InitialUse <- Unused
    Faults = {}
    FreeTime = 0
SPECIFICATION Spec
INVARIANTS ApprovedNotRefused
