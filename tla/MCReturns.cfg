CONSTANTS
    Threads = {t1, t2}
    Routes = {euw1}
    Methods = {league, match}
    Responses = {}
    FallbackLimits <- MCFallback
    MaxWindow = 3
    MaxTime = 40
    InitialErrors = {0}
    DefaultHeader <- MCDefaultHeader
    MaxCalls = 2
    NoRequest = NoRequest
    AppLimits <- MCTightAppLimits
    MethodLimits <- MCTightMethodLimits
    TicksPerSecond = 1
    Statuses = {200}
    InitialUse <- Unused
    Faults = {"lost_response"}
    FreeTime = 0
SPECIFICATION MCRefusalsSpec
PROPERTIES AllReturn RefusedOncePerWindow
CHECK_DEADLOCK FALSE
