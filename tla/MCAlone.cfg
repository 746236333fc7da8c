CONSTANTS
    Threads = {t1}
    Routes = {euw1}
    Methods = {league, match}
    Responses = {}
    FallbackLimits <- MCFallback
    MaxWindow = 3
    MaxTime = 40
    InitialErrors <- MCInitialErrors
    DefaultHeader <- MCDefaultHeader
    MaxCalls = 3
    NoRequest = NoRequest
    AppLimits <- MCAppLimits
    MethodLimits <- MCMethodLimits
    TicksPerSecond = 1
    Statuses = {200, 500}
    InitialUse <- MaybeUsed
    Faults = {"lost_request", "lost_response"}
    FreeTime = 1
SPECIFICATION MCRacesSpec
INVARIANTS TypeOK RefusedOnlyAtFirst ShadowsUnraced NotRefusedTwice
PROPERTIES AllReturn
CHECK_DEADLOCK FALSE
