CONSTANTS
    Threads = {t1, t2}
    Routes = {euw1}
    Methods = {league, match}
    Responses = {}
    FallbackLimits <- MCFallback
    MaxWindow = 3
    MaxTime = 5
    InitialErrors = {0}
    DefaultHeader <- MCDefaultHeader
    MaxCalls = 3
    NoRequest = NoRequest
    AppLimits <- MCTightAppLimits
    MethodLimits <- MCTightMethodLimits
    TicksPerSecond = 1
    Statuses = {200}
    InitialUse <- Unused
    Faults = {}
    FreeTime = 0
SPECIFICATION RacesSpec
SYMMETRY MCRacesSymmetry
INVARIANTS ShadowsUnraced
PROPERTIES RefusedOnlyInRace
