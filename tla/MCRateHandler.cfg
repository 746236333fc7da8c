CONSTANTS
    Routes = {euw1, kr}
    Methods = {league, match}
    Responses <- MCResponses
    FallbackLimits <- MCFallback
    MaxWindow = 3
    MaxTime = 3
    MaxResponses = 3
SPECIFICATION GatedSpec
SYMMETRY MCSymmetry
INVARIANTS TypeOK WaitBounded
PROPERTIES RetryAfterEnforced LiveBucketsStable ImplementsGate
