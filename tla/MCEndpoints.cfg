CONSTANTS
    Strings <- MCStrings
    Calls <- MCCalls
    NoCall = NoCall
SPECIFICATION Spec
INVARIANTS OwnKindOnly HostNamesRoute BreakdownOfCalledRoute UrlNamesBucket QueryReadBack
