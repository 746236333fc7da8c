CONSTANTS
    Strings <- MCStrings
    Calls <- MCCalls
    NoCall = NoCall
SPECIFICATION Spec
INVARIANTS TestedNamesAccepted
