CONSTANTS
    Tokens <- MCTokens
    Descriptions <- MCDescriptions
    Numerals <- MCNumerals
    MaxParts = 3
    MaxTokens = 3
SPECIFICATION Spec
INVARIANTS NoReadPastEnd LeadingPartsKept ReadPartByPart
PROPERTIES Terminates
