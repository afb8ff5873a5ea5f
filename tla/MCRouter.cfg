\* Route resolution over every POST registry of up to three templates (a GET
\* registry starts with "/$apis" and so holds at most two user templates).
CONSTANTS
    Verbs = {"post"}
    TokenOrder <- MCTokenOrder
    FuzzyTokens <- MCFuzzy
    MarkedTokens <- MCFuzzy
    Patterns <- MCPatterns
    Paths <- MCPaths
    ApiList <- MCApiList
    MaxSetSize = 3
SPECIFICATION Spec
INVARIANT SpecificityOrder
INVARIANT MatchAgreesWithPath
\* Registration stops once every verb's set is full.
CHECK_DEADLOCK FALSE
