\* Expected violation of TieKeepsEarlierRegistered.
CONSTANTS
    Verbs = {"post"}
    TokenOrder <- MCTokenOrder
    FuzzyTokens <- MCFuzzy
    MarkedTokens <- MCFuzzy
    Patterns <- MCPatterns
    Paths <- MCPaths
    ApiList <- MCApiList
    MaxSetSize = 3
SPECIFICATION Spec
INVARIANT TieKeepsEarlierRegistered
\* Registration stops once every verb's set is full.
CHECK_DEADLOCK FALSE
