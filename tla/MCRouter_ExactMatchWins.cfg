\* Expected violation of ExactMatchWins.
CONSTANTS
    Verbs = {"post"}
    TokenOrder <- MCTokenOrder
    FuzzyTokens <- MCFuzzy
    MarkedTokens <- MCFuzzy
    Patterns <- MCPatterns
    Paths <- MCPaths
    ApiList <- MCApiList
    MaxSetSize = 3
SPECIFICATION Spec
INVARIANT ExactMatchWins
\* Registration stops once every verb's set is full.
CHECK_DEADLOCK FALSE
