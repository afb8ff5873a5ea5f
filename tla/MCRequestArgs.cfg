CONSTANTS
    Chars <- MCChars
    MaxLen = 4
    QueryChars <- MCQueryChars
    QueryLen = 7
SPECIFICATION Spec
INVARIANT ArgsAsSpecified
CHECK_DEADLOCK FALSE
