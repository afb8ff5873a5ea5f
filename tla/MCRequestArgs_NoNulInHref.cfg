CONSTANTS
    Chars <- MCChars
    MaxLen = 4
    QueryChars <- MCQueryChars
    QueryLen = 0
SPECIFICATION Spec
INVARIANT NoNulInHref
CHECK_DEADLOCK FALSE
