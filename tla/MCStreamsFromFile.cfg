SPECIFICATION Spec
CONSTANTS
    Dialects = {"fromfile"}
    MaxLines = 4
    MaxCalls = 2
    Tokens = {1}
INVARIANT
    TruncationIsNoSuccess
\* A stream ends, and nothing follows.
CHECK_DEADLOCK FALSE
