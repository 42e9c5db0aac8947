SPECIFICATION Spec
CONSTANTS
    Dialects = {"openai", "anthropic", "ollama", "llamactl"}
    MaxLines = 4
    MaxCalls = 2
    Tokens = {1}
INVARIANTS
    TypeOK
    ReadsDontMatter
    ToolCallsIntact
    UsageIsComplete
    RoleFirst
    TruncationIsNoSuccess
    CompletionIsTold
    FinishMatchesCalls
\* A stream ends, and nothing follows.
CHECK_DEADLOCK FALSE
