SPECIFICATION Spec
CONSTANTS
    Dialects = {"openai", "anthropic", "ollama", "nova"}
    MaxTurns = 5
    MaxBlocks = 3
INVARIANTS
    TypeOK
    RequestIsTheConversation
    ResultsFollowCalls
    OnlyCutArgumentsFail
    ReplySaysHowItEnded
CHECK_DEADLOCK FALSE
