SPECIFICATION FairSpec
CONSTANTS
    openai = openai
    local = local
    Names = {openai, local}
    EnvProviders = {openai}
    Configs = {k1, k2}
    Bad = bad
    Env = env
    None = none
    Reloads = {q1}
    Boot = boot

INVARIANTS
    TypeOK
    OwnedIsCurrent
    OnlySkippedLinger
PROPERTIES
    PassesEnd
    EnvProvidersStay
