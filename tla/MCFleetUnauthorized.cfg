SPECIFICATION Spec
CONSTANTS
    openai = openai
    local = local
    Names = {openai, local}
    EnvProviders = {openai}
    Configs = {k1}
    Bad = bad
    Env = env
    None = none
    Reloads = {q1}
    Boot = boot
PROPERTIES
    DeregisterTakesEffect
