SPECIFICATION Spec
CONSTANTS
    ollama = ollama
    openai = openai
    m1 = m1
    m2 = m2
    embed = embed
    raw1 = raw1
    raw2 = raw2
    rawEmbed = rawEmbed
    Providers = {ollama, openai}
    Models = {m1, m2, embed}
    Aliases = {raw1, raw2, rawEmbed}
    Local = {ollama}
    Embedding = {embed}
    Baked <- MCBaked
    BakedNames <- MCBakedNames
    BakedCost <- MCBakedCost
    RawName <- MCRawName
    Offers <- MCOffers
    NoCost = NoCost
    CostUnit = 2
    Latencies = {1, 3}
    Window = 2
    Scale = 2
    NoKey = NoKey
INVARIANTS
    TypeOK
    OfferedIsRoutable
    PrivacyKept
    BalancedUndominated
PROPERTIES
    StableResolution
