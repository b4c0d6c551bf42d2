CONSTANTS
    None = None
    big = big
    small = small
    smart = smart
    c1 = c1
    c2 = c2
    Words = {"secret", "topic", "override", "extract", "jailbreak", "leak"}
    Models = {big, small, smart}
    Providers = {"anthropic", "openai"}
    Filters = {"secret"}
    Priority <- MCPriority
    Clients = {c1, c2}
    Inputs <- MCInputs
    Seeded <- MCSeeded
    Reloaders = {a1}
    Dump <- MCDump
    Off = Off
    Targets <- MCTargets
    MaxEdits = 1
    Family <- MCFamily
    DefaultModel <- MCDefaultModel
    Chain <- MCChain
    MaxMessages = 2
SPECIFICATION Spec
INVARIANT InjectedPromptReachesModel
