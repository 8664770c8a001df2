CONSTANTS
    dev = dev
    apiKey = apiKey
    Requests = {r1, r2}
    Secrets = {s1, s2}
    Envs = {dev}
    Keys = {apiKey}
    EnvOf <- OneEnv
    KeyOf <- OneKey
    Values = {a, b}
    None = None
    Operations <- ConcurrentWrites
    MaxAttempts = 3
    MaxHistory = 4
    MaxWraps = 3
SPECIFICATION Spec
SYMMETRY Symmetry
INVARIANTS TypeOK CurrentReadable HistoryContiguous NewestIsCurrent LiveNamesUnique
PROPERTIES HistoryKept DeletedIsFinal ImplementsHistory
