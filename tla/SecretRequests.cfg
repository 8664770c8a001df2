CONSTANTS
    dev = dev
    apiKey = apiKey
    Requests = {r1}
    Secrets = {s1}
    Envs = {dev}
    Keys = {apiKey}
    EnvOf <- OneEnv
    KeyOf <- OneKey
    Values = {a, b}
    None = None
    Operations <- AllOperations
    MaxAttempts = 3
    MaxHistory = 3
    MaxWraps = 5
SPECIFICATION FairSpec
INVARIANTS HistoryReadable GivesUpOnlyAfterKeyChanges
PROPERTIES EveryRequestEnds
