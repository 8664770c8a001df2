CONSTANTS
    dev = dev
    apiKey = apiKey
    Requests = {r1, r2}
    Secrets = {s1}
    Envs = {dev}
    Keys = {apiKey}
    EnvOf <- OneEnv
    KeyOf <- OneKey
    Values = {a, b}
    None = None
    Operations <- EditAndUpdate
    MaxAttempts = 3
    MaxHistory = 4
    MaxWraps = 3
SPECIFICATION Spec
PROPERTIES MetadataUpdateKeepsValue
