CONSTANTS
    dev = dev
    apiKey = apiKey
    Requests = {r1}
    Secrets = {s1}
    Envs = {dev}
    Keys = {apiKey}
    EnvOf <- OneEnv
    KeyOf <- OneKey
    Values = {a, b}
    None = None
    Operations <- EditAndRotation
    MaxAttempts = 3
    MaxHistory = 3
    MaxWraps = 5
SPECIFICATION Spec
INVARIANTS CurrentReadable
