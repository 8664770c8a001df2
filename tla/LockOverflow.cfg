CONSTANTS
    Requests = {r1}
    Tokens = {t1}
    Families = {f1}
    Links = {l1}
    None = None
    Operations <- LoginsAndLocks
    Threshold = 5
    MaxExponent = 38
    MaxGuesses = 7
SPECIFICATION Spec
PROPERTIES EveryLateFailureLocks
