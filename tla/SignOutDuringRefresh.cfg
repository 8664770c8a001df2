CONSTANTS
    Requests = {r1, r2}
    Tokens = {t1, t2}
    Families = {f1}
    Links = {l1}
    None = None
    Operations <- ResetDuringRefresh
    Threshold = 5
    MaxExponent = 38
    MaxGuesses = 1
SPECIFICATION Spec
INVARIANTS SignedOutStaysOut
