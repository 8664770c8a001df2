CONSTANTS
    Requests = {r1, r2}
    Tokens = {t1}
    Families = {f1}
    Links = {l1, l2}
    None = None
    Operations <- ForgotTwice
    Threshold = 5
    MaxExponent = 38
    MaxGuesses = 1
SPECIFICATION Spec
INVARIANTS OnlyNewestLinkWorks
