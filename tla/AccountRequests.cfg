CONSTANTS
    Requests = {r1, r2}
    Tokens = {t1, t2, t3}
    Families = {f1, f2}
    Links = {l1, l2}
    None = None
    Operations <- AllOperations
    Threshold = 2
    MaxExponent = 5
    MaxGuesses = 4
SPECIFICATION Spec
SYMMETRY Symmetry
INVARIANTS TypeOK OneTokenPerSession SignOutFinal GuessesBounded LinkResetsOnce
