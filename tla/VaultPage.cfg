CONSTANTS
    v1 = v1
    dev = dev
    prod = prod
    s1 = s1
    s2 = s2
    devName = devName
    prodName = prodName
    None = None
    Vaults = {v1}
    Envs <- TwoEnvs
    Secrets <- TwoSecrets
    Names = {devName, prodName}
    VaultOf <- VaultOfTwo
    NameOf <- NamesOfTwo
    HomeOf <- HomesOfTwo
    Existing <- ExistingOfTwo
    Shared <- SharedOfTwo
    Filters <- FiltersOfTwo
    Role = "owner"
    Countdown = 2
    Slots = {1}
    Loops = {1}
    Beside = {"delete"}
    MaxFocus = 1
SPECIFICATION Spec
INVARIANTS TypeOK RevealMatches BulkReportsFailures
PROPERTIES  ConfirmedByTyping ValueIsHidden
CHECK_DEADLOCK FALSE
