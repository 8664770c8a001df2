CONSTANTS
    a = a
    b = b
    k1 = k1
    k2 = k2
    k3 = k3
    o1 = o1
    o2 = o2
    u1 = u1
    u2 = u2
    u3 = u3
    Keys = {a, b}
    Values = {"x", "y"}
    NoValue = NoValue
    Target = "prod"
    Sources = {"dev", "test"}
    Files = {"file"}
    Text <- MCText
    TokenEnvs = {"dev", "prod"}
    TokenIds = {"t1", "t2"}
    NoToken = NoToken
    FormSecrets = {a, b}
    NewSecret = NewSecret
    Nothing = Nothing
    MaxVersions = 3
    Saves = {"c1", "c2"}
    Organizations = {o1, o2}
    People = {u1, u2}
    Nobody = Nobody
    VaultCount <- MCVaultCount
    MostVaults = 2
    Orgs = {o1, o2}
    Staff = {u1, u2, u3}
    Me = u1
    NoOne = NoOne
    FirstRoles <- MCFirstRoles
    MaxChanges = 2
    Persons = {u1, u2, u3}
    Viewing = u1
    Unset = Unset
    FirstAccess <- MCFirstAccess
    OtherSessions = {"s1", "s2"}
    LogFilters = {"all", "some"}
    NoFilter = "all"
    PageSize = 2
    MaxEvents <- MCMaxEvents
    NoAnswer = NoAnswer
    Places = {o1, o2}
    Terms = {"", "a", "b"}
    Searched = {k1, k2, k3}
    PlaceOf <- MCPlaceOf
    TermsOf <- MCTermsOf
    NoneOpened = NoneOpened
    MaxCharacters = 3
SPECIFICATION ScreensSpec
INVARIANTS
    ScreensTypeOK
    ImportAsPreviewed
    TokenShownWhereMade
    ShownTokenWorks
    ValueTypedForSecret
    PageOffersOnlyAllowed
    ChoiceKept
    RemovedByEmail
    SaysWhatHappened
    OthersSignedOut
    EmptyPageHasCause
    OpensMatch
    RoundTrip
CHECK_DEADLOCK FALSE
