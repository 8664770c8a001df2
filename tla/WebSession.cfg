CONSTANTS
    Tabs = {t1, t2}
    FormTabs = {t1}
    Users = {u1}
    Tokens = {k1, k2, k3}
    First = k1
    Flights = {f1, f2}
    MaxMishaps = 1
    None = None
SPECIFICATION Spec
INVARIANTS TypeOK OneRefresh CookieWorks
PROPERTIES LoadingEnds RequestsEnd
CHECK_DEADLOCK FALSE
