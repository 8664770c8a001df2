CONSTANTS
    Tabs = {t1, t2}
    FormTabs = {}
    Users = {u1}
    Tokens = {k1, k2, k3, k4}
    First = k1
    Flights = {f1, f2}
    MaxMishaps = 1
    None = None
SPECIFICATION Spec
PROPERTIES SessionKept
CHECK_DEADLOCK FALSE
