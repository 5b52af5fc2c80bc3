SPECIFICATION GeneralSpec
CONSTANTS
    Tables = {t1, t2}
    Paths = {p, q}
    Menus = {m1}
    None = None
    MaxReports = 4
INVARIANTS
    TableInUseIsAlive
CHECK_DEADLOCK FALSE
