SPECIFICATION GeneralSpec
CONSTANTS
    Tables = {t1, t2}
    Paths = {p, q}
    Menus = {m1, m2}
    None = None
    MaxReports = 4
SYMMETRY Symmetry
INVARIANTS
    RefsAreOwned
    ThemeFollowsAnswer
    ReplyQueuesEnd
CHECK_DEADLOCK FALSE
