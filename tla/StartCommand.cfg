SPECIFICATION StartFairSpec
CONSTANTS
    Starters = {s1, s2}
    Daemons = {d1, d2}
    None = None
    MaxPolls = 2
INVARIANTS
    DoneMeansAnswered
    GivesUpOnlyAtDeadline
    BrokenInstallIsReported
    InstallsOnlyAfterWholeWait
PROPERTIES
    EveryStartEnds
CHECK_DEADLOCK FALSE
