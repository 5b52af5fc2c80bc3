SPECIFICATION ClientFairSpec
CONSTANTS
    Reset = Reset
    None = None
    NoName = NoName
    MaxAttempts = 1
    MaxIdles = 4
    MaxResets = 3
INVARIANTS
    ReportsAlternateIfPaired
PROPERTIES
    LastingOutageIsReportedIfPaired
    LastingConnectionIsReportedIfPaired
