SPECIFICATION ClientFairSpec
CONSTANTS
    Reset = Reset
    None = None
    NoName = NoName
    MaxAttempts = 1
    MaxIdles = 2
    MaxResets = 2
PROPERTIES
    LastingConnectionIsReportedUnlessStale
