SPECIFICATION FairSpec
CONSTANTS
    f1 = f1
    f2 = f2
    g1 = g1
    g2 = g2
    FileReqs <- MCFileReqs
    GeneralReqs <- MCGeneralReqs
    Reset = Reset
    None = None
    MaxAttempts = 1
    MaxIdles = 2
    MaxResets = 2
INVARIANTS
    TypeOK
    OneOwner
    CompletedInOrder
    AnnouncementsAlternate
    CompletionsWithinConnection
PROPERTIES
    ServiceSpec
    ServedByThisConnection
    ForcedReconnectHappens
    LastingStateIsAnnounced
    EveryRequestCompletes
