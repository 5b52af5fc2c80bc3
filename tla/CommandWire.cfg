SPECIFICATION WireFairSpec
CONSTANTS
    MaxRequests = 2
    MaxArgs = 2
    MaxOnWire = 3
INVARIANTS
    AnswersMatchUnlessSwallowed
    LagIsAccounted
PROPERTIES
    OnlyEndlessErrorsHold
CHECK_DEADLOCK FALSE
