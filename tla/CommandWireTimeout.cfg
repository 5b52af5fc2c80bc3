SPECIFICATION WireSpec
CONSTANTS
    MaxRequests = 2
    MaxArgs = 1
    MaxOnWire = 3
INVARIANTS
    TimeoutsAreSurvived
