SPECIFICATION HookReachableSpec
CONSTANTS
    Hooks <- MCHooks
    Args <- MCArgs
    NoName = NoName
    MaxArgs = 3
    MaxSent = 6
INVARIANTS
    HookTypeOK
    OneLifeline
    WholeFrames
PROPERTIES
    HangUpIsNoticed
    HookComesBack
