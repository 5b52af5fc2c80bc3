SPECIFICATION FileSpec
CONSTANTS
    Files = {f1, f2}
    Names = {a, b}
    Remote = Remote
    None = None
    Unread = Unread
    FreedKey = {"garbage"}
    MaxRequests = 0
    MaxWeak = 2
SYMMETRY Symmetry
INVARIANTS
    NoDanglingFile
