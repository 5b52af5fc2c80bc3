SPECIFICATION FileSpec
CONSTANTS
    Files = {f1, f2}
    Names = {a, b}
    Remote = Remote
    None = None
    Unread = Unread
    FreedKey = {"intact"}
    MaxRequests = 2
    MaxWeak = 2
SYMMETRY Symmetry
INVARIANTS
    FileTypeOK
    NoDanglingFile
    NameLeadsToItsFile
    KnownFilesAreWatched
    KnownStatusIsCurrentUnlessOutrun
PROPERTIES
    ReachableUnlessShared
