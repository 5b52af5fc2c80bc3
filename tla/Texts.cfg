SPECIFICATION TextSpec
CONSTANTS
    Paths <- MCPaths
    CodedTexts <- MCCodedTexts
    Arguments <- MCArguments
    Menus <- MCMenus
    Null = Null
    Rejected = Rejected
INVARIANTS
    BuffersSuffice
    CanonicalUnlessRootIsLost
    DecodesWellFormed
    ArgumentsComeThrough
    MenuIsAsOffered
CHECK_DEADLOCK FALSE
