SPECIFICATION FairSpec
CONSTANTS
    Paths <- MCPaths
    Files <- MCFiles
    FileOf <- MCFileOf
    Root = "root"
    Programs <- MCPrograms
    BadSets <- MCBadSets
INVARIANTS
    TypeOK
    EachOnce
    DependenciesFirst
    ExactlyNeeded
    FailsExactly
PROPERTIES
    Terminates
    ImplementsImportOrder
CHECK_DEADLOCK FALSE
