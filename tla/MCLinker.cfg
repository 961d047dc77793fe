SPECIFICATION Spec
CONSTANTS
    Objects <- MCObjects
    ImportTables <- MCImportTables
    SectionNames = {".text", ".rdata", ".idata", ".thnk"}
    Entry = "main"
    NameSize <- MCNameSize
    Rank <- MCRank
INVARIANTS
    TypeOK
    ImageWellFormed
    ImportTableWellFormed
    ReferencesReach
    FailsExactly
CHECK_DEADLOCK FALSE
