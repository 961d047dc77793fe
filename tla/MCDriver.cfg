SPECIFICATION Spec
CONSTANTS
    Procs = {p1, p2}
    Outs = {"output", "other"}
    OptionSets <- MCOptionSets
SYMMETRY ProcSymmetry
INVARIANTS
    TypeOK
    TempsRemoved
    AnnouncesItsOwn
    RunsItsOwn
PROPERTIES
    StopsWhereTold
CHECK_DEADLOCK FALSE
