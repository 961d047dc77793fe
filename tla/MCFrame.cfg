SPECIFICATION Spec
CONSTANTS
    Names = {x, y}
    StructNames = {"Pair"}
    Layouts <- MCLayouts
    VarTypes <- MCVarTypes
    ValueTypes <- MCValueTypes
    Quotas = {2}
    MaxArgs = 7
    MaxSlots = 2
    MaxNesting = 3
    MaxDepth = 2
SYMMETRY NameSymmetry
CONSTRAINT FewQuirks
INVARIANTS
    TypeOK
    SlotsDisjoint
    FrameCoversBody
    TempsLIFO
    StoresInSlot
    WordsAligned
    CallsWellFormed
CHECK_DEADLOCK FALSE
