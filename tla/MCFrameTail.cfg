SPECIFICATION Spec
CONSTANTS
    Names = {x, y}
    StructNames = {"Rgb"}
    Layouts <- RgbOnly
    VarTypes <- RgbVarTypes
    ValueTypes <- RgbValueTypes
    Quotas = {2}
    MaxArgs = 5
    MaxSlots = 2
    MaxNesting = 2
    MaxDepth = 1
SYMMETRY NameSymmetry
INVARIANT StructsLeaveOthers
CHECK_DEADLOCK FALSE
