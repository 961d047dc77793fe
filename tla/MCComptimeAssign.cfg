SPECIFICATION Spec
CONSTANTS
    Statements <- AssignStatements
    Inputs = {0, 1}
    MaxLen = 4
    Limit = 2
    CastRange = 4
    Words <- MCWords
    Depth = 4
    MaxTurns = 6
INVARIANTS
    SimpleAssignmentsAccepted
CHECK_DEADLOCK FALSE
