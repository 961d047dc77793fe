SPECIFICATION Spec
CONSTANTS
    Procs = {p1}
    Outs = {"output"}
    OptionSets <- OneTool
INVARIANT BrokenToolAborts
CHECK_DEADLOCK FALSE
