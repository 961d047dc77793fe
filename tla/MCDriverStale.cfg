SPECIFICATION Spec
CONSTANTS
    Procs = {p1}
    Outs = {"output"}
    OptionSets <- StopAndRun
INVARIANT RunsWhatItBuilt
CHECK_DEADLOCK FALSE
