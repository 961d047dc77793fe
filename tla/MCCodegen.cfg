SPECIFICATION ExecutionSpec
CONSTANTS
    Nodes <- NodesV
    Programs <- ProgramsV
    Externals <- ExternalsV
    Radix = 4
    StackTop = 1024
    StringBase = 2048
    MaxTurns = 6
    MaxInstructions = 400
    MaxCalls = 3
INVARIANTS DoesWhatItMeans ReturnsToCaller StacksBalanced LabelsDefined
