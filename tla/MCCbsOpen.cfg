CONSTANTS
    MaxOperations = 0
    MaxOpens = 2
    MaxFaults = 0
SPECIFICATION Spec
INVARIANT OpenMeansBoth
CHECK_DEADLOCK FALSE
