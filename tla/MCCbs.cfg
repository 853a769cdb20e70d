CONSTANTS
    MaxOperations = 2
    MaxOpens = 2
    MaxFaults = 1
SPECIFICATION Spec
INVARIANTS TypeOK PointersLive OpenAnsweredOnce
PROPERTY ImplementsOperations
CHECK_DEADLOCK FALSE
