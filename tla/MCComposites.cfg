SPECIFICATION Spec
CONSTANTS
    Types <- AllTypes
    Handles = {h1, h2}
    MaxValues = 1
    MaxSets = 2
INVARIANTS
    ReadsBack
    AcceptedByPeer
    CountIsHolders
CHECK_DEADLOCK FALSE
