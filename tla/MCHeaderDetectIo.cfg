SPECIFICATION Spec
CONSTANTS
    Entries <- LastByteDiffers
    Bytes = {0, 1, 3}
    MaxBytes = 6
    MaxChunk = 3
    MaxOpens = 2
INVARIANTS
    PayloadIntact
PROPERTY
    ImplementsXio
CHECK_DEADLOCK FALSE
