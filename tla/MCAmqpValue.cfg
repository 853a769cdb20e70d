SPECIFICATION Spec
CONSTANTS
    Values <- SomeValues
    Own <- SomeOwn
    Cuts = {1, 3}
    MAX_DECODER_DEPTH = 2
    MAX_AMQPVALUE_ITEM_COUNT = 2
    MAX_AMQPVALUE_MALLOC_SIZE_BYTES = 260
INVARIANTS
    DecodedAsSent
    LimitsEnforced
PROPERTY
    EncodedPerIso
CHECK_DEADLOCK FALSE
