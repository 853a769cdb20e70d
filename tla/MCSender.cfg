SPECIFICATION FairSpec
CONSTANTS
    MaxSends = 2
    MaxLimit = 2
    CREDIT_MOD = 8
INVARIANTS
    TypeOK
    CompletedOnce
    DeliveriesOwned
    InOrder
    WorkConserving
    CreditRespected
PROPERTY
    TransferEnds
CHECK_DEADLOCK FALSE
