SPECIFICATION Spec
CONSTANTS
    MaxSends = 2
    MaxLimit = 2
    CREDIT_MOD = 8
INVARIANT NoLateCompletion
CHECK_DEADLOCK FALSE
