CONSTANTS
    Payloads <- MCPayloads
    AVAILABLE = 2
    INCOMING_WINDOW = 1
    MAX_LINK_CREDIT = 2
    MOD = 8
    MaxMessages = 3
    MaxFaults = 1
    MaxFlows = 1
SPECIFICATION TransferSpec
INVARIANTS TransferTypeOK DeliveredIntact WindowKept
PROPERTY AllDelivered
CHECK_DEADLOCK FALSE
