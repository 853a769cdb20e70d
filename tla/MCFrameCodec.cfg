SPECIFICATION Spec
CONSTANTS
    PeerFrames <- SomePeerFrames
    Outgoing <- SomeOutgoing
    MaxSizes = {9, 13}
    MaxFrames = 2
    MaxWire = 22
INVARIANTS
    WritesInBuffer
    FramesAsSent
    OnlyBodilessLate
    OneCallbackPerFrame
CHECK_DEADLOCK FALSE
