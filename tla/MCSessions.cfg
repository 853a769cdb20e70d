SPECIFICATION Spec
CONSTANTS
    Handle = {h1, h2, h3}
    None = None
    channel_max = 2
    PeerChannel = {0, 1}
    MaxInFlight = 2
INVARIANTS
    TypeOK
    ChannelsSorted
    RoutedToMapped
PROPERTY
    LowestChannel
SYMMETRY Handles
CHECK_DEADLOCK FALSE
