SPECIFICATION Spec
CONSTANTS
    Mechanism = "PLAIN"
    Credentials <- ShortAndLong
    NotASymbol = "undecodable"
    Offers <- Lists
    MaxBytes = 6
    MaxChunk = 2
    MaxOpens = 2
INVARIANTS
    OpenedByDialogue
    WrittenOnce
PROPERTY
    ImplementsXio
CHECK_DEADLOCK FALSE
