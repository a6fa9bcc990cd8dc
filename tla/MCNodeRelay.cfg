CONSTANTS
    Sockets = {1, 2}
    None = None
    MaxAttempts = 2
    BatchSize = 3
    Small <- MCSmall
    Large <- MCLarge
    MaxWire = 2
    MaxBeats = 1
SPECIFICATION FairSpec
INVARIANTS OneAtATime BufferedAreComing BatchesArriveWhole
PROPERTIES TryingEnds
CHECK_DEADLOCK FALSE
