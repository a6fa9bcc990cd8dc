CONSTANTS
    Flows = {f1, f2}
    Sockets = {s1, s2, s3}
    NoSocket = NoSocket
    IdleTimeout = 1
    MaxIdle = 2
SPECIFICATION FairSpec
INVARIANTS AloneIsOne
PROPERTIES OnlyRivalsCut CallsSettle
