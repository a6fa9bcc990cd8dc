\* One socket of one client and the clean-up timer, under fairness.
\* Redis may reject any command; the table answers, as no session would end otherwise.
CONSTANTS
    s1 = s1
    s2 = s2
    n1 = n1
    w1 = w1
    w2 = w2
    w3 = w3
    c1 = c1
    c2 = c2
    sweep = sweep
    NoSession = NoSession
    NoSocket = NoSocket
    Sessions <- OneSession
    Nodes <- Empty
    Sockets <- OneSocket
    Calls <- OneCallAndSweep
    Sweepers <- Sweep
    Faults <- RedisFaults
    MayCrash = FALSE
SPECIFICATION FairSpec
PROPERTIES LeftSocketsForgotten SessionsEnd
