\* Two sockets of one client, one handler in flight and the clean-up timer.
\* Every store command may be rejected; the process may stop and start again.
CONSTANTS
    s1 = s1
    s2 = s2
    n1 = n1
    w1 = w1
    w2 = w2
    w3 = w3
    c1 = c1
    c2 = c2
    sweep = sweep
    NoSession = NoSession
    NoSocket = NoSocket
    Sessions <- OneSession
    Nodes <- Empty
    Sockets <- TwoSockets
    Calls <- OneCallAndSweep
    Sweepers <- Sweep
    Faults <- AllFaults
    MayCrash = TRUE
SPECIFICATION Spec
SYMMETRY Symmetry
INVARIANTS OnlyRivalsDisplace
PROPERTIES AdmittedSessionsAreLive YoungClosedOnlyByItsClient
