\* Two nodes, up to two clients and three sessions, two requests in flight.
CONSTANTS
    n1 = n1
    n2 = n2
    a = a
    b = b
    any = any
    s1 = s1
    s2 = s2
    s3 = s3
    c1 = c1
    c2 = c2
    Anything = Anything
    NoSession = NoSession
    Nobody = Nobody
    Nodes <- TwoNodes
    profile <- Profile
    Clients <- TwoClients
    Targets <- AnyTarget
    Requirements <- SomeRequirements
    Nets <- SomeNets
    SessionIds <- ThreeSessions
    Calls <- TwoCalls
    Worlds <- AnyWorld
    CacheTtl = 5
SPECIFICATION Spec
SYMMETRY Symmetry
INVARIANTS AnswersFresh AnswersAreOwn NoSessionFlood
PROPERTIES ChoiceIsSound
CHECK_DEADLOCK FALSE
