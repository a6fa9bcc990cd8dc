\* Two calls of connect() for either of two endpoints, one given by name, on a
\* host that may be left over, under fairness of the network and the timers.
CONSTANTS
    MaxRelays = 2
    Offers = {TRUE, FALSE}
    Servers <- TwoServers
    Named <- OneNamed
    NoServer = NoServer
    Hosts <- AnyHost
    s1 = s1
    s2 = s2
SPECIFICATION HostSpec
INVARIANTS Equipped ConnectedMeansOpen Attended 
PROPERTIES ConnectsAgain
CHECK_DEADLOCK FALSE
