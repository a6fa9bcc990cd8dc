\* Three attempts to reconnect, two tries to register, two heartbeats of a kind
\* in flight, under fairness of timers and requests.
CONSTANTS
    MaxAttempts = 3
    Retries = 2
    Replies = {TRUE, FALSE}
    MaxInFlight = 2
SPECIFICATION FairSpec
INVARIANTS OneHeartbeatLoop Attended
PROPERTIES TryingEnds
