\* Two processes in a row, on Linux and on Windows, with and without failing commands and requests.
CONSTANTS
    Hosts <- AnyWeather
    MaxRuns = 2
SPECIFICATION FairSpec
INVARIANTS CleanExitUndoes LeftoversCounted RunningServes
PROPERTIES ShutdownEnds
CHECK_DEADLOCK FALSE
