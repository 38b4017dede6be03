CONSTANT MaxFaults = 2
SPECIFICATION FairSpec
INVARIANTS IInv CleanExit ShimsFindServer
PROPERTIES StopEnds ComesUp
