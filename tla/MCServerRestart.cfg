CONSTANT MaxFaults = 1
SPECIFICATION FairSpec
PROPERTY RestartRecovers
