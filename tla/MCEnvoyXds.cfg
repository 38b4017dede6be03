CONSTANTS
  Addresses = {"h1", "b1", "b2", "b3"}
  BadAddress = "<nil>"
  NilIP = NilIP
  Ports = {"80", "81"}
  Atoms = {"a", "b", "-"}
  Labels <- MCLabels
  Requests <- MCRequests
  NoAnswer = NoAnswer
SPECIFICATION FairSpec
INVARIANTS RoutesResolve TrafficOnOwnPort IInv
PROPERTIES Converges
