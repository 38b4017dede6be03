CONSTANTS
  Addresses = {"h1", "b1", "b2", "b3"}
  BadAddress = "h?"
  NilIP = NilIP
  Ports = {"80", "81"}
  Atoms = {"a", "b", "-"}
  Labels <- MCLabels
  c1 = c1
  c2 = c2
  c3 = c3
  Calls = {c1, c2, c3}
  NoCall = NoCall
  Requests <- MCRequests
  Lookups <- MCLookups
SPECIFICATION FairSpec
INVARIANTS TypeOK RWExclusion ListingIsCurrent KeyedByName IInv
PROPERTIES EveryCallReturns PortIsolation Linearizable
