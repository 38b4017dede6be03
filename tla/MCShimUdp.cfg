CONSTANTS
  Addresses = {"h1", "b1", "b2"}
  BadAddress = "<nil>"
  NilIP = NilIP
  Ports = {"80", "81"}
  Atoms = {"a", "b", "-"}
  Labels <- MCLabels
  NoRequest = NoRequest
  Backend <- MCBackend
  Shims = {"s1"}
  UdpShims = {"u1"}
  Bystanders = {}
  Frontend <- OneFrontend
  PublicPort <- OnePublicPort
  LabelsOf <- OneLabelsOf
  Tries = 1
  ShortOutages = TRUE
  MaxIncidents = 0
SPECIFICATION FairSpec
PROPERTIES ResyncRestores
CHECK_DEADLOCK FALSE
