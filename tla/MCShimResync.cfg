CONSTANTS
  Addresses = {"h1", "b1", "b2"}
  BadAddress = "<nil>"
  NilIP = NilIP
  Ports = {"80", "81"}
  Atoms = {"a", "b", "-"}
  Labels <- MCLabels
  NoRequest = NoRequest
  Backend <- MCBackend
  Shims = {"s1"}
  UdpShims = {}
  Bystanders = {}
  Frontend <- OneFrontend
  PublicPort <- OnePublicPort
  LabelsOf <- OneLabelsOf
  Tries = 1
  ShortOutages = FALSE
  MaxIncidents = 0
SPECIFICATION Spec
INVARIANTS ResyncDoesNotDisturb
CHECK_DEADLOCK FALSE
