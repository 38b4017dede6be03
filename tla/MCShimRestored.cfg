CONSTANTS
  Addresses = {"h1", "b1", "b2"}
  BadAddress = "<nil>"
  NilIP = NilIP
  Ports = {"80", "81"}
  Atoms = {"a", "b", "-"}
  Labels <- MCLabels
  NoRequest = NoRequest
  Backend <- MCBackend
  Shims = {"s1"}
  UdpShims = {"u1"}
  Bystanders = {"o1"}
  Frontend <- RedeployFrontend
  PublicPort <- RedeployPublicPort
  LabelsOf <- RedeployLabelsOf
  Tries = 2
  ShortOutages = TRUE
  MaxIncidents = 2
SPECIFICATION FairSpec
PROPERTIES StopTerminates Restored
CHECK_DEADLOCK FALSE
