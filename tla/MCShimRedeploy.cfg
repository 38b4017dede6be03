CONSTANTS
  Addresses = {"h1", "b1", "b2"}
  BadAddress = "<nil>"
  NilIP = NilIP
  Ports = {"80", "81"}
  Atoms = {"a", "b", "-"}
  Labels <- MCLabels
  NoRequest = NoRequest
  Backend <- MCBackend
  Shims = {"s1", "s2"}
  UdpShims = {}
  Bystanders = {}
  Frontend <- RedeployFrontend
  PublicPort <- RedeployPublicPort
  LabelsOf <- RedeployLabelsOf
  Tries = 1
  ShortOutages = TRUE
  MaxIncidents = 1
SPECIFICATION Spec
INVARIANTS TypeOK CleanShutdown RegistrationLasts OneListenerPerAddress IInv
CHECK_DEADLOCK FALSE
