CONSTANTS
  Addresses = {"h1", "b1"}
  BadAddress = "<nil>"
  NilIP = NilIP
  Ports = {"80"}
  Atoms = {"a", "-"}
  Labels <- MCLabels
  NoRequest = NoRequest
  Backend <- MCBackend
  Shims = {"s1"}
  UdpShims = {}
  Bystanders = {}
  Frontend <- MCFrontend
  PublicPort <- MCPublicPort
  LabelsOf <- MCLabelsOf
  Tries = 1
  ShortOutages = TRUE
  MaxIncidents = 1
  MaxAnswers = 1
SPECIFICATION HostFairSpec
PROPERTIES Published Withdrawn
CHECK_DEADLOCK FALSE
