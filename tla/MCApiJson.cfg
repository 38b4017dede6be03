CONSTANTS
  Addresses = {"10.0.0.1", "172.16.0.2", "172.16.0.3"}
  BadAddress = "<nil>"
  Ports = {p80, p81, p8080}
  p80 = p80
  p81 = p81
  p8080 = p8080
  Atoms <- MCAtoms
  Labels <- MCLabels
  NilIP = NilIP
  Nil = Nil
  Registered <- MCRegistered
SPECIFICATION Spec
INVARIANTS TypeOK RoundTrip CutIsRejected OtherVersionsAreRead ReadsEnvoyXds ListedIsAnswered
PROPERTY DecoderEnds
