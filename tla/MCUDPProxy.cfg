CONSTANTS
  Clients <- MCClients
  Conns = {u1, u2}
  u1 = u1
  u2 = u2
  NoClient = NoClient
  NoConn = NoConn
SPECIFICATION FairSpec
INVARIANTS HitIsUsable NoOrphan RepliesReachAsker IInv
PROPERTIES OwnEntryOnly RunKeepsReading CloseReleases
CHECK_DEADLOCK FALSE
