\* A peer that cannot be reached at the first dial.
CONSTANTS
  Peers = {p1, p2}
  Conns = {c1}
  NoPeer = NoPeer  NoConn = NoConn
  MaxPeers = 2
  DefaultTTL = 5
  DialOutcomes = {"connected", "failed"}
  MaxDials = 2
SPECIFICATION FairSpec
PROPERTY AttemptsGoOn
CHECK_DEADLOCK FALSE
