\* One watch at the start and a second one, two directories, two peers.
CONSTANTS
  Ids = {w1, w2}
  Peers = {p, q}
  Guids = {g, h}
  Paths = {a}
  p = p  q = q  g = g  h = h  a = a  w1 = w1
  NoPath = NoPath
  Targets <- Named
  Origin <- FromTheOther
  Saved <- OnQ
  NoEntry = NoEntry
  MaxCommands = 2
  MaxRestarts = 1
SPECIFICATION FairSpec
INVARIANTS TypeOK  RemovedStaysRemoved FileHoldsTheWatches DestinationsApart
PROPERTY WatchesRun
CHECK_DEADLOCK FALSE
