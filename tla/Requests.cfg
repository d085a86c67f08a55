\* Two peers that dial us and are dialed, room for one, two Connection objects
\* alive at a time; a chunk request and a listing from all connected peers.
CONSTANTS
  Peers = {p1, p2}
  Conns = {c1, c2}
  NoPeer = NoPeer  NoConn = NoConn
  MaxPeers = 1
  DefaultTTL = 5
  DialOutcomes = {"connected", "failed"}
  MaxDials = 1
  ChunkCalls = {chunk}
  ListCalls = {}
  HashCalls = {hash}
SPECIFICATION RequestsSpec
INVARIANTS BoundToTheOtherEnd TablesAgree RegisteredIsAlive
  RequestsTypeOK HandlerRunsOnTime ChunksLeaveNothing RequestsReachThePeerMeant
SYMMETRY Symmetry
