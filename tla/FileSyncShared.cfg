\* Two threads download the same hash to the same path from honest providers
\* whose transfers do not fail; the user writes the path while no transfer runs.
CONSTANTS
  Threads = {"watch", "cli"}
  Hashes = {h1}
  Chunks = {c1, c2}
  Ignored = {}
  AllServe = {"good"}
  TrustedServe = {"good"}
  SwarmOutcomes = {TRUE}
  PlaceOutcomes = {"renamed"}
  ArchiveOutcomes = {"kept"}
  Inodes = {i1, i2, i3, i4}
  NoFile = NoFile
  MaxEdits = 1
  EditPlaces = {"idle", "lookup", "check", "open", "mismatch", "place", "register", "conflict"}
  MaxArchived = 0
SPECIFICATION FairSpec
INVARIANTS  StagingIsTidy
PROPERTY CallsReturn
CHECK_DEADLOCK FALSE
