\* Two threads download the same content to the same path.
CONSTANTS
  Threads = {"watch", "cli"}
  Hashes = {h1}
  Chunks = {c1, c2}
  Ignored = {}
  AllServe = {"good"}
  TrustedServe = {"good"}
  SwarmOutcomes = {TRUE}
  PlaceOutcomes = {"renamed"}
  ArchiveOutcomes = {"kept"}
  Inodes = {i1, i2, i3, i4}
  NoFile = NoFile
  MaxEdits = 0
  EditPlaces = {"idle"}
  MaxArchived = 0
SPECIFICATION Spec
INVARIANT VerifiedWhenRegistered
CHECK_DEADLOCK FALSE
