\* The command line alone: only the trusted providers are honest, transfers and
\* moves fail; conflict accept, sync force and a conflict on either hash; the user writes the
\* path, but not between its check and the registration.
CONSTANTS
  Threads = {"cli"}
  Hashes = {h1, h2}
  Chunks = {c1, c2}
  Ignored = {h2}
  AllServe = {"good", "bad"}
  TrustedServe = {"good"}
  SwarmOutcomes = {TRUE, FALSE}
  PlaceOutcomes = {"renamed", "copied", "torn"}
  ArchiveOutcomes = {"kept"}
  Inodes = {i1, i2, i3, i4, i5}
  NoFile = NoFile
  MaxEdits = 1
  EditPlaces = {"idle", "archive", "purge", "lookup", "check", "conflict", "accepted", "hung"}
  MaxArchived = 2
SPECIFICATION Spec
INVARIANTS TypeOK VerifiedWhenRegistered RetryRepairs
PROPERTIES  ImplementsPathUpdate
VIEW SeenState
CHECK_DEADLOCK FALSE
