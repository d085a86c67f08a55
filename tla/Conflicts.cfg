\* Two contents offered for one file, named by the path, the directory above it
\* and one hash; downloads of both threads; up to two files in the stage
\* directory, one left by an earlier run.
CONSTANTS
  Threads = {"cli", "watch"}
  Items = {one, other}
  one = one  other = other
  Keys = {above, below, hash}
  above = above  below = below  hash = hash
  Match <- Matches
  Rule <- Rules
  Ids = {i1, i2}
  Files = {f1, f2}
  Nobody = Nobody  NoEntry = NoEntry  NoPreview = NoPreview
SPECIFICATION FairSpec
INVARIANTS QueuedOnce 
PROPERTY StuckOnlyByRelock
CHECK_DEADLOCK FALSE
