\* conflict accept, under fairness.
CONSTANTS
  Threads = {"cli", "watch"}
  Items = {one, other}
  one = one  other = other
  Keys = {above, below, hash}
  above = above  below = below  hash = hash
  Match <- Matches
  Rule <- Rules
  Ids = {i1, i2}
  Files = {f1, f2}
  Nobody = Nobody  NoEntry = NoEntry  NoPreview = NoPreview
SPECIFICATION FairSpec
PROPERTY AcceptReturns
CHECK_DEADLOCK FALSE
