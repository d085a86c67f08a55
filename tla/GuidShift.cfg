\* Listings alone: no command, no download, no watch.
CONSTANTS
  Paths = {root, a}
  root = root  a = a  b = b  f1 = f1
  Root = root
  Parent <- Twins
  Above <- TwinsAbove
  Own = {g1, g2, g3}
  Foreign = {}
  NoPath = NoPath  NoGuid = NoGuid
  WatchGuid <- NoWatch
  MaxDiskSteps = 0
  MaxCommands = 0
  MaxRestarts = 0
  Crashes = FALSE
SPECIFICATION Spec
PROPERTY ResolvedGuidStays
CHECK_DEADLOCK FALSE
