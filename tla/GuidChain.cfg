\* A directory inside another, a watch on the outer one and a crash.
CONSTANTS
  Paths = {root, a, b}
  root = root  a = a  b = b  f1 = f1
  Root = root
  Parent <- Chain
  Above <- ChainAbove
  Own = {g1, g2, g3}
  Foreign = {f1}
  NoPath = NoPath  NoGuid = NoGuid
  WatchGuid <- WatchOnA
  MaxDiskSteps = 1
  MaxCommands = 1
  MaxRestarts = 1
  Crashes = TRUE
SPECIFICATION Spec
INVARIANTS TypeOK MapsAgree CacheBacked 
SYMMETRY Symmetry
CHECK_DEADLOCK FALSE
