\* Two files, three contents of which two have the same size; scans by both
\* threads, the share command, downloads by the watch loop and requests.
CONSTANTS
  Paths = {p, q}
  Contents = {a, b, c}
  short = a
  Size <- OneIsShort
  Scanners = {"io", "cli"}
  Sharers = {"cli"}
  Downloaders = {"cli"}
  Nobody = Nobody  NoFile = NoFile  NoEntry = NoEntry  NoPath = NoPath
  MaxChanges = 2
SPECIFICATION FairSpec
INVARIANTS TypeOK ServedAsAsked
PROPERTY IndexCatchesUp
CHECK_DEADLOCK FALSE
