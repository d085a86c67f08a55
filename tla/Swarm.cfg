\* Two workers on one peer slot, and a late provider: workers queue for capacity,
\* sleep and are woken by releases, failures, completion and the late provider.
CONSTANTS
  Chunks = {c1, c2}
  InitialProviders = {p1}
  LateProviders = {p2}
  MaxParallel = 2
  ChunkBuffers = 1
  Replies <- AnyReply
  DiskOutcomes = {TRUE, FALSE}
SPECIFICATION FairSpec
INVARIANTS TypeOK JobsAccounted SlotsAccounted NoStuckWaiter FailureIsGenuine RetriesBounded
PROPERTIES  DownloadReturns ImplementsTransfer
CHECK_DEADLOCK FALSE
