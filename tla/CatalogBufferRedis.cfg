SPECIFICATION FairSpec
CONSTANTS
  Metrics <- TwoGauges
  Kind <- TwoKinds
  Requests <- TwoRequests
  Exports = {e1}
  BufferSize = 1
  Remote = TRUE
INVARIANTS
  SeenIsStored
PROPERTIES
  QueuedIsStored
  ShutdownTerminates
