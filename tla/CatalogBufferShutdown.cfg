SPECIFICATION Spec
CONSTANTS
  Metrics <- MCMetrics
  Kind <- MCKind
  Requests <- MCRequests
  Exports = {e1}
  BufferSize = 4
  Remote = FALSE
INVARIANTS
  ShutdownLosesNothing
