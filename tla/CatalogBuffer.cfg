SPECIFICATION Spec
CONSTANTS
  Metrics <- MCMetrics
  Kind <- MCKind
  Requests <- MCRequests
  Exports = {e1, e2}
  BufferSize = 3
  Remote = FALSE
SYMMETRY Symmetry
INVARIANTS
  TypeOK
  SeenIsStored
  SuppressedVariantsStored
PROPERTIES
  NoSilentLoss
