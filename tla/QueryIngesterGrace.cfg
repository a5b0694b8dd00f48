SPECIFICATION Spec
CONSTANTS
  Queries = {q1, q2, q3}
  BufferSize = 2
  BatchSize = 2
  DBMayFail = FALSE
INVARIANT GraceInsertsPending
