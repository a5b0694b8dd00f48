SPECIFICATION Spec
CONSTANTS
  Metrics <- Plain
  Requests <- PlainRequests
  Exports = {e1}
  ChunkSize = 2
  Cache = "none"
  AllowedJobs = {}
  DeniedJobs = {"b"}
  DryRun = FALSE
  Downstream = TRUE
  MaxChanges = 0
INVARIANTS
  LookupFailureSkipsDrops
