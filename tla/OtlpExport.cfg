SPECIFICATION Spec
CONSTANTS
  Metrics <- Mixed
  Requests <- MixedRequests
  Exports = {e1}
  ChunkSize = 2
  Cache = "all"
  AllowedJobs = {}
  DeniedJobs = {"b"}
  DryRun = FALSE
  Downstream = TRUE
  MaxChanges = 1
INVARIANTS
  TypeOK
  DropsOnlyUnused
  DropsAllUnused
