SPECIFICATION FairSpec
CONSTANTS
  Metrics <- Fresh
  Requests <- FreshRequests
  Exports = {e1, e2}
  ChunkSize = 1
  Cache = "all"
  AllowedJobs = {}
  DeniedJobs = {"b"}
  DryRun = FALSE
  Downstream = FALSE
  MaxChanges = 4
PROPERTIES
  UsageHonoured
