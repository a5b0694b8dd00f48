SPECIFICATION FairSpec
CONSTANTS
  Replicas = {r1, r2}
  None = None
  Dead = Dead
  Names = {n}
  Jobs = {j}
  MetadataSync = TRUE
  JobSync = TRUE
  MaxFaults = 3
  MaxChanges = 1
INVARIANTS
  TypeOK
  OneLeader
PROPERTIES
  SummaryConverges
