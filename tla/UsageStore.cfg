SPECIFICATION Spec
CONSTANTS
  Second = 4
  Collation <- CollationDef
  Joined <- JoinedDef
  Configs <- ConfigsDef
  Instants <- InstantsDef
  Metrics <- MetricsDef
  Requests <- RequestsDef
  Pushes <- PushesDef
  Texts <- TextsDef
  Fingerprint <- FingerprintDef
  Matchers <- MatchersDef
  RuleRows <- RuleRowsDef
  DashboardItems <- DashboardItemsDef
  Types <- TypesDef
  JobItems <- JobItemsDef
  Ranges <- RangesDef
  PageSizes = {1, 2}
  MaxRows = 2
INVARIANTS
  TypeOK
  BucketsAddUp
  PagesPartition
  UnusedShowsNoUsage
  ProvidersAgree
PROPERTIES
  RetentionHonoursAge
  UsedNotCalledUnused
CHECK_DEADLOCK FALSE
