SPECIFICATION Spec
CONSTANTS
  Second = 4
  Collation <- CollationDef
  Joined <- JoinedDef
  Configs <- SqliteOnly
  Instants <- InstantsDef
  Metrics <- MetricsDef
  Requests <- RequestsDef
  Pushes <- PushesDef
  Texts <- TextsDef
  Fingerprint <- FingerprintDef
  Matchers <- MatchersDef
  RuleRows <- RuleRowsDef
  DashboardItems <- DashboardItemsDef
  Types <- TypesDef
  JobItems <- JobItemsDef
  Ranges <- RangesDef
  PageSizes = {1, 2}
  MaxRows = 2
PROPERTY
  DeletesOnlyPastMaxAge
CHECK_DEADLOCK FALSE
