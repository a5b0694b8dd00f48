SPECIFICATION FairSpec
CONSTANTS
  Queries = {q1, q2, q3, q4}
  BufferSize = 2
  BatchSize = 2
  DBMayFail = TRUE
INVARIANTS
  TypeOK
  NoSendOnClosedChannel
  FIFOConservation
  ReturnMeansSettled
  UnparsedOnlyInDrain
PROPERTIES
  ImplementsIngestLog
  ShutdownTerminates
  IngestReturns
  AcceptedIsSettled
