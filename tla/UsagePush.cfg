SPECIFICATION Spec
CONSTANTS
  Second = 2
  Collation <- NoTexts
  Joined <- NoTexts
  Providers = {"sqlite", "postgresql"}
  Pushers <- PushersDef
  Bodies <- BodiesDef
  Conns <- ConnsDef
  PushTimeout = 1
  MaxTime = 2
  MaxPushes = 2
  MaxFaults = 1
INVARIANTS
  TypeOK
  PresenceWindow
  AckedUsageSeen
PROPERTIES
  PushReturns
  ConnectionsReturn
CHECK_DEADLOCK FALSE
