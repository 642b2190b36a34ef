CONSTANTS
  p1 = p1
  p2 = p2
  net = net
  cred = cred
  None = None
  Packages <- MCPackages
  Declares <- MCDeclares
  Quota <- MCQuota
  Uses <- MCUses
  Facts = {"f1", "f2"}
  OwnKeys = {"k1"}
  Settings = {"s1"}
  Admins = {"a1", "a2"}
  Callers = {"c1", "c2"}
  Global = 2
  Threshold = 1
  Bounds <- MCBounds
  LogRows <- MCLogRows
  Capacity = 1
  BatchSize = 1
  Depths = 4
  OwnerOf <- MCOwnerOf
  RouteModels <- MCRouteModels
  ModelOwner <- MCModelOwner
  Budget <- MCBudget
  MinRows = 1
  RecentRows = 2
  FallbackPct = 100
  ErrorPct = 50
  SampleAge = 0
  MinSamples = 1
  MaxSamples = 2
  SlowMs = 1
  Sustain = 1
  Latencies = {1, 2}
  NoTime = NoTime
  Deleted = Deleted
  MaxMoment = 1
  MaxEvents = 3
  Signals <- MCSignals
  Unmeasured = Unmeasured
  Steps <- MCSteps
  Period = 2
  Windows = {1, 2}
  Retention = 2
  Slots = 1
  FlushAt = 5
  MaxBeat = 4
  MaxSignals = 3
  MaxLive = 2
  FinishedTail = 0
  MaxStarted = 4
  Parts = {"plugins", "usage", "health", "speed", "telemetry", "live"}
SPECIFICATION OperationsSpec
CHECK_DEADLOCK FALSE
INVARIANTS PluginIsSound AlertingIsTrue TelemetryIsTrue ViewIsTrue
PROPERTY ProbeIsAlone
