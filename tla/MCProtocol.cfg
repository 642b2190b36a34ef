CONSTANTS
  Wires = {"openai", "responses", "anthropic", "gemini"}
  Fronts = {"openai", "anthropic", "responses"}
  MaxItems = 3
  NoId = NoId
  Clients = {"openai", "anthropic", "responses"}
  Routes <- MCRoutes
  MaxSaid = 3
  Absent = Absent
  t1 = t1
  t2 = t2
  Threads = {t1, t2}
  Talks <- MCTalks
  Asks <- MCAsks
  NoTarget = NoTarget
  NoSession = NoSession
  Nil = Nil
  MaxRam = 1
  MaxJobs = 1
  MaxRows = 1
  PruneEvery = 2
  RamTtl = 0
  RowTtl = 1
  MaxCaptures = 2
  MaxTime = 2
SPECIFICATION ProtocolSpec
INVARIANTS ResponseSurvives RequestSurvives SecretsStayHome SignaturesAreKept
SYMMETRY AlikeThreads
CHECK_DEADLOCK FALSE
