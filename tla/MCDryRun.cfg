CONSTANTS
  q1 = q1
  q2 = q2
  Requests = {q1, q2}
  Background = {"operator"}
  Threshold = 2
  OpenSecs = 1
  ProbeGap = 0
  Cooldowns = {0}
  MaxTime = 1
  MaxFailures = 2
  MaxReloads = 0
  Never = Never
  Routes <- MCRoutes
  Wishes <- MCWishes
  FactLists <- MCFactLists
  Loads <- MCLoads
  Healths <- MCHealths
  Quotas <- MCQuotas
  None = None
  NearReset = 1
  SoonReset = 2
  GlobalAge = 1
  MaxPasses = 3
  MaxChanges = 2
  MaxHour = 1
  Admins = {"a1", "a2"}
  Passwords = {"p0", "p1"}
  Token = "p0"
  Unset = Unset
  SessionTtl = 1
  MaxMinute = 2
  MaxLogins = 2
  MaxChanged = 2
  Editors = {"e1", "e2"}
  Callers = {"c1"}
  Edits <- MCEdits
  Omitted = Omitted
  Addresses <- MCAddresses
  Width = 2
  PerWindow = 1
  Window = 2
  KeyLife = 1
  MaxTracked = 0
  MaxSecond = 2
  MaxKeys = 1
  MaxEdits = 2
  MaxBurst = 2
  Browsers = {"b1", "b2"}
  Bindings = {"x", "y"}
  Gone = Gone
  FlowTtl = 1
  MaxFlows = 2
  MaxSwaps = 1
  MaxDay = 1
  Parts = {"plan"}
SPECIFICATION ServicesSpec
INVARIANT RequestsGoRound
CHECK_DEADLOCK FALSE
