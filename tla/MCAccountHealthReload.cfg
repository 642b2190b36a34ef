CONSTANTS
  Requests = {}
  Background = {"loop", "prober", "operator"}
  Threshold = 1
  OpenSecs = 0
  ProbeGap = 0
  Cooldowns = {0}
  MaxTime = 0
  MaxFailures = 1
  MaxReloads = 2
  Never = Never
SPECIFICATION ReloadSpec
PROPERTY SnapshotCatchesUp

