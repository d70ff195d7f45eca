SPECIFICATION Spec
CONSTANTS
  MaxGens = 1
  Faults = {"death"}
  Profiles = {p}
  NoProfile = NoProfile
  MaxCommits = 1
  Requests = {r1}
  Watcher = Watcher
  NoTask = NoTask
  Ops = {"Connect", "Disconnect"}
  MaxOrphans = 0
  OnDemand = FALSE
PROPERTY DisconnectCancelsReconnect
