SPECIFICATION Spec
CONSTANTS
  MaxGens = 2
  Faults = {"store"}
  Profiles = {p, q}
  NoProfile = NoProfile
  MaxCommits = 2
  Requests = {r1, r2}
  Watcher = Watcher
  NoTask = NoTask
  Ops = {"Connect", "Disconnect", "Refresh", "Activate", "Replace", "Import", "Delete"}
  MaxOrphans = 0
  OnDemand = FALSE
SYMMETRY Symmetry
INVARIANTS
  
  ConnectedRunsItsSnapshot
