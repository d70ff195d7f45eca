SPECIFICATION FairSpec
CONSTANTS
  MaxGens = 1
  Faults = {"death", "drop"}
  Profiles = {p}
  NoProfile = NoProfile
  MaxCommits = 1
  Requests = {r1}
  Watcher = Watcher
  NoTask = NoTask
  Ops = {"Connect", "Disconnect"}
  MaxOrphans = 1
  OnDemand = FALSE
PROPERTIES
  RequestsAreAnswered
  
  
