SPECIFICATION Spec
CONSTANTS
  MaxGens = 2
  Faults = {"timeout", "refusal", "exit", "death", "staging", "replay", "host", "drop"}
  Profiles = {p}
  NoProfile = NoProfile
  MaxCommits = 1
  Requests = {r1}
  Watcher = Watcher
  NoTask = NoTask
  Ops = {"Connect", "Disconnect", "Quit", "Select"}
  MaxOrphans = 0
  OnDemand = TRUE
INVARIANTS
  TypeOK
  ConnectingIsOwned
  LocksAreOrdered
  
 
