SPECIFICATION Spec
CONSTANTS
  MaxGens = 1
  Faults = {}
  Profiles = {p}
  NoProfile = NoProfile
  MaxCommits = 1
  Requests = {r1}
  Watcher = Watcher
  NoTask = NoTask
  Ops = {"Quit"}
  MaxOrphans = 0
  OnDemand = FALSE
PROPERTY QuitNeverWarms
