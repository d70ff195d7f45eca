SPECIFICATION Spec
CHECK_DEADLOCK FALSE
CONSTANTS
  Updaters = {u1, u2}
  NoUpdater = NoUpdater
  MaxVersion = 3
  Patient = TRUE
  Overlap = FALSE
  ServiceModes = {TRUE, FALSE}
SYMMETRY Symmetry
INVARIANTS
  TypeOK
  
  
