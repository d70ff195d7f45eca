SPECIFICATION Spec
CONSTANTS
  Ids = {p1, p2}
  NoId = NoId
  MaxGen = 2
  Retained = 1
  MaxProfiles = 2
  Legacy = TRUE
SYMMETRY Symmetry
INVARIANTS
  TypeOK
  AgreedSurvives
  PromisedSurvives
  MemoryMatchesDisk
  
