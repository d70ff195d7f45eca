\* Two users' cores, downloads and fixes, under fairness.
SPECIFICATION FairSpec
CONSTANTS
    c1 = c1  c2 = c2
    alice = alice  bob = bob
    Conns = {c1, c2}
    NoConn = NoConn
    Users = {alice, bob}
    NoUser = NoUser
    UserOf <- TwoSessions
    Admins = {alice}
    Gens = {1}
    NoGen = 0
    Commands <- LongCommands
    Platform = "windows"
INVARIANTS TypeOK SlotsAreExclusive
PROPERTIES VanishedClientReleases CrashIsHandled SlotsAreFreed StopCompletes
           ForeignUserChangesNothing LeaseSpec
