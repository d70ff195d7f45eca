\* The Linux service: everything two users' daemons send, with every fault.
SPECIFICATION Spec
CONSTANTS
    c1 = c1  c2 = c2
    alice = alice  bob = bob
    Conns = {c1, c2}
    NoConn = NoConn
    Users = {alice, bob}
    NoUser = NoUser
    UserOf <- TwoSessions
    Admins = {alice}
    Gens = {1, 2}
    NoGen = 0
    Commands <- UnixCommands
    Platform = "unix"
INVARIANTS CoresAreOwned RecordsAreBacked
PROPERTIES ForeignUserChangesNothing TunnelRisesOnlyOnRequest RestartBudgetHolds
