\* Two hosts, two generations, every fault, one dropped call that waits.
SPECIFICATION Spec
CONSTANTS
    MaxHosts = 2
    MaxGens = 2
    MaxLate = 1
INVARIANTS TypeOK OneGeneration ReadyLeavesNoCores
PROPERTIES ConnectIsServed
