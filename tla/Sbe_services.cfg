SPECIFICATION FairSpec
CONSTANTS
    Program <- ServiceProgram
    Configs <- ServiceConfigs
    LastPosition = 2
    Steps = {0}
    DeadmanCount = 7
    PhaseMax = 1
    MaxCount = 2
    Rings = {"abus", "pci", "dmi"}
    Operations = {0, 1, 3, 4}
    Buses = {0, 1, 2, 3}
    RingLength <- Length
    ModOffset <- Table
    MaxRotate = 3
INVARIANTS
    NoWriteLost
    WokenInWinkle
    NoFalseCheckstop
    OwedIsPending
    AnsweredIsApplied
PROPERTIES
    DeadmanEnds
    InterruptComes
    RequestAnswered
