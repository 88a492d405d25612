SPECIFICATION Spec
CONSTANTS
    Program <- BootProgram
    Configs <- BootConfigs
    LastPosition = 2
    Steps = {0, 1}
    DeadmanCount = 0
    PhaseMax = 1
    MaxCount = 0
    Rings = {}
    Operations = {}
    Buses = {}
    RingLength <- Length
    ModOffset <- Table
    MaxRotate = 1
INVARIANTS
    HaltCodeTells
    GoodHaltUnlocked
    SlaveNeverStarts
    SelectedCore
    AttentionStopsBoot
