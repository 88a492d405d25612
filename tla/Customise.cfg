CONSTANTS
    Sections = {0, 2, 4, 5, 6, 7, 8, 9, 10, 11, 12, 13, 14, 15}
    Cells <- MCCells
    Zero <- W
    Samples <- MCSamples
    Targets = {}
    BufferSize = 52
    Allocations = {}
    FinalAlignment = 1
    CodeAlignment = 1
    DataAlignment = 1
    LinkAddress = 64
    Images <- MCImages
    RingName = {"A", "B", "G", "R"}
    SlotOf <- MCSlotOf
    FixedNames = {"G", "R", "proc_sbe_decompress_scan_chiplet_address", "scan_max_rotate_38xxx", "waits_delay_for_scan"}
    VpdG <- MCVpdG
    VpdR <- MCVpdR
    CidExLow = 16
    CidExHigh = 17
    RingBuffer = 4
    Writers = {1, 2}
    CentaurWriters = {1}
    Requests <- MCRequests
    RefMax = 33
    Torn = {10, 25}
    FullList = 3
    Cores = 2
    RamOps = 3
    ScomOps <- MCScomOps
    CoreRegs = {"HRMOR", "HMEER"}
    ThreadRegs = {"LPCR"}
    Threads = 2
    SlwAlignment = 2
    FfdcSize = 2
    FixedSize = 52
    RamVector = 73
    ScomVectors <- MCScomVectors
    DdLevels = {16}
    VpdRings <- MCVpdRings
    Program <- MCProgram
    MaxAlign = 1
    CentaurMax = 33
    RamRequests <- MCRamRequests
    ScomRequests <- MCScomRequests
    FullTables = 1
    FullRams = 0
    FullVpd = 2
    RuntimeScom <- MCRuntimeScom
SPECIFICATION BuildSpec
INVARIANTS NoRingLost ReadsBack LastRingWins AllLead TablesApply
CHECK_DEADLOCK FALSE
