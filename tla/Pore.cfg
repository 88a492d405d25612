SPECIFICATION Spec
CONSTANTS
    Creations <- SomeCreations
    Calls <- SomeCalls
    Targets <- SomeTargets
    FullProgram <- Program
    Readings <- SomeReadings
    Shifts <- SomeShifts
    Codes <- SomeCodes
    ScrubJobs <- SomeScrubJobs
    Rings <- SomeRings
    Overlays <- SomeOverlays
    MaxRotate = 31
    ScanMaxRotate = 64
    MaxLong = 127
    LongBits = 32
CHECK_DEADLOCK FALSE
INVARIANTS
    ListingIsProgram
    MacrosCompute
    RingsReach
    DatacareReplaces
    NothingIsLost
