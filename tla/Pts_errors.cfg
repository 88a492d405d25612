CONSTANTS
    t0 = t0
    t1 = t1
    Threads = {t0, t1}
    NoThread = NoThread
    NSlots = 2
    SlotOf <- MCSlotOf
    Error0Handlers = {t0}
    PibThreads = {t1}
    AtomicThreads = {}
    ThreadRcs = {0, 1}
    MaxSleep = 1
    MaxWait = 1
    StoppedInit = {FALSE}
    HwAble = {TRUE}
    CommandOps = {"schedule", "scomError"}
    Errors = {0, 1}
    DoubleFaults = FALSE
SPECIFICATION Spec
INVARIANTS EmrMatchesThread FatalIsReported ResumeHasContext
PROPERTIES InterruptsOnlyInWindows
