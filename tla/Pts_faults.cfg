CONSTANTS
    t0 = t0
    t1 = t1
    Threads = {t1}
    NoThread = NoThread
    NSlots = 2
    SlotOf <- MCSlotOf
    Error0Handlers = {t1}
    PibThreads = {}
    AtomicThreads = {t1}
    ThreadRcs = {0}
    MaxSleep = 1
    MaxWait = 1
    StoppedInit = {FALSE}
    HwAble = {TRUE, FALSE}
    CommandOps = {"doubleFault"}
    Errors = {0, 1}
    DoubleFaults = TRUE
SPECIFICATION Spec
INVARIANTS PtsRunsOnlyWhenEnabled
