CONSTANTS
    t0 = t0
    t1 = t1
    Threads = {t0}
    NoThread = NoThread
    NSlots = 1
    SlotOf <- MCSlotOf
    Error0Handlers = {}
    PibThreads = {}
    AtomicThreads = {}
    ThreadRcs = {0}
    MaxSleep = 1
    MaxWait = 1
    StoppedInit = {FALSE}
    HwAble = {TRUE}
    CommandOps = {"start", "stop"}
    Errors = {}
    DoubleFaults = FALSE
SPECIFICATION Spec
INVARIANTS StopMeansStopped
