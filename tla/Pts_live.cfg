CONSTANTS
    t0 = t0
    t1 = t1
    Threads = {t0, t1}
    NoThread = NoThread
    NSlots = 2
    SlotOf <- MCSlotOf
    Error0Handlers = {}
    PibThreads = {}
    AtomicThreads = {}
    ThreadRcs = {0}
    MaxSleep = 2
    MaxWait = 2
    StoppedInit = {FALSE, TRUE}
    HwAble = {TRUE}
    CommandOps = {"schedule"}
    Errors = {}
    DoubleFaults = FALSE
SPECIFICATION FairSpec
INVARIANTS NoOversleep
PROPERTIES RequestServed CommandAnswered
