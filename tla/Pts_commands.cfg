CONSTANTS
    t0 = t0
    t1 = t1
    Threads = {t0, t1}
    NoThread = NoThread
    NSlots = 2
    SlotOf <- MCSlotOf
    Error0Handlers = {}
    PibThreads = {}
    AtomicThreads = {}
    ThreadRcs = {0}
    MaxSleep = 1
    MaxWait = 1
    StoppedInit = {FALSE}
    HwAble = {TRUE}
    CommandOps = {"schedule", "suspend", "terminate", "remove", "stop", "start", "invalid"}
    Errors = {}
    DoubleFaults = FALSE
SPECIFICATION Spec
INVARIANTS RunningIsScheduled AnsweredOnce
PROPERTIES UnrunnableStays
