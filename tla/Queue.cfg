CONSTANTS
    r0 = r0
    r1 = r1
    Records = {r0, r1}
    NoRecord = NoRecord
    Entries = 4
SPECIFICATION Spec
PROPERTY ImplementsFifo
CHECK_DEADLOCK FALSE
