------------------------------ MODULE PtsState ------------------------------
(***************************************************************************)
(* The state of one PORE engine that runs the PORE Thread Scheduler (PTS)  *)
(* for the SLW application: the PORE registers PTS relies on, the PtsState *)
(* structure, the scheduler table, the PtsThread bodies, the SLW side of   *)
(* the engine and the hypervisor (PHYP) that talks to PTS through the      *)
(* command and response fields of PtsState.                                *)
(*                                                                         *)
(* Time is relative: a next schedule time is the number of ticks until it  *)
(* is reached, 0 once the TOD clock has passed it.  The five special       *)
(* values keep their order above every real time.                          *)
(***************************************************************************)
EXTENDS Integers, FiniteSets

CONSTANTS
    Threads,         \* the PtsThread structures
    NoThread,        \* the null PtsThread pointer
    NSlots,          \* entries of the scheduler table, slot 0 runs first
    SlotOf,          \* SlotOf[t] is the slot t's back-pointer names
    Error0Handlers,  \* the threads declared with an error0Handler
    PibThreads,      \* the threads that use ptsThreadHandlesPibErrors
    AtomicThreads,   \* the threads that use ptsMainstoreAtomicAdd
    ThreadRcs,       \* the codes a thread passes to ptsTerminate
    MaxSleep,        \* bound: the longest sleep of a thread, in ticks
    MaxWait,         \* PtsState.maxWait, in ticks
    StoppedInit,     \* the values PtsState.stopped may be declared with
    HwAble,          \* the chips considered: TRUE for one PTS supports
    CommandOps,      \* the commands PHYP issues
    Errors,          \* the PORE errors (0..3) the hardware may raise
    DoubleFaults     \* may an error strike while DBG is still locked?

Slots == 0 .. NSlots - 1

(* PTS_FORCE_SUSPENDED .. PTS_TERMINATED, in the order of their values.    *)
RUNNABLE         == 0
FORCE_SUSPENDED  == MaxSleep + 1
FORCE_TERMINATED == MaxSleep + 2
KILLED           == MaxSleep + 3
SUSPENDED        == MaxSleep + 4
TERMINATED       == MaxSleep + 5
Nexts == 0 .. TERMINATED

(* PtsState.schedulerState.                                                *)
SchedulerStates == {"UNINITIALIZED", "SCHEDULING", "INTERRUPTIBLE",
                    "PTS_ERROR", "THREAD_ERROR", "STOPPED", "UNABLE",
                    "STARTED", "THREAD"}

(* Error codes: PTS_ERROR_n, PTS_NOT_SUPPORTED and PTS_SLW_THREAD_FAILURE  *)
(* charge the scheduler; PTS_THREAD_ERROR_n and the atomic violation a     *)
(* thread.                                                                 *)
PTS_ERROR(n)              == 16 + n
PTS_NOT_SUPPORTED         == 23
PTS_SLW_THREAD_FAILURE    == 24
PTS_THREAD_ERROR(n)       == 32 + n
PTS_THREAD_ATOMIC_VIOLATION == 36
PtsRcs    == {0} \cup (16 .. 19) \cup {PTS_NOT_SUPPORTED, PTS_SLW_THREAD_FAILURE}
ThreadPtsRcs == {0} \cup (32 .. 36)
Codes     == Nexts \cup PtsRcs \cup ThreadPtsRcs

(* Commands name a slot, which may be out of bounds.                       *)
ThreadOps == {"schedule", "suspend", "terminate", "remove"}
PlainOps  == {"start", "stop", "scomError", "ociError", "instructionError",
              "doubleFault", "invalid"}
NoCommand == [op |-> "none", prio |-> 0]
Commands  == [op : CommandOps \cap ThreadOps, prio : 0 .. NSlots]
             \cup [op : CommandOps \cap PlainOps, prio : {0}]
INVALID_COMMAND  == 1
INVALID_PRIORITY == 2
THREAD_NOT_FOUND == 3
NoResponse       == -1

ASSUME PtsAssumption ==
    /\ NSlots \in Nat \ {0} /\ IsFiniteSet(Threads)
    /\ {NoThread, "core", "branch"} \cap Threads = {}
    /\ SlotOf \in [Threads -> Slots]
    /\ \A t, u \in Threads : SlotOf[t] = SlotOf[u] => t = u
    /\ Error0Handlers \subseteq Threads
    /\ PibThreads \subseteq Threads /\ AtomicThreads \subseteq Threads
    /\ ThreadRcs \subseteq Nat
    /\ MaxSleep \in Nat \ {0} /\ MaxWait \in 1 .. MaxSleep
    /\ StoppedInit \in (SUBSET BOOLEAN) \ {{}} /\ HwAble \in (SUBSET BOOLEAN) \ {{}}
    /\ CommandOps \subseteq ThreadOps \cup PlainOps
    /\ Errors \subseteq 0 .. 3 /\ DoubleFaults \in BOOLEAN

VARIABLES
    cpu,     \* the PORE engine: where it executes and the registers PTS uses
    pts,     \* the PtsState structure
    table,   \* the PtsSchedulerThread entries
    thr,     \* the PtsThread structures
    slw,     \* slw_terminator, the PMC request line, PMC FIR bit 38, the chip
    phyp     \* what the hypervisor has asked of PTS
vars == <<cpu, pts, table, thr, slw, phyp>>

(* Where the engine is.  "stopped" is a stop by the error logic, "halt" a  *)
(* halt instruction; "window", "pibWindow", "wait" and "restore" run with  *)
(* interrupts enabled; "spin" is a branch-to-self and "wild" execution     *)
(* away from the program.                                                  *)
PCs == {"halt", "stopped", "slw", "enable", "disable", "entry", "start",
        "schedule", "command", "open", "window", "scan", "rescan", "wait",
        "pibWindow", "dispatch", "thread", "die", "terminated",
        "kill", "unlock", "blame", "killPts",
        "errorHandler", "fir", "restore", "spin", "wild"}

CpuType == [pc : PCs,
            thread : Threads \cup {NoThread},      \* the Ax operand
            code : Codes,                          \* the D0 operand
            sprg0 : Threads \cup {"core", "branch"},
            emr : {"SLW", "PTS", "PIB"},           \* error mask register
            tbar : {"slw", "pts"},                 \* branch table in force
            ints : BOOLEAN,                        \* interruptible
            doneOverride : BOOLEAN,
            dbgLocked : BOOLEAN,                   \* DBG0/1 hold an error
            wait : 0 .. MaxWait]

PtsType == [schedulerState : SchedulerStates,
            currentThread : Threads \cup {NoThread},
            atomic : BOOLEAN, handlingError0 : BOOLEAN,   \* PtsState.flags
            stopped : BOOLEAN,
            command : Commands \cup {NoCommand},
            response : -1 .. 3,
            rc : PtsRcs]

EntryType == [next : Nexts, thread : Threads \cup {NoThread}]

ThreadType == [hasContext : BOOLEAN, handlesPib : BOOLEAN,
               pc : {"program", "ffdc"},           \* where its context resumes
               rc : Int, ptsRc : ThreadPtsRcs]

SlwType == [terminator : BOOLEAN,
            request : {"none", "idle", "enable", "disable"},
            wakeup : BOOLEAN,                      \* cores under special wakeup
            fir : BOOLEAN, able : BOOLEAN]

PhypType == [op : CommandOps \cup {"none"}, stopped : BOOLEAN]

TypeOK == /\ cpu \in CpuType
          /\ pts \in PtsType
          /\ table \in [Slots -> EntryType]
          /\ thr \in [Threads -> ThreadType]
          /\ slw \in SlwType
          /\ phyp \in PhypType

(* ptsDeclareState, ptsDeclareSchedulerThreads and ptsDeclareThread with   *)
(* the engine halted, as it is before PHYP first enables PTS.              *)
ThreadAt(s) == IF \E t \in Threads : SlotOf[t] = s
               THEN CHOOSE t \in Threads : SlotOf[t] = s
               ELSE NoThread

Init ==
    /\ \E i \in BOOLEAN :
         cpu = [pc |-> "halt", thread |-> NoThread, code |-> 0, sprg0 |-> "core",
                emr |-> "SLW", tbar |-> "slw", ints |-> i, doneOverride |-> FALSE,
                dbgLocked |-> FALSE, wait |-> 0]
    /\ \E stopped \in StoppedInit :
         pts = [schedulerState |-> "UNINITIALIZED", currentThread |-> NoThread,
              atomic |-> FALSE, handlingError0 |-> FALSE, stopped |-> stopped,
              command |-> NoCommand, response |-> NoResponse, rc |-> 0]
    /\ table = [s \in Slots |-> [next |-> RUNNABLE, thread |-> ThreadAt(s)]]
    /\ thr = [t \in Threads |-> [hasContext |-> FALSE, handlesPib |-> FALSE,
                                 pc |-> "program", rc |-> 0, ptsRc |-> 0]]
    /\ \E a \in HwAble :
         slw = [terminator |-> FALSE, request |-> "none", wakeup |-> FALSE,
                fir |-> FALSE, able |-> a]
    /\ phyp = [op |-> "none", stopped |-> FALSE]

(* HW271773: a write to EMR is only sure to take effect while the engine   *)
(* is interruptible.                                                       *)
EmrAfter(mask) == IF cpu.ints THEN {mask} ELSE {mask, cpu.emr}

(* The engine leaves a routine that had operands in Ax and D0.             *)
Goto(c, pc) == [c EXCEPT !.pc = pc, !.thread = NoThread, !.code = 0]
=============================================================================
