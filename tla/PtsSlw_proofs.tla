--------------------------- MODULE PtsSlw_proofs ---------------------------
(***************************************************************************)
(* Theorems about PtsSlw for every table, every set of threads, commands   *)
(* and errors: type correctness, PtsRunsOnlyWhenEnabled and                *)
(* InterruptsOnlyInWindows; then those about the threads that PTS runs:    *)
(* what runs is on the schedule, what is off the schedule stays off, the   *)
(* wait never runs past a wakeup and a command is answered once.           *)
(***************************************************************************)
EXTENDS PtsSlw, TLAPS

-----------------------------------------------------------------------------
(* Type correctness.  D0 carries different kinds of codes to different     *)
(* routines, a thread that runs is the current one, and one that ends in   *)
(* the atomic mode is in SPRG0.                                            *)

OperandsOK ==
    /\ cpu.pc = "die" => cpu.code \in Nexts
    /\ cpu.pc \in {"kill", "unlock", "blame"} => cpu.code \in ThreadPtsRcs /\ ~pts.atomic
    /\ cpu.pc = "killPts" => cpu.code \in PtsRcs
    /\ cpu.pc \in {"pibWindow", "dispatch", "thread"} => pts.currentThread \in Threads
    /\ cpu.pc = "die" /\ pts.atomic => cpu.sprg0 \in Threads

TypeInv == TypeOK /\ OperandsOK

-----------------------------------------------------------------------------
(* Control: where PTS can be, given who has enabled it.                    *)

RunningPCs == LoopPCs \cup ThreadPCs \cup HandlerPCs

(* slw_terminator and the branch table follow PTS from its start to its    *)
(* error handler, which only runs when no thread is to blame.              *)
EnabledOK ==
    /\ cpu.pc \in LoopPCs \cup ThreadPCs \cup {"start"}
           => slw.terminator /\ cpu.tbar = "pts"
    /\ cpu.pc = "entry" => slw.terminator
    /\ cpu.pc \in {"fir", "restore"} => ~slw.terminator
    /\ cpu.pc = "killPts" => cpu.tbar = "pts"
    /\ cpu.pc \in {"command", "terminated", "killPts", "errorHandler", "fir"}
           => pts.currentThread = NoThread
    /\ slw.terminator /\ pts.schedulerState # "UNINITIALIZED" => cpu.tbar = "pts"
    /\ cpu.pc \in {"slw", "enable", "disable"} /\ cpu.tbar = "pts"
           => pts.schedulerState = "INTERRUPTIBLE"
    /\ cpu.pc = "restore" => pts.schedulerState = "INTERRUPTIBLE"

(* Until PTS has been started the cores are under special wakeup, and      *)
(* outside its windows PTS is interruptible only then.                     *)
WindowsOK ==
    /\ slw.terminator /\ pts.schedulerState = "UNINITIALIZED"
           => slw.wakeup /\ slw.request # "idle" /\ cpu.pc # "slw"
    /\ cpu.pc = "entry" /\ pts.schedulerState = "UNINITIALIZED" => slw.request = "none"
    /\ cpu.pc \in {"enable", "start"} => slw.wakeup /\ slw.request = "none"
    /\ cpu.pc \in RunningPCs \cup {"entry"} /\ cpu.ints
           => \/ pts.schedulerState = "INTERRUPTIBLE"
              \/ slw.wakeup /\ slw.request = "none"
    /\ cpu.pc \in RunningPCs /\ cpu.ints /\ pts.schedulerState = "INTERRUPTIBLE"
           => cpu.pc \in {"window", "pibWindow", "wait", "restore"}

Inv == TypeInv /\ EnabledOK /\ WindowsOK

-----------------------------------------------------------------------------
LEMMA Values ==
    /\ 0 \in Codes /\ 0 \in PtsRcs /\ 0 \in ThreadPtsRcs /\ 0 \in Nexts
    /\ 0 \in Int /\ -1 \in Int /\ 0 \in -1 .. 3 /\ NoResponse \in -1 .. 3
    /\ RUNNABLE \in Nexts /\ SUSPENDED \in Nexts /\ KILLED \in Nexts
    /\ FORCE_SUSPENDED \in Nexts /\ FORCE_TERMINATED \in Nexts /\ TERMINATED \in Nexts
    /\ 0 \in 0 .. MaxWait /\ MaxWait \in 0 .. MaxWait
    /\ Nexts \subseteq Codes /\ PtsRcs \subseteq Codes /\ ThreadPtsRcs \subseteq Codes
    /\ PTS_NOT_SUPPORTED \in PtsRcs /\ PTS_SLW_THREAD_FAILURE \in PtsRcs
    /\ PTS_THREAD_ATOMIC_VIOLATION \in ThreadPtsRcs
    /\ PTS_THREAD_ATOMIC_VIOLATION \in Codes /\ KILLED \in Codes
    /\ SUSPENDED \in Codes /\ TERMINATED \in Codes
    /\ \A n \in 0 .. 3 : PTS_ERROR(n) \in PtsRcs /\ PTS_THREAD_ERROR(n) \in ThreadPtsRcs
BY PtsAssumption DEF Codes, Nexts, PtsRcs, ThreadPtsRcs, NoResponse, RUNNABLE,
   SUSPENDED, KILLED, FORCE_SUSPENDED, FORCE_TERMINATED, TERMINATED, PTS_ERROR,
   PTS_THREAD_ERROR, PTS_NOT_SUPPORTED, PTS_SLW_THREAD_FAILURE,
   PTS_THREAD_ATOMIC_VIOLATION

LEMMA GotoType ==
    ASSUME NEW c \in CpuType, NEW pc \in PCs
    PROVE  Goto(c, pc) \in CpuType
<1>1. NoThread \in Threads \cup {NoThread}
  OBVIOUS
<1> QED BY <1>1, Values, Zenon DEF Goto, CpuType

LEMMA TypeInit == Init => TypeInv
<1> SUFFICES ASSUME Init PROVE TypeInv
    OBVIOUS
<1>1. cpu \in CpuType
  <2>1. PICK i \in BOOLEAN :
          cpu = [pc |-> "halt", thread |-> NoThread, code |-> 0, sprg0 |-> "core",
                 emr |-> "SLW", tbar |-> "slw", ints |-> i, doneOverride |-> FALSE,
                 dbgLocked |-> FALSE, wait |-> 0]
    BY DEF Init
  <2> QED BY <2>1, Values, Zenon DEF CpuType, PCs
<1>2. pts \in PtsType
  <2>1. PICK stopped \in BOOLEAN :
          pts = [schedulerState |-> "UNINITIALIZED", currentThread |-> NoThread,
                 atomic |-> FALSE, handlingError0 |-> FALSE, stopped |-> stopped,
                 command |-> NoCommand, response |-> NoResponse, rc |-> 0]
    BY PtsAssumption DEF Init
  <2> QED BY <2>1, Values, Zenon DEF PtsType, SchedulerStates
<1>3. table \in [Slots -> EntryType]
  <2>1. \A s \in Slots : ThreadAt(s) \in Threads \cup {NoThread}
    BY DEF ThreadAt
  <2> QED BY <2>1, Values, Zenon DEF Init, EntryType
<1>4. thr \in [Threads -> ThreadType]
    BY Values, Zenon DEF Init, ThreadType
<1>5. slw \in SlwType
  <2>1. PICK a \in BOOLEAN : slw = [terminator |-> FALSE, request |-> "none",
                                    wakeup |-> FALSE, fir |-> FALSE, able |-> a]
    BY PtsAssumption DEF Init
  <2> QED BY <2>1, Zenon DEF SlwType
<1>6. phyp \in PhypType
    BY Zenon DEF Init, PhypType
<1>7. OperandsOK
    BY DEF Init, OperandsOK
<1> QED BY <1>1, <1>2, <1>3, <1>4, <1>5, <1>6, <1>7 DEF TypeInv, TypeOK

(***************************************************************************)
(* Each lemma takes the actions of one module.  Where the variables an     *)
(* action changes stay in their types and the operands still fit, TypeInv  *)
(* is kept.                                                                *)
(***************************************************************************)
LEMMA SchedulerType == TypeInv /\ SchedulerStep => TypeInv'
<1> SUFFICES ASSUME TypeInv, SchedulerStep PROVE TypeInv'
    OBVIOUS
<1> USE DEF TypeInv, TypeOK
<1>1. CASE Schedule
  <2>1. cpu' \in CpuType
    BY <1>1, Zenon DEF Schedule, AfterEnter, CpuType, PCs
  <2>2. pts' \in PtsType
    BY <1>1, Zenon DEF Schedule, EnterScheduler, PtsType, SchedulerStates
  <2>3. OperandsOK'
    BY <1>1 DEF Schedule, AfterEnter, CpuType, OperandsOK
  <2> QED BY <1>1, <2>1, <2>2, <2>3 DEF Schedule
<1>2. CASE OpenWindow
  <2>1. cpu' \in CpuType
    BY <1>2, Zenon DEF OpenWindow, WindowCpu, CpuType, PCs
  <2>2. pts' \in PtsType
    BY <1>2, Zenon DEF OpenWindow, PtsType, SchedulerStates
  <2>3. OperandsOK'
    BY <1>2 DEF OpenWindow, WindowCpu, CpuType, OperandsOK
  <2> QED BY <1>2, <2>1, <2>2, <2>3 DEF OpenWindow
<1>3. CASE CloseWindow
  <2>1. cpu' \in CpuType
    BY <1>3, Zenon DEF CloseWindow, ClosedCpu, CpuType, PCs
  <2>2. pts' \in PtsType
    BY <1>3, Zenon DEF CloseWindow, PtsType, SchedulerStates
  <2>3. OperandsOK'
    BY <1>3 DEF CloseWindow, ClosedCpu, CpuType, OperandsOK
  <2> QED BY <1>3, <2>1, <2>2, <2>3 DEF CloseWindow
<1>4. ASSUME NEW d \in 0 .. MaxWait, Wait(d), UNCHANGED <<table, thr, slw, phyp>>
      PROVE  TypeInv'
  <2>1. cpu' \in CpuType
    BY <1>4, Zenon DEF Wait, CpuType, PCs
  <2>2. pts' \in PtsType
    BY <1>4, Zenon DEF Wait, PtsType, SchedulerStates
  <2>3. OperandsOK'
    BY <1>4 DEF Wait, CpuType, OperandsOK
  <2> QED BY <1>4, <2>1, <2>2, <2>3
<1>5. CASE ScanStopped
    BY <1>4, <1>5, Values DEF ScanStopped
<1>6. ASSUME NEW n \in Nat PROVE RetireEmpty(n) \in [Slots -> EntryType]
    BY Values, Zenon DEF RetireEmpty, EntryType
<1>7. ASSUME NEW s \in Slots, ScanFound(s) PROVE TypeInv'
  <2>1. RetireEmpty(s) \in [Slots -> EntryType]
    BY <1>6, PtsAssumption DEF Slots
  <2>2. PICK t \in Threads : ResumeThread(t)
    BY <1>7 DEF ScanFound, IsFirstReady, Ready, EntryType
  <2>3. cpu' \in CpuType
    <3>1. t \in Threads \cup {"core", "branch"}
      OBVIOUS
    <3>2. [cpu EXCEPT !.pc = "pibWindow", !.sprg0 = t, !.ints = TRUE] \in CpuType
      BY <3>1, Zenon DEF CpuType, PCs
    <3>3. [cpu EXCEPT !.pc = "dispatch", !.sprg0 = t] \in CpuType
      BY <3>1, Zenon DEF CpuType, PCs
    <3> QED BY <2>2, <3>2, <3>3, Zenon DEF ResumeThread
  <2>4. pts' \in PtsType
    BY <2>2, Zenon DEF ResumeThread, PtsType, SchedulerStates
  <2>5. OperandsOK'
    <3>1. cpu'.pc \in {"pibWindow", "dispatch"} /\ pts'.currentThread = t
      BY <2>2 DEF ResumeThread, CpuType, PtsType
    <3> QED BY <3>1 DEF OperandsOK
  <2> QED BY <1>7, <2>1, <2>3, <2>4, <2>5 DEF ScanFound
<1>8. CASE ScanNone
  <2>1. RetireEmpty(NSlots) \in [Slots -> EntryType]
    BY <1>6, PtsAssumption
  <2>2. cpu' \in CpuType
    BY <1>8, Zenon DEF ScanNone, CpuType, PCs
  <2>3. OperandsOK'
    BY <1>8 DEF ScanNone, CpuType, OperandsOK
  <2> QED BY <1>8, <2>1, <2>2, <2>3 DEF ScanNone
<1>9. CASE RescanReady
  <2>1. cpu' \in CpuType
    BY <1>9, Zenon DEF RescanReady, CpuType, PCs
  <2>2. OperandsOK'
    BY <1>9 DEF RescanReady, CpuType, OperandsOK
  <2> QED BY <1>9, <2>1, <2>2 DEF RescanReady
<1>10. CASE RescanWait
  <2>1. PICK d \in Nexts \ {0} : Wait(BoundedDelay(d))
    BY <1>10 DEF RescanWait
  <2>2. BoundedDelay(d) \in 0 .. MaxWait
    BY <2>1, PtsAssumption DEF BoundedDelay, Nexts, TERMINATED
  <2> QED BY <1>4, <1>10, <2>1, <2>2 DEF RescanWait
<1>11. CASE WaitDone
  <2>1. cpu' \in CpuType
    BY <1>11, Values, Zenon DEF WaitDone, CpuType, PCs
  <2>2. OperandsOK'
    BY <1>11 DEF WaitDone, CpuType, OperandsOK
  <2> QED BY <1>11, <2>1, <2>2 DEF WaitDone
<1>12. CASE PibWindowClose
  <2>1. cpu' \in CpuType
    BY <1>12, Zenon DEF PibWindowClose, CpuType, PCs
  <2>2. OperandsOK'
    BY <1>12 DEF PibWindowClose, CpuType, OperandsOK
  <2> QED BY <1>12, <2>1, <2>2 DEF PibWindowClose
<1>13. CASE Dispatch
  <2>1. cpu' \in CpuType
    BY <1>13, Zenon DEF Dispatch, CpuType, PCs
  <2>2. pts' \in PtsType
    BY <1>13, Zenon DEF Dispatch, PtsType, SchedulerStates
  <2>3. \A t \in Threads : Restarted(thr[t]) \in ThreadType
    BY Values, Zenon DEF Restarted, ThreadType
  <2>4. thr' \in [Threads -> ThreadType]
    BY <1>13, <2>3, Zenon DEF Dispatch
  <2>5. OperandsOK'
    BY <1>13 DEF Dispatch, CpuType, PtsType, OperandsOK
  <2> QED BY <1>13, <2>1, <2>2, <2>4, <2>5 DEF Dispatch
<1>14. CASE TerminateSuspendDie
  <2>1. cpu' \in CpuType
    <3>1. CASE pts.atomic
      <4>1. cpu.sprg0 \in Threads
        BY <1>14, <3>1 DEF TerminateSuspendDie, OperandsOK
      <4>2. cpu.sprg0 \in Threads \cup {NoThread}
        BY <4>1
      <4>3. cpu' = [cpu EXCEPT !.pc = "kill", !.thread = cpu.sprg0,
                               !.code = PTS_THREAD_ATOMIC_VIOLATION]
        BY <1>14, <3>1 DEF TerminateSuspendDie, AtomicViolation
      <4> QED BY <4>2, <4>3, Values, Zenon DEF CpuType, PCs
    <3>2. CASE ~pts.atomic
      <4>1. "terminated" \in PCs /\ "wild" \in PCs
        BY DEF PCs
      <4> QED BY <1>14, <3>2, <4>1, GotoType, Zenon DEF TerminateSuspendDie
    <3> QED BY <3>1, <3>2
  <2>2. pts' \in PtsType
    BY <1>14, Zenon DEF TerminateSuspendDie, AtomicViolation, PtsType
  <2>3. table' \in [Slots -> EntryType]
    BY <1>14, Zenon DEF TerminateSuspendDie, OperandsOK, EntryType
  <2>4. \A t \in Threads : FlagsOfDead(thr[t], cpu.code) \in ThreadType
    BY Zenon DEF FlagsOfDead, ThreadType
  <2>5. thr' \in [Threads -> ThreadType]
    BY <1>14, <2>4, Zenon DEF TerminateSuspendDie
  <2>6. OperandsOK'
    <3>1. CASE pts.atomic
      BY <1>14, <3>1, Values
         DEF TerminateSuspendDie, AtomicViolation, CpuType, PtsType, OperandsOK
    <3>2. CASE ~pts.atomic
      <4>1. cpu'.pc \in {"terminated", "wild"}
        BY <1>14, <3>2 DEF TerminateSuspendDie, Goto, CpuType
      <4> QED BY <4>1 DEF OperandsOK
    <3> QED BY <3>1, <3>2
  <2> QED BY <1>14, <2>1, <2>2, <2>3, <2>5, <2>6 DEF TerminateSuspendDie
<1> QED BY <1>1, <1>2, <1>3, <1>5, <1>7, <1>8, <1>9, <1>10, <1>11, <1>12, <1>13, <1>14
        DEF SchedulerStep

LEMMA KillsFit == \A n \in Errors : PTS_THREAD_ERROR(n) \in ThreadPtsRcs /\ PTS_ERROR(n) \in PtsRcs
BY Values, PtsAssumption

(* StopEngine or PublicError, whichever takes the error.                   *)
LEMMA ErrorType ==
    ASSUME TypeInv, NEW n \in Errors, Error(n), UNCHANGED <<table, thr, slw, phyp>>
    PROVE  TypeInv'
<1> USE DEF TypeInv, TypeOK
<1>1. CASE StopEngine
  <2>1. Goto(cpu, "stopped") \in CpuType
    BY GotoType DEF PCs
  <2>2. cpu' \in CpuType
    BY <1>1, <2>1, Values, Zenon DEF StopEngine, CpuType
  <2>3. cpu'.pc = "stopped"
    BY <1>1, <2>1 DEF StopEngine, Goto, CpuType
  <2> QED BY <1>1, <2>2, <2>3 DEF StopEngine, OperandsOK
<1>2. CASE PublicError(n)
  <2>1. /\ Blame(n).pc \in {"kill", "killPts"}
        /\ Blame(n).thread \in Threads \cup {NoThread}
        /\ Blame(n).pc = "kill" => Blame(n).code \in ThreadPtsRcs
        /\ Blame(n).pc = "killPts" => Blame(n).code \in PtsRcs
    BY KillsFit DEF Blame, PtsType
  <2>2. Blame(n).pc \in PCs /\ Blame(n).code \in Codes
    BY <2>1, Values DEF PCs
  <2>3. cpu' = [cpu EXCEPT !.pc = Blame(n).pc, !.thread = Blame(n).thread,
                           !.code = Blame(n).code, !.dbgLocked = TRUE,
                           !.sprg0 = IF pts.atomic THEN "branch" ELSE cpu.sprg0]
    BY <1>2 DEF PublicError
  <2>4. (IF pts.atomic THEN "branch" ELSE cpu.sprg0) \in Threads \cup {"core", "branch"}
    BY DEF CpuType
  <2>5. cpu' \in CpuType
    BY <2>1, <2>2, <2>3, <2>4, Zenon DEF CpuType
  <2>6. pts' \in PtsType
    BY <1>2, Zenon DEF PublicError, PtsType
  <2>7. OperandsOK'
    <3>1. cpu'.pc = Blame(n).pc /\ cpu'.code = Blame(n).code /\ pts'.atomic = FALSE
      BY <1>2, <2>3 DEF PublicError, CpuType, PtsType
    <3> QED BY <2>1, <3>1 DEF OperandsOK
  <2> QED BY <2>5, <2>6, <2>7
<1> QED BY <1>1, <1>2 DEF Error

LEMMA ErrorStepType == TypeInv /\ ErrorStep => TypeInv'
<1> SUFFICES ASSUME TypeInv, ErrorStep PROVE TypeInv'
    OBVIOUS
<1> USE DEF TypeInv, TypeOK
<1>1. CASE KillThread
  <2>1. cpu' \in CpuType
    BY <1>1, Zenon DEF KillThread, CpuType, PCs
  <2>2. pts' \in PtsType
    <3>1. NoThread \in Threads \cup {NoThread}
      OBVIOUS
    <3> QED BY <1>1, <3>1, Zenon DEF KillThread, PtsType, SchedulerStates
  <2>3. thr' \in [Threads -> ThreadType]
    <3>1. \A t \in Threads : [thr[t] EXCEPT !.pc = "ffdc"] \in ThreadType
      BY Zenon DEF ThreadType
    <3> QED BY <1>1, <3>1, Zenon DEF KillThread
  <2>4. OperandsOK'
    BY <1>1 DEF KillThread, CpuType, PtsType, OperandsOK
  <2> QED BY <1>1, <2>1, <2>2, <2>3, <2>4 DEF KillThread
<1>2. CASE UnlockDbg
  <2>1. cpu' \in CpuType
    BY <1>2, Zenon DEF UnlockDbg, CpuType, PCs
  <2>2. OperandsOK'
    BY <1>2 DEF UnlockDbg, CpuType, OperandsOK
  <2> QED BY <1>2, <2>1, <2>2 DEF UnlockDbg
<1>3. CASE EnterError0Handler
  <2>1. cpu' \in CpuType
    BY <1>3, GotoType DEF EnterError0Handler, PCs
  <2>2. cpu.thread \in Threads
    BY <1>3, PtsAssumption DEF EnterError0Handler, HandlesError0
  <2>3. pts' \in PtsType
    BY <1>3, <2>2, Zenon DEF EnterError0Handler, PtsType
  <2>4. cpu'.pc = "thread" /\ pts'.currentThread \in Threads
    BY <1>3, <2>2 DEF EnterError0Handler, Goto, CpuType, PtsType
  <2>5. OperandsOK'
    BY <2>4 DEF OperandsOK
  <2> QED BY <1>3, <2>1, <2>3, <2>5 DEF EnterError0Handler
<1>4. CASE RecordDeath
  <2>1. cpu' \in CpuType
    BY <1>4, Values, Zenon DEF RecordDeath, CpuType, PCs
  <2>2. cpu.code \in ThreadPtsRcs
    BY <1>4 DEF RecordDeath, OperandsOK
  <2>3. \A t \in Threads : Dead(thr[t]) \in ThreadType
    BY <2>2, Values, Zenon DEF Dead, ThreadType
  <2>4. thr' \in [Threads -> ThreadType]
    BY <1>4, <2>3, Zenon DEF RecordDeath
  <2>5. OperandsOK'
    BY <1>4, Values DEF RecordDeath, CpuType, OperandsOK
  <2> QED BY <1>4, <2>1, <2>4, <2>5 DEF RecordDeath
<1>5. CASE KillPts
  <2>1. Goto(cpu, "stopped") \in CpuType /\ Goto(cpu, "errorHandler") \in CpuType
    BY GotoType DEF PCs
  <2>2. [Goto(cpu, "stopped") EXCEPT !.dbgLocked = TRUE] \in CpuType
    BY <2>1, Zenon DEF CpuType
  <2>3. cpu' \in CpuType
    BY <1>5, <2>1, <2>2 DEF KillPts
  <2>4. cpu.code \in PtsRcs
    BY <1>5 DEF KillPts, OperandsOK
  <2>5. pts' \in PtsType
    BY <1>5, <2>4, Zenon DEF KillPts, PtsType, SchedulerStates
  <2>6. cpu'.pc \in {"stopped", "errorHandler"}
    BY <1>5 DEF KillPts, Goto, CpuType
  <2>7. OperandsOK'
    BY <2>6 DEF OperandsOK
  <2> QED BY <1>5, <2>3, <2>5, <2>7 DEF KillPts
<1> QED BY <1>1, <1>2, <1>3, <1>4, <1>5 DEF ErrorStep

LEMMA FinishType ==
    ASSUME TypeInv, NEW p \in PtsType, NEW response \in -1 .. 3, Finish(p, response),
           table' \in [Slots -> EntryType]
    PROVE  TypeInv'
<1> USE DEF TypeInv, TypeOK
<1>1. cpu' \in CpuType
    BY Zenon DEF Finish, CpuType, PCs
<1>2. pts' \in PtsType
    BY Zenon DEF Finish, Answered, PtsType
<1>3. OperandsOK'
    BY DEF Finish, CpuType, OperandsOK
<1> QED BY <1>1, <1>2, <1>3 DEF Finish

LEMMA CommandType == TypeInv /\ CommandStep => TypeInv'
<1> SUFFICES ASSUME TypeInv, CommandStep PROVE TypeInv'
    OBVIOUS
<1> USE DEF TypeInv, TypeOK
<1>1. CASE StartPts
  <2>1. [pts EXCEPT !.schedulerState = "SCHEDULING", !.rc = 0] \in PtsType
    BY Values, Zenon DEF PtsType, SchedulerStates
  <2> QED BY <1>1, <2>1, Values, FinishType DEF StartPts
<1>2. CASE StopPts
  <2>1. [pts EXCEPT !.schedulerState = "STOPPED", !.rc = 0] \in PtsType
    BY Values, Zenon DEF PtsType, SchedulerStates
  <2> QED BY <1>2, <2>1, Values, FinishType DEF StopPts
<1>3. CASE CommandThread
  <2>1. pts.command.op \in ThreadOps /\ Finish(pts, ThreadExists(pts.command.prio))
    BY <1>3 DEF CommandThread, InCommand
  <2>2. ThreadExists(pts.command.prio) \in -1 .. 3
    BY DEF ThreadExists, INVALID_PRIORITY, THREAD_NOT_FOUND
  <2>3. \A s \in Slots : CommandedEntry(pts.command.op, table[s]) \in EntryType
    BY <2>1, Values DEF ThreadOps, CommandedEntry, EntryType
  <2>4. table' \in [Slots -> EntryType]
    BY <1>3, <2>3, Zenon DEF CommandThread
  <2> QED BY <2>1, <2>2, <2>4, FinishType
<1>4. CASE InvalidCommand
    BY <1>4, FinishType DEF InvalidCommand, INVALID_COMMAND
<1>5. CASE InjectError
  <2>1. pts.command \in Commands \cup {NoCommand}
    BY DEF PtsType
  <2>2. PICK left \in Commands \cup {NoCommand}, n \in 0 .. 3 :
           /\ \/ cpu' = [Goto(cpu, "stopped") EXCEPT !.dbgLocked = TRUE]
              \/ cpu' = [cpu EXCEPT !.pc = "killPts", !.code = PTS_ERROR(n),
                                    !.dbgLocked = TRUE]
           /\ pts' = [pts EXCEPT !.command = left]
    <3>1. InjectedError(pts.command.op) \in 0 .. 3
      BY <1>5 DEF InjectError, InCommand, InjectedError
    <3> QED BY <1>5, <2>1, <3>1 DEF InjectError
  <2>3. pts' \in PtsType
    BY <2>2, Zenon DEF PtsType
  <2>4. Goto(cpu, "stopped") \in CpuType
    BY GotoType DEF PCs
  <2>5. [Goto(cpu, "stopped") EXCEPT !.dbgLocked = TRUE] \in CpuType
    BY <2>4, Zenon DEF CpuType
  <2>6. PTS_ERROR(n) \in Codes /\ PTS_ERROR(n) \in PtsRcs
    BY Values
  <2>7. [cpu EXCEPT !.pc = "killPts", !.code = PTS_ERROR(n), !.dbgLocked = TRUE] \in CpuType
    BY <2>6, Zenon DEF CpuType, PCs
  <2>8. cpu' \in CpuType
    BY <2>2, <2>5, <2>7
  <2>9. OperandsOK'
    <3>1. cpu'.pc = "stopped" \/ (cpu'.pc = "killPts" /\ cpu'.code = PTS_ERROR(n))
      BY <2>2, <2>4 DEF Goto, CpuType
    <3> QED BY <2>6, <3>1 DEF OperandsOK
  <2> QED BY <1>5, <2>3, <2>8, <2>9 DEF InjectError
<1>6. CASE InjectUndetected
  <2>1. cpu' \in CpuType
    BY <1>6, Zenon DEF InjectUndetected, CpuType, PCs
  <2>2. pts' \in PtsType
    BY <1>6, Zenon DEF InjectUndetected, PtsType
  <2>3. OperandsOK'
    BY <1>6 DEF InjectUndetected, CpuType, OperandsOK
  <2> QED BY <1>6, <2>1, <2>2, <2>3 DEF InjectUndetected
<1> QED BY <1>1, <1>2, <1>3, <1>4, <1>5, <1>6 DEF CommandStep

LEMMA EmrType == ASSUME TypeInv, NEW m \in {"SLW", "PTS", "PIB"}
                 PROVE  EmrAfter(m) \subseteq {"SLW", "PTS", "PIB"}
BY DEF EmrAfter, TypeInv, TypeOK, CpuType

LEMMA SlwStepType == TypeInv /\ SlwStep => TypeInv'
<1> SUFFICES ASSUME TypeInv, SlwStep PROVE TypeInv'
    OBVIOUS
<1> USE DEF TypeInv, TypeOK
<1>1. CASE SlwDone
  <2>1. cpu' \in CpuType
    BY <1>1, Zenon DEF SlwDone, AfterSlw, CpuType, PCs
  <2>2. OperandsOK'
    BY <1>1 DEF SlwDone, AfterSlw, CpuType, OperandsOK
  <2> QED BY <1>1, <2>1, <2>2 DEF SlwDone
<1>2. CASE EnableFromSlw
  <2>1. cpu' \in CpuType
    BY <1>2, Zenon DEF EnableFromSlw, CpuType, PCs
  <2>2. pts' \in PtsType
    BY <1>2, Values, Zenon DEF EnableFromSlw, PtsType, SchedulerStates
  <2>3. \A s \in Slots : [table[s] EXCEPT !.next = RUNNABLE] \in EntryType
    BY Values, Zenon DEF EntryType
  <2>4. table' \in [Slots -> EntryType]
    BY <1>2, <2>3, Zenon DEF EnableFromSlw
  <2>5. \A t \in Threads : Restarted(thr[t]) \in ThreadType
    BY Values, Zenon DEF Restarted, ThreadType
  <2>6. thr' \in [Threads -> ThreadType]
    BY <1>2, <2>5, Zenon DEF EnableFromSlw
  <2>7. slw' \in SlwType
    BY <1>2, Zenon DEF EnableFromSlw, SlwType
  <2>8. phyp' \in PhypType
    BY <1>2, Zenon DEF EnableFromSlw, PhypType
  <2>9. OperandsOK'
    BY <1>2 DEF EnableFromSlw, CpuType, OperandsOK
  <2> QED BY <2>1, <2>2, <2>4, <2>6, <2>7, <2>8, <2>9
<1>3. CASE DisableFromSlw
  <2>1. PICK mask \in {"SLW", "PTS", "PIB"} :
          cpu' = [cpu EXCEPT !.pc = "halt", !.tbar = "slw", !.emr = mask]
    BY <1>3, EmrType DEF DisableFromSlw
  <2>2. cpu' \in CpuType
    BY <2>1, Zenon DEF CpuType, PCs
  <2>3. pts' \in PtsType
    BY <1>3, Values, Zenon DEF DisableFromSlw, PtsType, SchedulerStates
  <2>4. slw' \in SlwType
    BY <1>3, Zenon DEF DisableFromSlw, SlwType
  <2>5. phyp' \in PhypType
    BY <1>3, Zenon DEF DisableFromSlw, PhypType
  <2>6. OperandsOK'
    BY <2>1 DEF CpuType, OperandsOK
  <2> QED BY <1>3, <2>2, <2>3, <2>4, <2>5, <2>6 DEF DisableFromSlw
<1>4. CASE EntryStart
  <2>1. PICK mask \in {"SLW", "PTS", "PIB"} :
          cpu' = [cpu EXCEPT !.pc = "start", !.tbar = "pts", !.emr = mask]
    BY <1>4, EmrType DEF EntryStart
  <2>2. cpu' \in CpuType
    BY <2>1, Zenon DEF CpuType, PCs
  <2>3. OperandsOK'
    BY <2>1 DEF CpuType, OperandsOK
  <2> QED BY <1>4, <2>2, <2>3 DEF EntryStart
<1>5. CASE EntryUnable
  <2>1. cpu' \in CpuType
    BY <1>5, Zenon DEF EntryUnable, CpuType, PCs
  <2>2. slw' \in SlwType
    BY <1>5, Zenon DEF EntryUnable, SlwType
  <2>3. OperandsOK'
    BY <1>5 DEF EntryUnable, CpuType, OperandsOK
  <2> QED BY <1>5, <2>1, <2>2, <2>3 DEF EntryUnable
<1>6. CASE EntrySchedule
  <2>1. PICK mask \in {"SLW", "PTS", "PIB"} :
          cpu' = [cpu EXCEPT !.pc = "schedule", !.emr = mask, !.ints = FALSE,
                             !.doneOverride = TRUE]
    BY <1>6, EmrType DEF EntrySchedule
  <2>2. cpu' \in CpuType
    BY <2>1, Zenon DEF CpuType, PCs
  <2>3. slw' \in SlwType
    BY <1>6, Zenon DEF EntrySchedule, SlwType
  <2>4. OperandsOK'
    BY <2>1 DEF CpuType, OperandsOK
  <2> QED BY <1>6, <2>2, <2>3, <2>4 DEF EntrySchedule
<1>7. CASE CheckChip
  <2>1. cpu' \in CpuType
    BY <1>7, Zenon DEF CheckChip, CpuType, PCs
  <2>2. pts' \in PtsType
    BY <1>7, Values, Zenon DEF CheckChip, ChipState, PtsType, SchedulerStates
  <2>3. OperandsOK'
    BY <1>7 DEF CheckChip, CpuType, OperandsOK
  <2> QED BY <1>7, <2>1, <2>2, <2>3 DEF CheckChip
<1>8. CASE ThreadEnded
  <2>1. cpu' \in CpuType
    BY <1>8, Zenon DEF ThreadEnded, CpuType, PCs
  <2>2. OperandsOK'
    BY <1>8 DEF ThreadEnded, CpuType, OperandsOK
  <2> QED BY <1>8, <2>1, <2>2 DEF ThreadEnded
<1>9. CASE ThreadFailed
  <2>1. cpu' \in CpuType
    BY <1>9, Zenon DEF ThreadFailed, CpuType, PCs
  <2>2. pts' \in PtsType
    BY <1>9, Values, Zenon DEF ThreadFailed, PtsType
  <2>3. OperandsOK'
    BY <1>9 DEF ThreadFailed, CpuType, OperandsOK
  <2> QED BY <1>9, <2>1, <2>2, <2>3 DEF ThreadFailed
<1>10. CASE DisablePts
  <2>1. cpu' \in CpuType
    BY <1>10, Zenon DEF DisablePts, CpuType, PCs
  <2>2. slw' \in SlwType
    BY <1>10, Zenon DEF DisablePts, SlwType
  <2>3. OperandsOK'
    BY <1>10 DEF DisablePts, CpuType, OperandsOK
  <2> QED BY <1>10, <2>1, <2>2, <2>3 DEF DisablePts
<1>11. CASE SetFir
  <2>1. cpu' \in CpuType
    BY <1>11, Zenon DEF SetFir, CpuType, PCs
  <2>2. pts' \in PtsType
    BY <1>11, Zenon DEF SetFir, PtsType, SchedulerStates
  <2>3. slw' \in SlwType
    BY <1>11, Zenon DEF SetFir, Reported, SlwType
  <2>4. OperandsOK'
    BY <1>11 DEF SetFir, CpuType, OperandsOK
  <2> QED BY <1>11, <2>1, <2>2, <2>3, <2>4 DEF SetFir
<1>12. CASE RestoreSlw
  <2>1. cpu' \in CpuType
    BY <1>12, Zenon DEF RestoreSlw, CpuType, PCs
  <2>2. OperandsOK'
    BY <1>12 DEF RestoreSlw, CpuType, OperandsOK
  <2> QED BY <1>12, <2>1, <2>2 DEF RestoreSlw
<1> QED BY <1>1, <1>2, <1>3, <1>4, <1>5, <1>6, <1>7, <1>8, <1>9, <1>10, <1>11, <1>12
        DEF SlwStep

LEMMA YieldSleepSuspendType ==
    ASSUME TypeInv, NEW next \in Nexts, NEW pib \in BOOLEAN, NEW suspend \in BOOLEAN,
           InThread, YieldSleepSuspend(next, pib, suspend)
    PROVE  TypeInv'
<1> USE DEF TypeInv, TypeOK
<1> DEFINE t == cpu.sprg0
<1>1. t \in Threads
    BY DEF InThread, OperandsOK
<1>2. table' \in [Slots -> EntryType]
    BY Zenon DEF YieldSleepSuspend, EntryType
<1>3. thr' \in [Threads -> ThreadType]
  <2>1. [thr[t] EXCEPT !.pc = "program", !.handlesPib = pib,
                       !.hasContext = thr[t].hasContext \/ ~pts.atomic] \in ThreadType
    BY <1>1, Zenon DEF ThreadType
  <2>2. thr' = [thr EXCEPT ![t] = [thr[t] EXCEPT !.pc = "program", !.handlesPib = pib,
                              !.hasContext = thr[t].hasContext \/ ~pts.atomic]]
    BY <1>1 DEF YieldSleepSuspend, ThreadType
  <2> QED BY <1>1, <2>1, <2>2, Zenon
<1>4. CASE pts.atomic
  <2>1. cpu' = [cpu EXCEPT !.pc = "kill", !.thread = t, !.code = PTS_THREAD_ATOMIC_VIOLATION]
    BY <1>4 DEF YieldSleepSuspend, AtomicViolation
  <2>2. t \in Threads \cup {NoThread}
    BY <1>1
  <2>3. cpu' \in CpuType
    BY <2>1, <2>2, Values, Zenon DEF CpuType, PCs
  <2>4. pts' \in PtsType
    BY <1>4, Zenon DEF YieldSleepSuspend, AtomicViolation, PtsType
  <2>5. OperandsOK'
    BY <1>4, <2>1, Values
       DEF YieldSleepSuspend, AtomicViolation, CpuType, PtsType, OperandsOK
  <2> QED BY <1>2, <1>3, <2>3, <2>4, <2>5 DEF YieldSleepSuspend
<1>5. CASE ~pts.atomic
  <2>1. t \in Threads \cup {NoThread}
    BY <1>1
  <2>2. [cpu EXCEPT !.pc = "die", !.thread = t, !.code = SUSPENDED] \in CpuType
    BY <2>1, Values, Zenon DEF CpuType, PCs
  <2>3. [cpu EXCEPT !.pc = "schedule"] \in CpuType
    BY Zenon DEF CpuType, PCs
  <2>4. cpu' \in CpuType /\ pts' = pts
    BY <1>5, <2>2, <2>3 DEF YieldSleepSuspend
  <2>5. cpu'.pc = "schedule" \/ (cpu'.pc = "die" /\ cpu'.code = SUSPENDED)
    BY <1>5 DEF YieldSleepSuspend, CpuType
  <2>6. OperandsOK'
    BY <1>5, <2>4, <2>5, Values DEF OperandsOK
  <2> QED BY <1>2, <1>3, <2>4, <2>6 DEF YieldSleepSuspend
<1> QED BY <1>4, <1>5

LEMMA YieldMoves ==
    ASSUME TypeInv, Yield \/ Sleep \/ Suspend \/ ThreadHandlesPibErrors \/ PtsHandlesPibErrors
    PROVE  InThread /\ \E next \in Nexts, pib \in BOOLEAN, suspend \in BOOLEAN :
                           YieldSleepSuspend(next, pib, suspend)
<1> USE DEF TypeInv, TypeOK
<1>1. InThread
  BY DEF Yield, Sleep, Suspend, ThreadHandlesPibErrors, PtsHandlesPibErrors
<1>2. 0 .. MaxSleep \subseteq Nexts
  BY PtsAssumption DEF Nexts, TERMINATED
<1>3. HandlesPib \in BOOLEAN
  BY <1>1 DEF HandlesPib, ThreadType, InThread, OperandsOK
<1>4. CASE Yield
  BY <1>1, <1>3, <1>4, Values DEF Yield
<1>5. CASE Sleep
  BY <1>1, <1>2, <1>3, <1>5 DEF Sleep
<1>6. CASE Suspend
  BY <1>1, <1>3, <1>6, Values DEF Suspend
<1>7. CASE ThreadHandlesPibErrors
  BY <1>1, <1>7, Values DEF ThreadHandlesPibErrors
<1>8. CASE PtsHandlesPibErrors
  BY <1>1, <1>8, Values DEF PtsHandlesPibErrors
<1> QED BY <1>4, <1>5, <1>6, <1>7, <1>8

LEMMA RunType == TypeInv /\ (SystemCall \/ MainstoreAtomicAdd \/ MainstoreDefault) => TypeInv'
<1> SUFFICES ASSUME TypeInv, SystemCall \/ MainstoreAtomicAdd \/ MainstoreDefault
             PROVE  TypeInv'
    OBVIOUS
<1> USE DEF TypeInv, TypeOK
<1>1. CASE Yield \/ Sleep \/ Suspend \/ ThreadHandlesPibErrors \/ PtsHandlesPibErrors
    BY <1>1, YieldMoves, YieldSleepSuspendType
<1>2. CASE Terminate
  <2>1. PICK rc \in ThreadRcs : /\ thr' = [thr EXCEPT ![cpu.sprg0].rc = rc]
                               /\ InThread
    BY <1>2 DEF Terminate
  <2>2. rc \in Int
    BY PtsAssumption
  <2>3. \A u \in Threads : [thr[u] EXCEPT !.rc = rc] \in ThreadType
    BY <2>2, Zenon DEF ThreadType
  <2>4. thr' \in [Threads -> ThreadType]
    BY <2>1, <2>3, Zenon
  <2>5. cpu.sprg0 \in Threads
    BY <2>1 DEF InThread, OperandsOK
  <2>6. cpu.sprg0 \in Threads \cup {NoThread}
    BY <2>5
  <2>7. cpu' \in CpuType
    <3>1. cpu' = [cpu EXCEPT !.pc = "die", !.thread = cpu.sprg0, !.code = TERMINATED]
      BY <1>2 DEF Terminate
    <3> QED BY <2>6, <3>1, Values, Zenon DEF CpuType, PCs
  <2>8. OperandsOK'
    BY <1>2, <2>5, Values DEF Terminate, CpuType, OperandsOK
  <2> QED BY <1>2, <2>4, <2>7, <2>8 DEF Terminate
<1>3. CASE StraySystemCall
  <2>1. cpu' \in CpuType
    BY <1>3, Zenon DEF StraySystemCall, CpuType, PCs
  <2>2. OperandsOK'
    BY <1>3 DEF StraySystemCall, CpuType, OperandsOK
  <2> QED BY <1>3, <2>1, <2>2 DEF StraySystemCall
<1>4. CASE MainstoreAtomicAdd
  <2>1. pts' \in PtsType
    BY <1>4, Zenon DEF MainstoreAtomicAdd, PtsType
  <2>2. OperandsOK'
    BY <1>4 DEF MainstoreAtomicAdd, InThread, PtsType, OperandsOK
  <2> QED BY <1>4, <2>1, <2>2 DEF MainstoreAtomicAdd
<1>5. CASE MainstoreDefault
  <2>1. pts' \in PtsType
    BY <1>5, Zenon DEF MainstoreDefault, PtsType
  <2>2. OperandsOK'
    BY <1>5 DEF MainstoreDefault, InThread, PtsType, OperandsOK
  <2> QED BY <1>5, <2>1, <2>2 DEF MainstoreDefault
<1> QED BY <1>1, <1>2, <1>3, <1>4, <1>5 DEF SystemCall

(* A request that enters through PTS' branch table, or through SLW's.      *)
LEMMA VectorType ==
    ASSUME TypeInv, NEW c \in CpuType, c.pc \in {"slw", "enable", "disable"}, Vector(c)
    PROVE  cpu' \in CpuType /\ pts' \in PtsType /\ cpu'.pc = c.pc
<1> USE DEF TypeInv, TypeOK
<1>1. Goto(c, c.pc) \in CpuType /\ Goto(c, c.pc).pc = c.pc
    BY GotoType DEF Goto, CpuType
<1>2. CASE c.tbar = "pts"
  <2>1. PICK mask \in {"SLW", "PTS", "PIB"} : cpu' = Interrupted(c, mask)
    BY <1>2, EmrType DEF Vector, PublicFunction
  <2>3. cpu' \in CpuType
    <3>1. \A g \in CpuType, b \in BOOLEAN :
            [g EXCEPT !.emr = mask, !.wait = 0, !.doneOverride = FALSE, !.dbgLocked = b]
               \in CpuType
      BY Values, Zenon DEF CpuType
    <3>2. (Goto(c, c.pc).dbgLocked /\ pts.schedulerState = "INTERRUPTIBLE") \in BOOLEAN
      OBVIOUS
    <3> QED BY <1>1, <2>1, <3>1, <3>2, Zenon DEF Interrupted
  <2>4. cpu'.pc = c.pc
    BY <1>1, <2>1 DEF Interrupted, CpuType
  <2>5. pts' \in PtsType
    BY <1>2, Zenon DEF Vector, PublicFunction, PtsType, SchedulerStates
  <2> QED BY <2>3, <2>4, <2>5
<1>3. CASE c.tbar # "pts"
  <2>1. cpu' = [Goto(c, c.pc) EXCEPT !.wait = 0] /\ pts' = pts
    BY <1>3 DEF Vector
  <2>2. cpu' \in CpuType
    BY <1>1, <2>1, Values, Zenon DEF CpuType
  <2>3. cpu'.pc = c.pc
    BY <1>1, <2>1 DEF CpuType
  <2> QED BY <2>1, <2>2, <2>3
<1> QED BY <1>2, <1>3

LEMMA VectorControl ==
    ASSUME NEW c \in CpuType, Vector(c)
    PROVE  /\ cpu'.pc = c.pc /\ cpu'.tbar = c.tbar /\ cpu'.ints = c.ints
           /\ \/ c.tbar # "pts" /\ pts' = pts
              \/ c.tbar = "pts" /\ pts' = [pts EXCEPT !.schedulerState = "INTERRUPTIBLE"]
<1>1. CASE c.tbar = "pts"
  <2>1. PICK mask : cpu' = Interrupted(c, mask)
    BY <1>1 DEF Vector, PublicFunction
  <2>2. cpu'.pc = c.pc /\ cpu'.tbar = c.tbar /\ cpu'.ints = c.ints
    BY <2>1 DEF Interrupted, Goto, CpuType
  <2> QED BY <1>1, <2>2 DEF Vector, PublicFunction
<1>2. CASE c.tbar # "pts"
    BY <1>2 DEF Vector, Goto, CpuType
<1> QED BY <1>1, <1>2

LEMMA EnvironmentType ==
    TypeInv /\ (RaiseIdle \/ RaiseControl \/ TakeIdle \/ TakeControl
                \/ IssueCommand \/ CollectResponse \/ Tick) => TypeInv'
<1> SUFFICES ASSUME TypeInv, RaiseIdle \/ RaiseControl \/ TakeIdle \/ TakeControl
                             \/ IssueCommand \/ CollectResponse \/ Tick
             PROVE  TypeInv'
    OBVIOUS
<1> USE DEF TypeInv, TypeOK
<1>1. CASE RaiseIdle
  <2>1. slw' \in SlwType
    BY <1>1, Zenon DEF RaiseIdle, SlwType
  <2> QED BY <1>1, <2>1 DEF RaiseIdle, OperandsOK
<1>2. CASE RaiseControl
  <2>1. PICK r \in {"enable", "disable"} :
          slw' = [slw EXCEPT !.request = r, !.fir = FALSE, !.wakeup = TRUE]
    BY <1>2 DEF RaiseControl
  <2>2. slw' \in SlwType
    BY <2>1, Zenon DEF SlwType
  <2> QED BY <1>2, <2>2 DEF RaiseControl, OperandsOK
<1>3. CASE TakeIdle
  <2>1. PICK mask \in {"SLW", "PTS", "PIB"} :
          Vector([cpu EXCEPT !.pc = "slw", !.emr = mask, !.ints = FALSE, !.sprg0 = "core"])
    BY <1>3, EmrType DEF TakeIdle
  <2> DEFINE c == [cpu EXCEPT !.pc = "slw", !.emr = mask, !.ints = FALSE, !.sprg0 = "core"]
  <2>2. c \in CpuType
    BY Zenon DEF CpuType, PCs
  <2>3. c.pc = "slw"
    BY DEF CpuType
  <2>4. cpu' \in CpuType /\ pts' \in PtsType /\ cpu'.pc = "slw"
    <3> HIDE DEF c
    <3> QED BY <2>1, <2>2, <2>3, VectorType DEF c
  <2>5. slw' \in SlwType
    BY <1>3, Zenon DEF TakeIdle, SlwType
  <2> QED BY <1>3, <2>4, <2>5 DEF TakeIdle, OperandsOK
<1>4. CASE TakeControl
  <2> DEFINE c == [cpu EXCEPT !.pc = slw.request]
  <2>1. slw.request \in {"enable", "disable"} /\ Vector(c)
    BY <1>4 DEF TakeControl
  <2>2. slw.request \in PCs
    BY <2>1 DEF PCs
  <2>3. c \in CpuType
    BY <2>2, Zenon DEF CpuType
  <2>4. c.pc = slw.request
    BY DEF CpuType
  <2>5. cpu' \in CpuType /\ pts' \in PtsType /\ cpu'.pc = slw.request
    <3> HIDE DEF c
    <3> QED BY <2>1, <2>3, <2>4, VectorType
  <2>6. slw' \in SlwType
    BY <1>4, Zenon DEF TakeControl, SlwType
  <2> QED BY <1>4, <2>1, <2>5, <2>6 DEF TakeControl, OperandsOK
<1>5. CASE IssueCommand
  <2>1. PICK c \in Commands :
          /\ pts' = [pts EXCEPT !.command = c, !.response = NoResponse]
          /\ phyp' = [phyp EXCEPT !.op = c.op]
    BY <1>5 DEF IssueCommand
  <2>2. c \in Commands \cup {NoCommand} /\ c.op \in CommandOps \cup {"none"}
    BY <2>1 DEF Commands
  <2>3. pts' \in PtsType
    BY <2>1, <2>2, Values, Zenon DEF PtsType
  <2>4. phyp' \in PhypType
    BY <2>1, <2>2, Zenon DEF PhypType
  <2> QED BY <1>5, <2>1, <2>3, <2>4 DEF IssueCommand, OperandsOK, PtsType
<1>6. CASE CollectResponse
  <2>1. pts' \in PtsType
    BY <1>6, Values, Zenon DEF CollectResponse, PtsType
  <2>2. phyp' \in PhypType
    BY <1>6, Zenon DEF CollectResponse, PhypType
  <2> QED BY <1>6, <2>1, <2>2 DEF CollectResponse, OperandsOK, PtsType
<1>7. CASE Tick
  <2>1. (IF cpu.wait > 0 THEN cpu.wait - 1 ELSE 0) \in 0 .. MaxWait
    BY PtsAssumption DEF CpuType
  <2>2. cpu' \in CpuType
    BY <1>7, <2>1, Zenon DEF Tick, CpuType
  <2>3. \A n \in Nexts : Later(n) \in Nexts
    BY PtsAssumption DEF Later, Nexts, TERMINATED
  <2>4. \A s \in Slots : [table[s] EXCEPT !.next = Later(table[s].next)] \in EntryType
    BY <2>3, Zenon DEF EntryType
  <2>5. table' \in [Slots -> EntryType]
    BY <1>7, <2>4, Zenon DEF Tick
  <2> QED BY <1>7, <2>2, <2>5 DEF Tick, OperandsOK, CpuType
<1> QED BY <1>1, <1>2, <1>3, <1>4, <1>5, <1>6, <1>7

LEMMA TypeStep == TypeInv /\ [Next]_vars => TypeInv'
<1>1. TypeInv /\ HwError => TypeInv'
    BY ErrorType DEF HwError
<1>2. TypeInv /\ (Lost \/ UNCHANGED vars) => TypeInv'
    BY DEF Lost, vars, TypeInv, TypeOK, OperandsOK
<1> QED BY <1>1, <1>2, SchedulerType, ErrorStepType, CommandType, SlwStepType, RunType,
           EnvironmentType DEF Next, EngineStep

(* Every variable keeps its type whatever PHYP, PMC, the threads and the   *)
(* hardware do.                                                            *)
THEOREM TypeCorrect == Spec => []TypeOK
<1>1. TypeInv => TypeOK
    BY DEF TypeInv
<1> QED BY <1>1, TypeInit, TypeStep, PTL DEF Spec

-----------------------------------------------------------------------------
(* What the larger actions do to the fields that control depends on.       *)

LEMMA ScanMoves ==
    ASSUME TypeInv, NEW s \in Slots, ScanFound(s)
    PROVE  /\ cpu.pc = "scan" /\ cpu'.tbar = cpu.tbar /\ UNCHANGED slw
           /\ \/ /\ cpu'.pc = "pibWindow" /\ pts'.schedulerState = "INTERRUPTIBLE"
              \/ /\ cpu'.pc = "dispatch" /\ cpu'.ints = cpu.ints
                 /\ pts'.schedulerState = pts.schedulerState
<1> DEFINE t == table[s].thread
<1>1. cpu.pc = "scan" /\ UNCHANGED slw /\ ResumeThread(t)
  BY DEF ScanFound
<1>2. CASE thr[t].handlesPib
  <2>1. /\ cpu' = [cpu EXCEPT !.pc = "pibWindow", !.sprg0 = t, !.ints = TRUE]
        /\ pts' = [pts EXCEPT !.currentThread = t, !.schedulerState = "INTERRUPTIBLE"]
    BY <1>1, <1>2, Zenon DEF ResumeThread
  <2> QED BY <1>1, <2>1 DEF TypeInv, TypeOK, CpuType, PtsType
<1>3. CASE ~thr[t].handlesPib
  <2>1. /\ cpu' = [cpu EXCEPT !.pc = "dispatch", !.sprg0 = t]
        /\ pts' = [pts EXCEPT !.currentThread = t]
    BY <1>1, <1>3, Zenon DEF ResumeThread
  <2> QED BY <1>1, <2>1 DEF TypeInv, TypeOK, CpuType, PtsType
<1> QED BY <1>2, <1>3

LEMMA DieMoves ==
    ASSUME TypeInv, TerminateSuspendDie
    PROVE  /\ cpu.pc = "die" /\ UNCHANGED slw
           /\ cpu'.pc \in {"kill", "terminated", "wild"}
           /\ cpu'.tbar = cpu.tbar /\ cpu'.ints = cpu.ints
           /\ pts'.schedulerState = pts.schedulerState
           /\ cpu'.pc = "terminated" => pts'.currentThread = NoThread
<1> USE DEF TypeInv, TypeOK, CpuType, PtsType
<1>1. cpu.pc = "die" /\ UNCHANGED slw
  BY DEF TerminateSuspendDie
<1>2. CASE pts.atomic
  BY <1>1, <1>2 DEF TerminateSuspendDie, AtomicViolation
<1>3. CASE ~pts.atomic /\ cpu.sprg0 \in Threads
  BY <1>1, <1>3 DEF TerminateSuspendDie, Goto
<1>4. CASE ~pts.atomic /\ cpu.sprg0 \notin Threads
  BY <1>1, <1>4 DEF TerminateSuspendDie, Goto
<1> QED BY <1>2, <1>3, <1>4

LEMMA InjectMoves ==
    ASSUME TypeInv, InjectError
    PROVE  /\ cpu.pc = "command" /\ cpu'.pc \in {"stopped", "killPts"}
           /\ cpu'.tbar = cpu.tbar /\ cpu'.ints = cpu.ints /\ UNCHANGED slw
           /\ pts'.schedulerState = pts.schedulerState
           /\ pts'.currentThread = pts.currentThread
<1> USE DEF TypeInv, TypeOK, CpuType, PtsType
<1>1. cpu.pc = "command" /\ UNCHANGED slw
  BY DEF InjectError, InCommand
<1>2. PICK left : pts' = [pts EXCEPT !.command = left]
  BY DEF InjectError
<1>3. CASE cpu' = [Goto(cpu, "stopped") EXCEPT !.dbgLocked = TRUE]
  BY <1>1, <1>2, <1>3 DEF Goto
<1>4. CASE \E code : cpu' = [cpu EXCEPT !.pc = "killPts", !.code = code, !.dbgLocked = TRUE]
  BY <1>1, <1>2, <1>4
<1> QED BY <1>3, <1>4 DEF InjectError

LEMMA ErrorMoves ==
    ASSUME TypeInv, HwError
    PROVE  /\ Executing /\ UNCHANGED slw
           /\ cpu'.tbar = cpu.tbar /\ cpu'.ints = cpu.ints
           /\ pts'.schedulerState = pts.schedulerState
           /\ pts'.currentThread = pts.currentThread
           /\ \/ cpu'.pc = "stopped"
              \/ /\ cpu.tbar = "pts" /\ pts.schedulerState # "INTERRUPTIBLE"
                 /\ cpu'.pc = IF pts.currentThread # NoThread THEN "kill" ELSE "killPts"
<1> USE DEF TypeInv, TypeOK, CpuType, PtsType
<1>1. PICK n \in Errors : Executing /\ Error(n) /\ UNCHANGED slw
  BY DEF HwError
<1>2. CASE StopEngine
  BY <1>1, <1>2 DEF StopEngine, Goto
<1>3. CASE ~StopEngine
  <2>1. cpu.tbar = "pts" /\ PublicError(n) /\ pts.schedulerState # "INTERRUPTIBLE"
    BY <1>1, <1>3 DEF Error
  <2>2. Blame(n).pc = IF pts.currentThread # NoThread THEN "kill" ELSE "killPts"
    BY DEF Blame
  <2> QED BY <1>1, <2>1, <2>2 DEF PublicError
<1> QED BY <1>2, <1>3

LEMMA RunMoves ==
    ASSUME TypeInv, SystemCall \/ MainstoreAtomicAdd \/ MainstoreDefault
    PROVE  /\ cpu.pc = "thread" /\ UNCHANGED slw
           /\ cpu'.pc \in {"thread", "schedule", "die", "kill", "wild"}
           /\ cpu'.tbar = cpu.tbar /\ cpu'.ints = cpu.ints
           /\ pts'.schedulerState = pts.schedulerState
<1> USE DEF TypeInv, TypeOK, CpuType, PtsType
<1>1. CASE Yield \/ Sleep \/ Suspend \/ ThreadHandlesPibErrors \/ PtsHandlesPibErrors
  <2>1. PICK next, pib, suspend : InThread /\ YieldSleepSuspend(next, pib, suspend)
    BY <1>1, YieldMoves
  <2>2. CASE pts.atomic
    BY <2>1, <2>2 DEF InThread, YieldSleepSuspend, AtomicViolation
  <2>3. CASE ~pts.atomic
    BY <2>1, <2>3 DEF InThread, YieldSleepSuspend
  <2> QED BY <2>2, <2>3
<1>2. CASE Terminate \/ StraySystemCall
  BY <1>2 DEF Terminate, StraySystemCall, InThread
<1>3. CASE MainstoreAtomicAdd \/ MainstoreDefault
  BY <1>3 DEF MainstoreAtomicAdd, MainstoreDefault, InThread
<1> QED BY <1>1, <1>2, <1>3 DEF SystemCall

LEMMA IdleMoves ==
    ASSUME TypeInv, TakeIdle
    PROVE  /\ slw.request = "idle" /\ TakesRequests
           /\ cpu'.pc = "slw" /\ cpu'.tbar = cpu.tbar /\ cpu'.ints = FALSE
           /\ slw' = [slw EXCEPT !.request = "none"]
           /\ \/ cpu.tbar # "pts" /\ pts' = pts
              \/ cpu.tbar = "pts" /\ pts' = [pts EXCEPT !.schedulerState = "INTERRUPTIBLE"]
<1>1. /\ slw.request = "idle" /\ TakesRequests
      /\ slw' = [slw EXCEPT !.request = "none"]
  BY DEF TakeIdle
<1>2. PICK mask \in {"SLW", "PTS", "PIB"} :
        Vector([cpu EXCEPT !.pc = "slw", !.emr = mask, !.ints = FALSE, !.sprg0 = "core"])
  BY EmrType DEF TakeIdle
<1> DEFINE c == [cpu EXCEPT !.pc = "slw", !.emr = mask, !.ints = FALSE, !.sprg0 = "core"]
<1>3. c \in CpuType
  BY Zenon DEF TypeInv, TypeOK, CpuType, PCs
<1>4. c.pc = "slw" /\ c.tbar = cpu.tbar /\ c.ints = FALSE
  BY DEF TypeInv, TypeOK, CpuType
<1>5. Vector(c)
  BY <1>2
<1> HIDE DEF c
<1> QED BY <1>1, <1>3, <1>4, <1>5, VectorControl

LEMMA ControlMoves ==
    ASSUME TypeInv, TakeControl
    PROVE  /\ slw.request \in {"enable", "disable"} /\ TakesRequests
           /\ cpu'.pc = slw.request /\ cpu'.tbar = cpu.tbar /\ cpu'.ints = cpu.ints
           /\ slw' = [slw EXCEPT !.request = "none", !.wakeup = TRUE]
           /\ \/ cpu.tbar # "pts" /\ pts' = pts
              \/ cpu.tbar = "pts" /\ pts' = [pts EXCEPT !.schedulerState = "INTERRUPTIBLE"]
<1> DEFINE c == [cpu EXCEPT !.pc = slw.request]
<1>1. /\ slw.request \in {"enable", "disable"} /\ TakesRequests /\ Vector(c)
      /\ slw' = [slw EXCEPT !.request = "none", !.wakeup = TRUE]
  BY DEF TakeControl
<1>2. slw.request \in PCs
  BY <1>1 DEF PCs
<1>3. c \in CpuType
  BY <1>2, Zenon DEF TypeInv, TypeOK, CpuType
<1>4. c.pc = slw.request /\ c.tbar = cpu.tbar /\ c.ints = cpu.ints
  BY DEF TypeInv, TypeOK, CpuType
<1> HIDE DEF c
<1> QED BY <1>1, <1>3, <1>4, VectorControl

-----------------------------------------------------------------------------
(* EnabledOK is kept: PTS starts and goes on only under its branch table   *)
(* and with slw_terminator set.                                            *)

LEMMA EnabledInit == Init => EnabledOK
BY DEF Init, EnabledOK, LoopPCs, ThreadPCs

LEMMA EnabledScheduler == TypeInv /\ EnabledOK /\ SchedulerStep => EnabledOK'
<1> SUFFICES ASSUME TypeInv, EnabledOK, SchedulerStep PROVE EnabledOK'
    OBVIOUS
<1> USE DEF TypeInv, TypeOK, CpuType, PtsType, SlwType, EnabledOK, LoopPCs, ThreadPCs
<1>1. CASE Schedule
    BY <1>1 DEF Schedule, AfterEnter, EnterScheduler
<1>2. CASE OpenWindow
    BY <1>2 DEF OpenWindow, WindowCpu
<1>3. CASE CloseWindow
    BY <1>3 DEF CloseWindow, ClosedCpu
<1>4. CASE ScanStopped
    BY <1>4 DEF ScanStopped, Wait
<1>5. CASE \E s \in Slots : ScanFound(s)
    BY <1>5, ScanMoves
<1>6. CASE ScanNone
    BY <1>6 DEF ScanNone
<1>7. CASE RescanReady
    BY <1>7 DEF RescanReady
<1>8. CASE RescanWait
    BY <1>8 DEF RescanWait, Wait
<1>9. CASE WaitDone
    BY <1>9 DEF WaitDone
<1>10. CASE PibWindowClose
    BY <1>10 DEF PibWindowClose
<1>11. CASE Dispatch
    BY <1>11 DEF Dispatch
<1>12. CASE TerminateSuspendDie
    BY <1>12, DieMoves
<1> QED BY <1>1, <1>2, <1>3, <1>4, <1>5, <1>6, <1>7, <1>8, <1>9, <1>10, <1>11, <1>12
        DEF SchedulerStep

LEMMA EnabledError == TypeInv /\ EnabledOK /\ ErrorStep => EnabledOK'
<1> SUFFICES ASSUME TypeInv, EnabledOK, ErrorStep PROVE EnabledOK'
    OBVIOUS
<1> USE DEF TypeInv, TypeOK, CpuType, PtsType, SlwType, EnabledOK, LoopPCs, ThreadPCs
<1>1. CASE KillThread
    BY <1>1 DEF KillThread
<1>2. CASE UnlockDbg
    BY <1>2 DEF UnlockDbg
<1>3. CASE EnterError0Handler
    BY <1>3 DEF EnterError0Handler, Goto
<1>4. CASE RecordDeath
    BY <1>4 DEF RecordDeath
<1>5. CASE KillPts
    BY <1>5 DEF KillPts, Goto
<1> QED BY <1>1, <1>2, <1>3, <1>4, <1>5 DEF ErrorStep

LEMMA EnabledCommand == TypeInv /\ EnabledOK /\ CommandStep => EnabledOK'
<1> SUFFICES ASSUME TypeInv, EnabledOK, CommandStep PROVE EnabledOK'
    OBVIOUS
<1> USE DEF TypeInv, TypeOK, CpuType, PtsType, SlwType, EnabledOK, LoopPCs, ThreadPCs
<1>1. CASE StartPts
    BY <1>1 DEF StartPts, InCommand, Finish, Answered
<1>2. CASE StopPts
    BY <1>2 DEF StopPts, InCommand, Finish, Answered
<1>3. CASE CommandThread
    BY <1>3 DEF CommandThread, InCommand, Finish, Answered
<1>4. CASE InvalidCommand
    BY <1>4 DEF InvalidCommand, InCommand, Finish, Answered
<1>5. CASE InjectError
    BY <1>5, InjectMoves
<1>6. CASE InjectUndetected
    BY <1>6 DEF InjectUndetected, InCommand
<1> QED BY <1>1, <1>2, <1>3, <1>4, <1>5, <1>6 DEF CommandStep

LEMMA EnabledSlw == TypeInv /\ EnabledOK /\ SlwStep => EnabledOK'
<1> SUFFICES ASSUME TypeInv, EnabledOK, SlwStep PROVE EnabledOK'
    OBVIOUS
<1> USE DEF TypeInv, TypeOK, CpuType, PtsType, SlwType, EnabledOK, LoopPCs, ThreadPCs
<1>1. CASE SlwDone
    BY <1>1 DEF SlwDone, AfterSlw
<1>2. CASE EnableFromSlw
    BY <1>2 DEF EnableFromSlw
<1>3. CASE DisableFromSlw
    BY <1>3 DEF DisableFromSlw
<1>4. CASE EntryStart
    BY <1>4 DEF EntryStart
<1>5. CASE EntryUnable
    BY <1>5 DEF EntryUnable
<1>6. CASE EntrySchedule
    BY <1>6 DEF EntrySchedule
<1>7. CASE CheckChip
    BY <1>7 DEF CheckChip, ChipState
<1>8. CASE ThreadEnded
    BY <1>8 DEF ThreadEnded
<1>9. CASE ThreadFailed
    BY <1>9 DEF ThreadFailed
<1>10. CASE DisablePts
    BY <1>10 DEF DisablePts
<1>11. CASE SetFir
    BY <1>11 DEF SetFir, Reported
<1>12. CASE RestoreSlw
    BY <1>12 DEF RestoreSlw
<1> QED BY <1>1, <1>2, <1>3, <1>4, <1>5, <1>6, <1>7, <1>8, <1>9, <1>10, <1>11, <1>12
        DEF SlwStep

LEMMA EnabledEnvironment ==
    TypeInv /\ EnabledOK /\ (RaiseIdle \/ RaiseControl \/ TakeIdle \/ TakeControl
        \/ IssueCommand \/ CollectResponse \/ Tick \/ Lost \/ UNCHANGED vars) => EnabledOK'
<1> SUFFICES ASSUME TypeInv, EnabledOK,
                    RaiseIdle \/ RaiseControl \/ TakeIdle \/ TakeControl \/ IssueCommand
                    \/ CollectResponse \/ Tick \/ Lost \/ UNCHANGED vars
             PROVE  EnabledOK'
    OBVIOUS
<1> USE DEF TypeInv, TypeOK, CpuType, PtsType, SlwType, EnabledOK, LoopPCs, ThreadPCs
<1>1. CASE RaiseIdle
    BY <1>1 DEF RaiseIdle, EngineDone
<1>2. CASE RaiseControl
    BY <1>2 DEF RaiseControl
<1>3. CASE TakeIdle
    BY <1>3, IdleMoves DEF TakesRequests
<1>4. CASE TakeControl
    BY <1>4, ControlMoves DEF TakesRequests
<1>5. CASE IssueCommand
    BY <1>5 DEF IssueCommand
<1>6. CASE CollectResponse
    BY <1>6 DEF CollectResponse
<1>7. CASE Tick
    BY <1>7 DEF Tick
<1>8. CASE Lost \/ UNCHANGED vars
    BY <1>8 DEF Lost, vars
<1> QED BY <1>1, <1>2, <1>3, <1>4, <1>5, <1>6, <1>7, <1>8

LEMMA EnabledStep == TypeInv /\ EnabledOK /\ [Next]_vars => EnabledOK'
<1> SUFFICES ASSUME TypeInv, EnabledOK, [Next]_vars PROVE EnabledOK'
    OBVIOUS
<1>1. CASE HwError
    BY <1>1, ErrorMoves
       DEF Executing, EnabledOK, LoopPCs, ThreadPCs, TypeInv, TypeOK, CpuType, PCs
<1>2. CASE SystemCall \/ MainstoreAtomicAdd \/ MainstoreDefault
    BY <1>2, RunMoves DEF EnabledOK, LoopPCs, ThreadPCs
<1> QED BY <1>1, <1>2, EnabledScheduler, EnabledError, EnabledCommand, EnabledSlw,
           EnabledEnvironment DEF Next, EngineStep

(* After a disable or a fatal error no deep-idle request brings PTS back.  *)
THEOREM RunsOnlyWhenEnabled == Spec => []PtsRunsOnlyWhenEnabled
<1>1. Init => TypeInv /\ EnabledOK
    BY TypeInit, EnabledInit
<1>2. (TypeInv /\ EnabledOK) /\ [Next]_vars => (TypeInv /\ EnabledOK)'
    BY TypeStep, EnabledStep
<1>3. TypeInv /\ EnabledOK => PtsRunsOnlyWhenEnabled
    BY DEF EnabledOK, PtsRunsOnlyWhenEnabled
<1> QED BY <1>1, <1>2, <1>3, PTL DEF Spec

-----------------------------------------------------------------------------
(* WindowsOK is kept: PTS opens its windows with the state that            *)
(* _ptsPublicFunction expects.                                             *)

LEMMA WindowsInit == Init => WindowsOK
BY DEF Init, WindowsOK, RunningPCs, LoopPCs, ThreadPCs, HandlerPCs

LEMMA WindowsScheduler == TypeInv /\ EnabledOK /\ WindowsOK /\ SchedulerStep => WindowsOK'
<1> SUFFICES ASSUME TypeInv, EnabledOK, WindowsOK, SchedulerStep PROVE WindowsOK'
    OBVIOUS
<1> USE DEF TypeInv, TypeOK, CpuType, PtsType, SlwType, EnabledOK, WindowsOK, RunningPCs,
        LoopPCs, ThreadPCs, HandlerPCs
<1>1. CASE Schedule
    BY <1>1 DEF Schedule, AfterEnter, EnterScheduler
<1>2. CASE OpenWindow
    BY <1>2 DEF OpenWindow, WindowCpu
<1>3. CASE CloseWindow
    BY <1>3 DEF CloseWindow, ClosedCpu
<1>4. CASE ScanStopped
    BY <1>4 DEF ScanStopped, Wait
<1>5. CASE \E s \in Slots : ScanFound(s)
    BY <1>5, ScanMoves
<1>6. CASE ScanNone
    BY <1>6 DEF ScanNone
<1>7. CASE RescanReady
    BY <1>7 DEF RescanReady
<1>8. CASE RescanWait
    BY <1>8 DEF RescanWait, Wait
<1>9. CASE WaitDone
    BY <1>9 DEF WaitDone
<1>10. CASE PibWindowClose
    BY <1>10 DEF PibWindowClose
<1>11. CASE Dispatch
    BY <1>11 DEF Dispatch
<1>12. CASE TerminateSuspendDie
    BY <1>12, DieMoves
<1> QED BY <1>1, <1>2, <1>3, <1>4, <1>5, <1>6, <1>7, <1>8, <1>9, <1>10, <1>11, <1>12
        DEF SchedulerStep

LEMMA WindowsError == TypeInv /\ EnabledOK /\ WindowsOK /\ ErrorStep => WindowsOK'
<1> SUFFICES ASSUME TypeInv, EnabledOK, WindowsOK, ErrorStep PROVE WindowsOK'
    OBVIOUS
<1> USE DEF TypeInv, TypeOK, CpuType, PtsType, SlwType, EnabledOK, WindowsOK, RunningPCs,
        LoopPCs, ThreadPCs, HandlerPCs
<1>1. CASE KillThread
    BY <1>1 DEF KillThread
<1>2. CASE UnlockDbg
    BY <1>2 DEF UnlockDbg
<1>3. CASE EnterError0Handler
    BY <1>3 DEF EnterError0Handler, Goto
<1>4. CASE RecordDeath
    BY <1>4 DEF RecordDeath
<1>5. CASE KillPts
    BY <1>5 DEF KillPts, Goto
<1> QED BY <1>1, <1>2, <1>3, <1>4, <1>5 DEF ErrorStep

LEMMA WindowsCommand == TypeInv /\ EnabledOK /\ WindowsOK /\ CommandStep => WindowsOK'
<1> SUFFICES ASSUME TypeInv, EnabledOK, WindowsOK, CommandStep PROVE WindowsOK'
    OBVIOUS
<1> USE DEF TypeInv, TypeOK, CpuType, PtsType, SlwType, EnabledOK, WindowsOK, RunningPCs,
        LoopPCs, ThreadPCs, HandlerPCs
<1>1. CASE StartPts
    BY <1>1 DEF StartPts, InCommand, Finish, Answered
<1>2. CASE StopPts
    BY <1>2 DEF StopPts, InCommand, Finish, Answered
<1>3. CASE CommandThread
    BY <1>3 DEF CommandThread, InCommand, Finish, Answered
<1>4. CASE InvalidCommand
    BY <1>4 DEF InvalidCommand, InCommand, Finish, Answered
<1>5. CASE InjectError
    BY <1>5, InjectMoves
<1>6. CASE InjectUndetected
    BY <1>6 DEF InjectUndetected, InCommand
<1> QED BY <1>1, <1>2, <1>3, <1>4, <1>5, <1>6 DEF CommandStep

LEMMA WindowsSlw == TypeInv /\ EnabledOK /\ WindowsOK /\ SlwStep => WindowsOK'
<1> SUFFICES ASSUME TypeInv, EnabledOK, WindowsOK, SlwStep PROVE WindowsOK'
    OBVIOUS
<1> USE DEF TypeInv, TypeOK, CpuType, PtsType, SlwType, EnabledOK, WindowsOK, RunningPCs,
        LoopPCs, ThreadPCs, HandlerPCs
<1>1. CASE SlwDone
    BY <1>1 DEF SlwDone, AfterSlw
<1>2. CASE EnableFromSlw
    BY <1>2 DEF EnableFromSlw
<1>3. CASE DisableFromSlw
    BY <1>3 DEF DisableFromSlw
<1>4. CASE EntryStart
    BY <1>4 DEF EntryStart
<1>5. CASE EntryUnable
    BY <1>5 DEF EntryUnable
<1>6. CASE EntrySchedule
    BY <1>6 DEF EntrySchedule
<1>7. CASE CheckChip
    BY <1>7 DEF CheckChip, ChipState
<1>8. CASE ThreadEnded
    BY <1>8 DEF ThreadEnded
<1>9. CASE ThreadFailed
    BY <1>9 DEF ThreadFailed
<1>10. CASE DisablePts
    BY <1>10 DEF DisablePts
<1>11. CASE SetFir
    BY <1>11 DEF SetFir, Reported
<1>12. CASE RestoreSlw
    BY <1>12 DEF RestoreSlw
<1> QED BY <1>1, <1>2, <1>3, <1>4, <1>5, <1>6, <1>7, <1>8, <1>9, <1>10, <1>11, <1>12
        DEF SlwStep

LEMMA WindowsEnvironment ==
    TypeInv /\ EnabledOK /\ WindowsOK /\ (RaiseIdle \/ RaiseControl \/ TakeIdle \/ TakeControl
        \/ IssueCommand \/ CollectResponse \/ Tick \/ Lost \/ UNCHANGED vars) => WindowsOK'
<1> SUFFICES ASSUME TypeInv, EnabledOK, WindowsOK,
                    RaiseIdle \/ RaiseControl \/ TakeIdle \/ TakeControl \/ IssueCommand
                    \/ CollectResponse \/ Tick \/ Lost \/ UNCHANGED vars
             PROVE  WindowsOK'
    OBVIOUS
<1> USE DEF TypeInv, TypeOK, CpuType, PtsType, SlwType, EnabledOK, WindowsOK, RunningPCs,
        LoopPCs, ThreadPCs, HandlerPCs
<1>1. CASE RaiseIdle
    BY <1>1 DEF RaiseIdle, EngineDone
<1>2. CASE RaiseControl
    BY <1>2 DEF RaiseControl
<1>3. CASE TakeIdle
    BY <1>3, IdleMoves DEF TakesRequests
<1>4. CASE TakeControl
    BY <1>4, ControlMoves DEF TakesRequests
<1>5. CASE IssueCommand
  <2>1. PICK c : pts' = [pts EXCEPT !.command = c, !.response = NoResponse]
    BY <1>5 DEF IssueCommand
  <2>2. pts'.schedulerState = pts.schedulerState
    BY <2>1
  <2>3. cpu' = cpu /\ slw' = slw
    BY <1>5 DEF IssueCommand
  <2> QED BY <2>2, <2>3
<1>6. CASE CollectResponse
    BY <1>6 DEF CollectResponse
<1>7. CASE Tick
    BY <1>7 DEF Tick
<1>8. CASE Lost \/ UNCHANGED vars
    BY <1>8 DEF Lost, vars
<1> QED BY <1>1, <1>2, <1>3, <1>4, <1>5, <1>6, <1>7, <1>8

LEMMA WindowsStep == TypeInv /\ EnabledOK /\ WindowsOK /\ [Next]_vars => WindowsOK'
<1> SUFFICES ASSUME TypeInv, EnabledOK, WindowsOK, [Next]_vars PROVE WindowsOK'
    OBVIOUS
<1> USE DEF WindowsOK, RunningPCs, LoopPCs, ThreadPCs, HandlerPCs
<1>1. CASE HwError
    BY <1>1, ErrorMoves DEF Executing, EnabledOK, TypeInv, TypeOK, CpuType, PCs, SlwType
<1>2. CASE SystemCall \/ MainstoreAtomicAdd \/ MainstoreDefault
    BY <1>2, RunMoves
<1> QED BY <1>1, <1>2, WindowsScheduler, WindowsError, WindowsCommand, WindowsSlw,
           WindowsEnvironment DEF Next, EngineStep

LEMMA SchedulerKeepsSlw == SchedulerStep => UNCHANGED slw
BY DEF SchedulerStep, Schedule, OpenWindow, CloseWindow, ScanStopped, ScanFound, ScanNone,
       RescanReady, RescanWait, WaitDone, PibWindowClose, Dispatch, TerminateSuspendDie

(* Only the two actions that take a request end one.                       *)
LEMMA RequestTaken ==
    ASSUME TypeInv, Next, slw'.request # slw.request, slw'.request = "none"
    PROVE  TakeIdle \/ TakeControl
<1> USE DEF TypeInv, TypeOK, SlwType
<1>1. CASE SchedulerStep
    BY <1>1, SchedulerKeepsSlw
<1>2. CASE ErrorStep
    BY <1>2 DEF ErrorStep, KillThread, UnlockDbg, EnterError0Handler, RecordDeath, KillPts
<1>3. CASE CommandStep
    BY <1>3 DEF CommandStep, StartPts, StopPts, CommandThread, InvalidCommand, Finish,
                InjectError, InjectUndetected
<1>4. CASE SlwStep
    BY <1>4 DEF SlwStep, SlwDone, EnableFromSlw, DisableFromSlw, EntryStart,
                EntryUnable, EntrySchedule, CheckChip, ThreadEnded, ThreadFailed,
                DisablePts, SetFir, Reported, RestoreSlw
<1>5. CASE SystemCall \/ MainstoreAtomicAdd \/ MainstoreDefault
    BY <1>5, RunMoves
<1>6. CASE HwError
    BY <1>6, ErrorMoves
<1>7. CASE RaiseIdle \/ RaiseControl
    BY <1>7 DEF RaiseIdle, RaiseControl
<1>8. CASE IssueCommand \/ CollectResponse \/ Tick \/ Lost
    BY <1>8 DEF IssueCommand, CollectResponse, Tick, Lost, vars
<1> QED BY <1>1, <1>2, <1>3, <1>4, <1>5, <1>6, <1>7, <1>8 DEF Next, EngineStep

(* An interrupt reaches running PTS code only in a window.                 *)
THEOREM InterruptsInWindows == Spec => InterruptsOnlyInWindows
<1> DEFINE A == slw'.request # slw.request /\ slw'.request = "none"
                /\ cpu.pc \in LoopPCs \cup ThreadPCs \cup HandlerPCs
                    => pts.schedulerState = "INTERRUPTIBLE"
<1>1. Init => Inv
    BY TypeInit, EnabledInit, WindowsInit DEF Inv
<1>2. Inv /\ [Next]_vars => Inv'
    BY TypeStep, EnabledStep, WindowsStep DEF Inv
<1>3. Inv /\ [Next]_vars => [A]_vars
  <2> SUFFICES ASSUME Inv, Next, slw'.request # slw.request, slw'.request = "none",
                      cpu.pc \in RunningPCs
               PROVE  pts.schedulerState = "INTERRUPTIBLE"
    BY DEF RunningPCs
  <2>1. /\ slw.request # "none"
        /\ TakesRequests
    BY RequestTaken DEF TakeIdle, TakeControl, Inv
  <2>2. cpu.ints
    BY <2>1 DEF TakesRequests, RunningPCs, LoopPCs, ThreadPCs, HandlerPCs
  <2> QED BY <2>1, <2>2 DEF Inv, WindowsOK
<1> QED BY <1>1, <1>2, <1>3, PTL DEF Spec, InterruptsOnlyInWindows

-----------------------------------------------------------------------------
(* The scheduler table and the thread that runs.                           *)

Mapped(t) == table[SlotOf[t]].thread = t
OnSchedule(t) == table[SlotOf[t]] = [next |-> RUNNABLE, thread |-> t]

IdlePCs  == {"command", "open", "window", "scan", "rescan", "wait"}
RunPCs   == {"pibWindow", "dispatch", "thread"}
BlamePCs == {"kill", "unlock", "blame"}

(* An entry names a thread whose back-pointer names the entry; the current *)
(* thread is still mapped, and while it is resumed, runs, or is blamed for *)
(* an error its own handler may take, it is runnable.  An error while PTS  *)
(* is enabled again is charged to the thread that was current before: the  *)
(* enable has made that one runnable.                                      *)
ThreadsOK ==
    /\ \A s \in Slots : table[s].thread # NoThread => SlotOf[table[s].thread] = s
    /\ pts.currentThread # NoThread => Mapped(pts.currentThread)
    /\ cpu.pc \in IdlePCs => pts.currentThread = NoThread
    /\ cpu.pc \in RunPCs => OnSchedule(pts.currentThread)
    /\ cpu.pc \in BlamePCs /\ cpu.code = PTS_THREAD_ERROR(0)
           => cpu.thread \in Threads /\ OnSchedule(cpu.thread)
    /\ cpu.pc \in {"entry", "start"} /\ pts.schedulerState = "UNINITIALIZED"
       /\ pts.currentThread # NoThread => OnSchedule(pts.currentThread)
    /\ cpu.pc = "start" => pts.schedulerState = "UNINITIALIZED"
    /\ cpu.pc = "die" => cpu.code > MaxSleep

(* What ThreadsOK speaks of: a step to any other place need only leave the *)
(* table alone.                                                            *)
WatchedPCs == IdlePCs \cup RunPCs \cup BlamePCs \cup {"entry", "start", "die"}

LEMMA ThreadsInit == Init => ThreadsOK
<1> SUFFICES ASSUME Init PROVE ThreadsOK
    OBVIOUS
<1>1. cpu.pc = "halt" /\ pts.currentThread = NoThread
    BY DEF Init
<1>2. ASSUME NEW s \in Slots, table[s].thread # NoThread
      PROVE  SlotOf[table[s].thread] = s
  <2>1. table[s].thread = ThreadAt(s)
    BY DEF Init
  <2> QED BY <1>2, <2>1 DEF ThreadAt
<1> QED BY <1>1, <1>2 DEF ThreadsOK, IdlePCs, RunPCs, BlamePCs

(* A step that leaves the table alone and goes to a place nothing is said  *)
(* about.                                                                  *)
LEMMA ThreadsLeave ==
    ASSUME ThreadsOK, UNCHANGED table, cpu'.pc \notin WatchedPCs,
           pts'.currentThread \in {pts.currentThread, NoThread}
    PROVE  ThreadsOK'
BY DEF ThreadsOK, WatchedPCs, IdlePCs, RunPCs, BlamePCs, Mapped, OnSchedule

(* The entry of the current thread is rewritten as the thread yields.      *)
LEMMA SlotsAreDistinct ==
    ASSUME TypeInv, ThreadsOK, NEW t \in Threads, NEW s \in Slots, table[s].thread = t
    PROVE  s = SlotOf[t]
BY PtsAssumption DEF ThreadsOK

LEMMA ThreadsScheduler == TypeInv /\ ThreadsOK /\ SchedulerStep => ThreadsOK'
<1> SUFFICES ASSUME TypeInv, ThreadsOK, SchedulerStep PROVE ThreadsOK'
    OBVIOUS
<1> USE DEF TypeInv, TypeOK
<1>1. ASSUME UNCHANGED table, cpu'.pc \in IdlePCs, pts'.currentThread = NoThread
      PROVE  ThreadsOK'
    BY <1>1 DEF ThreadsOK, IdlePCs, RunPCs, BlamePCs
<1>2. CASE Schedule
  <2>1. cpu'.pc \in {"open", "command"} /\ pts'.currentThread = NoThread
    BY <1>2 DEF Schedule, AfterEnter, EnterScheduler, CpuType, PtsType
  <2> QED BY <1>1, <1>2, <2>1 DEF Schedule, IdlePCs
<1>3. CASE OpenWindow
  <2>1. cpu'.pc = "window" /\ pts'.currentThread = NoThread
    BY <1>3 DEF OpenWindow, WindowCpu, CpuType, PtsType, ThreadsOK, IdlePCs
  <2> QED BY <1>1, <1>3, <2>1 DEF OpenWindow, IdlePCs
<1>4. CASE CloseWindow
  <2>1. cpu'.pc = "scan" /\ pts'.currentThread = NoThread
    BY <1>4 DEF CloseWindow, ClosedCpu, CpuType, PtsType, ThreadsOK, IdlePCs
  <2> QED BY <1>1, <1>4, <2>1 DEF CloseWindow, IdlePCs
<1>5. CASE ScanStopped \/ RescanWait
  <2>1. /\ cpu'.pc = "wait" /\ UNCHANGED table
        /\ pts'.currentThread = NoThread
    BY <1>5 DEF ScanStopped, RescanWait, Wait, CpuType, PtsType, ThreadsOK, IdlePCs
  <2> QED BY <1>1, <2>1 DEF IdlePCs
<1>6. ASSUME NEW n \in Nat, table' = RetireEmpty(n)
      PROVE  \A s \in Slots : /\ table'[s].thread = table[s].thread
                              /\ n <= s => table'[s] = table[s]
  <2>1. ASSUME NEW s \in Slots
        PROVE  table'[s].thread = table[s].thread /\ (n <= s => table'[s] = table[s])
    <3>1. CASE s < n /\ Runnable(s)
      BY <1>6, <2>1, <3>1, PtsAssumption DEF RetireEmpty, EntryType, Slots
    <3>2. CASE ~(s < n /\ Runnable(s))
      BY <1>6, <2>1, <3>2 DEF RetireEmpty
    <3> QED BY <2>1, <3>1, <3>2, PtsAssumption DEF Slots
  <2> QED BY <2>1
<1>7. ASSUME NEW s \in Slots, ScanFound(s) PROVE ThreadsOK'
  <2>1. PICK t \in Threads : t = table[s].thread
    BY <1>7 DEF ScanFound, IsFirstReady, Ready, EntryType
  <2>2. /\ table[s] = [next |-> RUNNABLE, thread |-> t] /\ SlotOf[t] = s
        /\ s \in Nat /\ table' = RetireEmpty(s) /\ ResumeThread(t)
    BY <1>7, <2>1, PtsAssumption
       DEF ScanFound, IsFirstReady, Ready, Runnable, EntryType, Slots, ThreadsOK
  <2>3. /\ \A r \in Slots : table'[r].thread = table[r].thread
        /\ table'[SlotOf[t]] = [next |-> RUNNABLE, thread |-> t]
    BY <1>6, <2>2, PtsAssumption DEF Slots
  <2>4. cpu'.pc \in {"pibWindow", "dispatch"} /\ pts'.currentThread = t
    <3>1. CASE thr[t].handlesPib
      BY <2>2, <3>1 DEF ResumeThread, CpuType, PtsType
    <3>2. CASE ~thr[t].handlesPib
      BY <2>2, <3>2 DEF ResumeThread, CpuType, PtsType
    <3> QED BY <3>1, <3>2
  <2> QED BY <2>3, <2>4 DEF ThreadsOK, OnSchedule, Mapped, IdlePCs, RunPCs, BlamePCs
<1>8. CASE ScanNone
  <2>1. /\ NSlots \in Nat /\ table' = RetireEmpty(NSlots)
        /\ cpu'.pc = "rescan" /\ pts'.currentThread = NoThread
    BY <1>8, PtsAssumption DEF ScanNone, CpuType, ThreadsOK, IdlePCs
  <2>2. \A s \in Slots : table'[s].thread = table[s].thread
    BY <1>6, <2>1
  <2> QED BY <2>1, <2>2 DEF ThreadsOK, IdlePCs, RunPCs, BlamePCs
<1>9. CASE RescanReady \/ WaitDone
  <2>1. /\ cpu'.pc = "schedule" /\ UNCHANGED <<table, pts>>
    BY <1>9 DEF RescanReady, WaitDone, CpuType
  <2> QED BY <2>1, ThreadsLeave DEF WatchedPCs, IdlePCs, RunPCs, BlamePCs
<1>10. CASE PibWindowClose \/ Dispatch
  <2>1. /\ cpu.pc \in RunPCs /\ cpu'.pc \in RunPCs /\ UNCHANGED table
        /\ pts'.currentThread = pts.currentThread
    BY <1>10 DEF PibWindowClose, Dispatch, CpuType, PtsType, RunPCs
  <2> QED BY <2>1 DEF ThreadsOK, IdlePCs, RunPCs, BlamePCs, Mapped, OnSchedule
<1>11. CASE TerminateSuspendDie
  <2>1. \A s \in Slots : table'[s].thread = table[s].thread
    BY <1>11 DEF TerminateSuspendDie, EntryType
  <2>2. /\ cpu'.pc \in {"kill", "terminated", "wild"}
        /\ cpu'.pc = "kill" => cpu'.code = PTS_THREAD_ATOMIC_VIOLATION
        /\ pts'.currentThread \in {pts.currentThread, NoThread}
    <3>1. CASE pts.atomic
      BY <1>11, <3>1 DEF TerminateSuspendDie, AtomicViolation, CpuType, PtsType
    <3>2. CASE ~pts.atomic /\ cpu.sprg0 \in Threads
      BY <1>11, <3>2 DEF TerminateSuspendDie, Goto, CpuType, PtsType
    <3>3. CASE ~pts.atomic /\ cpu.sprg0 \notin Threads
      BY <1>11, <3>3 DEF TerminateSuspendDie, Goto, CpuType, PtsType
    <3> QED BY <3>1, <3>2, <3>3
  <2>3. PTS_THREAD_ATOMIC_VIOLATION # PTS_THREAD_ERROR(0)
    BY DEF PTS_THREAD_ATOMIC_VIOLATION, PTS_THREAD_ERROR
  <2>4. pts.currentThread # NoThread => SlotOf[pts.currentThread] \in Slots
    BY PtsAssumption DEF PtsType
  <2> QED BY <2>1, <2>2, <2>3, <2>4 DEF ThreadsOK, IdlePCs, RunPCs, BlamePCs, Mapped
<1> QED BY <1>2, <1>3, <1>4, <1>5, <1>7, <1>8, <1>9, <1>10, <1>11 DEF SchedulerStep

LEMMA ThreadsError == TypeInv /\ ThreadsOK /\ ErrorStep => ThreadsOK'
<1> SUFFICES ASSUME TypeInv, ThreadsOK, ErrorStep PROVE ThreadsOK'
    OBVIOUS
<1> USE DEF TypeInv, TypeOK, ThreadsOK, IdlePCs, RunPCs, BlamePCs, Mapped, OnSchedule
<1>1. CASE KillThread
    BY <1>1 DEF KillThread, CpuType, PtsType
<1>2. CASE UnlockDbg
    BY <1>2 DEF UnlockDbg, CpuType
<1>3. CASE EnterError0Handler
  <2>1. cpu'.pc = "thread" /\ pts'.currentThread = cpu.thread /\ UNCHANGED table
    BY <1>3 DEF EnterError0Handler, Goto, CpuType, PtsType
  <2>2. cpu.thread \in Threads /\ OnSchedule(cpu.thread)
    BY <1>3 DEF EnterError0Handler, HandlesError0
  <2> QED BY <2>1, <2>2
<1>4. CASE RecordDeath
  <2>1. cpu'.pc = "die" /\ cpu'.code = KILLED /\ UNCHANGED <<table, pts>>
    BY <1>4 DEF RecordDeath, CpuType
  <2> QED BY <2>1, PtsAssumption DEF KILLED
<1>5. CASE KillPts
  <2>1. /\ cpu'.pc \in {"stopped", "errorHandler"} /\ UNCHANGED table
        /\ pts'.currentThread = pts.currentThread
    BY <1>5 DEF KillPts, Goto, CpuType, PtsType
  <2> QED BY <2>1
<1> QED BY <1>1, <1>2, <1>3, <1>4, <1>5 DEF ErrorStep

(* A command rewrites the table while no thread is current.                *)
LEMMA ThreadsCommand == TypeInv /\ EnabledOK /\ ThreadsOK /\ CommandStep => ThreadsOK'
<1> SUFFICES ASSUME TypeInv, EnabledOK, ThreadsOK, CommandStep PROVE ThreadsOK'
    OBVIOUS
<1> USE DEF TypeInv, TypeOK
<1>1. cpu.pc = "command" /\ pts.currentThread = NoThread
    BY DEF CommandStep, StartPts, StopPts, CommandThread, InvalidCommand, InjectError,
           InjectUndetected, InCommand, ThreadsOK, IdlePCs
<1>2. ASSUME cpu'.pc \in {"open", "stopped", "killPts", "spin"}, pts'.currentThread = NoThread,
             \A s \in Slots : table'[s].thread \in {table[s].thread, NoThread}
      PROVE  ThreadsOK'
    BY <1>2 DEF ThreadsOK, IdlePCs, RunPCs, BlamePCs
<1>3. CASE StartPts \/ StopPts \/ InvalidCommand
  <2>1. cpu'.pc = "open" /\ pts'.currentThread = NoThread /\ UNCHANGED table
    BY <1>1, <1>3 DEF StartPts, StopPts, InvalidCommand, Finish, Answered, CpuType, PtsType
  <2> QED BY <1>2, <2>1
<1>4. CASE CommandThread
  <2>1. pts.command.op \in ThreadOps /\ Finish(pts, ThreadExists(pts.command.prio))
    BY <1>4 DEF CommandThread, InCommand
  <2>2. cpu'.pc = "open" /\ pts'.currentThread = NoThread
    BY <1>1, <2>1 DEF Finish, Answered, CpuType, PtsType
  <2>3. ASSUME NEW e \in EntryType
        PROVE  CommandedEntry(pts.command.op, e).thread \in {e.thread, NoThread}
    BY <2>1 DEF ThreadOps, CommandedEntry, EntryType
  <2>4. ASSUME NEW s \in Slots
        PROVE  table'[s].thread \in {table[s].thread, NoThread}
    <3>1. \/ table'[s] = table[s]
          \/ table'[s] = CommandedEntry(pts.command.op, table[s])
      BY <1>4 DEF CommandThread
    <3> QED BY <2>3, <2>4, <3>1
  <2> QED BY <1>2, <2>2, <2>4
<1>5. CASE InjectError
  <2>1. UNCHANGED table
    BY <1>5 DEF InjectError
  <2> QED BY <1>1, <1>2, <1>5, <2>1, InjectMoves
<1>6. CASE InjectUndetected
  <2>1. cpu'.pc = "spin" /\ pts'.currentThread = NoThread /\ UNCHANGED table
    BY <1>1, <1>6 DEF InjectUndetected, CpuType, PtsType
  <2> QED BY <1>2, <2>1
<1> QED BY <1>3, <1>4, <1>5, <1>6 DEF CommandStep

LEMMA ThreadsSlw ==
    TypeInv /\ EnabledOK /\ WindowsOK /\ ThreadsOK /\ SlwStep => ThreadsOK'
<1> SUFFICES ASSUME TypeInv, EnabledOK, WindowsOK, ThreadsOK, SlwStep PROVE ThreadsOK'
    OBVIOUS
<1> USE DEF TypeInv, TypeOK
<1>1. CASE SlwDone
  <2>1. CASE slw.terminator
    <3>1. /\ cpu'.pc = "entry" /\ UNCHANGED <<pts, table>>
          /\ pts.schedulerState # "UNINITIALIZED"
      BY <1>1, <2>1 DEF SlwDone, AfterSlw, CpuType, WindowsOK
    <3> QED BY <3>1 DEF ThreadsOK, IdlePCs, RunPCs, BlamePCs, Mapped
  <2>2. CASE ~slw.terminator
    <3>1. cpu'.pc = "halt" /\ UNCHANGED <<pts, table>>
      BY <1>1, <2>2 DEF SlwDone, AfterSlw, CpuType
    <3> QED BY <3>1, ThreadsLeave DEF WatchedPCs, IdlePCs, RunPCs, BlamePCs
  <2> QED BY <2>1, <2>2
<1>2. CASE EnableFromSlw
  <2>1. \A s \in Slots : table'[s].thread = table[s].thread
    BY <1>2 DEF EnableFromSlw, EntryType
  <2>2. cpu'.pc = "entry" /\ pts'.currentThread = pts.currentThread
    BY <1>2 DEF EnableFromSlw, CpuType, PtsType
  <2>3. ASSUME pts.currentThread # NoThread
        PROVE  /\ table'[SlotOf[pts.currentThread]].next = RUNNABLE
               /\ table'[SlotOf[pts.currentThread]].thread = pts.currentThread
    <3>1. PICK s \in Slots : s = SlotOf[pts.currentThread] /\ table[s].thread = pts.currentThread
      BY <2>3, PtsAssumption DEF ThreadsOK, Mapped, PtsType
    <3>2. table'[s] = [table[s] EXCEPT !.next = RUNNABLE]
      BY <1>2, <2>3, <3>1 DEF EnableFromSlw
    <3> QED BY <3>1, <3>2 DEF EntryType
  <2>4. table' \in [Slots -> EntryType]
    BY <1>2, TypeStep DEF Next, EngineStep, SlwStep
  <2>5. ASSUME pts.currentThread # NoThread
        PROVE  table'[SlotOf[pts.currentThread]] = [next |-> RUNNABLE, thread |-> pts.currentThread]
    BY <2>3, <2>4, <2>5, PtsAssumption DEF EntryType, PtsType
  <2> QED BY <2>1, <2>2, <2>5, PtsAssumption
          DEF ThreadsOK, IdlePCs, RunPCs, BlamePCs, Mapped, OnSchedule
<1>3. CASE EntryStart
  <2>1. /\ cpu'.pc = "start" /\ UNCHANGED <<pts, table>>
        /\ pts.schedulerState = "UNINITIALIZED" /\ cpu.pc = "entry"
    BY <1>3 DEF EntryStart, CpuType
  <2> QED BY <2>1 DEF ThreadsOK, IdlePCs, RunPCs, BlamePCs, Mapped, OnSchedule
<1>4. CASE CheckChip
  <2>1. /\ cpu'.pc = "entry" /\ UNCHANGED table
        /\ pts'.schedulerState # "UNINITIALIZED"
        /\ pts'.currentThread = pts.currentThread
    BY <1>4 DEF CheckChip, ChipState, CpuType, PtsType
  <2> QED BY <2>1 DEF ThreadsOK, IdlePCs, RunPCs, BlamePCs, Mapped
<1>5. CASE \/ DisableFromSlw \/ EntryUnable \/ EntrySchedule \/ ThreadEnded
           \/ ThreadFailed \/ DisablePts \/ SetFir \/ RestoreSlw
  <2>1. /\ cpu'.pc \in {"halt", "schedule", "errorHandler", "fir", "restore"}
        /\ UNCHANGED table /\ pts'.currentThread = pts.currentThread
    BY <1>5 DEF DisableFromSlw, EntryUnable, EntrySchedule, ThreadEnded, ThreadFailed,
                DisablePts, SetFir, RestoreSlw, CpuType, PtsType
  <2> QED BY <2>1, ThreadsLeave DEF WatchedPCs, IdlePCs, RunPCs, BlamePCs
<1> QED BY <1>1, <1>2, <1>3, <1>4, <1>5 DEF SlwStep

(* The thread that runs makes a system call: its entry gets a new next     *)
(* schedule time and keeps its thread.                                     *)
LEMMA ThreadsRun ==
    TypeInv /\ ThreadsOK /\ (SystemCall \/ MainstoreAtomicAdd \/ MainstoreDefault) => ThreadsOK'
<1> SUFFICES ASSUME TypeInv, ThreadsOK, SystemCall \/ MainstoreAtomicAdd \/ MainstoreDefault
             PROVE  ThreadsOK'
    OBVIOUS
<1> USE DEF TypeInv, TypeOK
<1>1. CASE Yield \/ Sleep \/ Suspend \/ ThreadHandlesPibErrors \/ PtsHandlesPibErrors
  <2>1. PICK next \in Nexts, pib \in BOOLEAN, suspend \in BOOLEAN :
           InThread /\ YieldSleepSuspend(next, pib, suspend)
    BY <1>1, YieldMoves
  <2>2. \A s \in Slots : table'[s].thread = table[s].thread
    BY <2>1 DEF YieldSleepSuspend, EntryType
  <2>3. /\ cpu'.pc \in {"kill", "die", "schedule"}
        /\ cpu'.pc = "kill" => cpu'.code = PTS_THREAD_ATOMIC_VIOLATION
        /\ cpu'.pc = "die" => cpu'.code = SUSPENDED
        /\ pts'.currentThread = pts.currentThread
    BY <2>1 DEF YieldSleepSuspend, AtomicViolation, CpuType, PtsType
  <2>4. /\ PTS_THREAD_ATOMIC_VIOLATION # PTS_THREAD_ERROR(0)
        /\ SUSPENDED > MaxSleep
    BY PtsAssumption DEF PTS_THREAD_ATOMIC_VIOLATION, PTS_THREAD_ERROR, SUSPENDED
  <2>5. pts.currentThread # NoThread => SlotOf[pts.currentThread] \in Slots
    BY PtsAssumption DEF PtsType
  <2> QED BY <2>2, <2>3, <2>4, <2>5 DEF ThreadsOK, IdlePCs, RunPCs, BlamePCs, Mapped
<1>2. CASE Terminate
  <2>1. cpu'.pc = "die" /\ cpu'.code = TERMINATED /\ UNCHANGED <<table, pts>>
    BY <1>2 DEF Terminate, CpuType
  <2>2. TERMINATED > MaxSleep
    BY PtsAssumption DEF TERMINATED
  <2> QED BY <2>1, <2>2 DEF ThreadsOK, IdlePCs, RunPCs, BlamePCs, Mapped
<1>3. CASE StraySystemCall
  <2>1. cpu'.pc = "wild" /\ UNCHANGED <<table, pts>>
    BY <1>3 DEF StraySystemCall, CpuType
  <2> QED BY <2>1, ThreadsLeave DEF WatchedPCs, IdlePCs, RunPCs, BlamePCs
<1>4. CASE MainstoreAtomicAdd \/ MainstoreDefault
  <2>1. UNCHANGED <<cpu, table>> /\ pts'.currentThread = pts.currentThread /\ cpu.pc = "thread"
    BY <1>4 DEF MainstoreAtomicAdd, MainstoreDefault, InThread, PtsType
  <2> QED BY <2>1 DEF ThreadsOK, IdlePCs, RunPCs, BlamePCs, Mapped, OnSchedule
<1> QED BY <1>1, <1>2, <1>3, <1>4 DEF SystemCall

(* An error of a PIB access is charged to a thread only while that thread  *)
(* runs, or while PTS starts.                                              *)
LEMMA ThreadsHwError ==
    TypeInv /\ EnabledOK /\ ThreadsOK /\ HwError => ThreadsOK'
<1> SUFFICES ASSUME TypeInv, EnabledOK, ThreadsOK, HwError PROVE ThreadsOK'
    OBVIOUS
<1> USE DEF TypeInv, TypeOK
<1>1. PICK n \in Errors : Error(n) /\ (n = 0 => cpu.pc \in PibPCs) /\ UNCHANGED table
    BY DEF HwError
<1>2. CASE StopEngine
  <2>1. cpu'.pc = "stopped" /\ UNCHANGED <<table, pts>>
    BY <1>1, <1>2 DEF StopEngine, Goto, CpuType
  <2> QED BY <2>1, ThreadsLeave DEF WatchedPCs, IdlePCs, RunPCs, BlamePCs
<1>3. CASE ~StopEngine
  <2>1. PublicError(n) /\ cpu.tbar = "pts" /\ pts.schedulerState # "INTERRUPTIBLE"
    BY <1>1, <1>3 DEF Error, CpuType
  <2>2. /\ cpu'.pc = Blame(n).pc /\ cpu'.thread = Blame(n).thread /\ cpu'.code = Blame(n).code
        /\ pts'.currentThread = pts.currentThread
    BY <2>1 DEF PublicError, CpuType, PtsType
  <2>3. CASE pts.currentThread = NoThread
    <3>1. cpu'.pc = "killPts" /\ pts'.currentThread = NoThread
      BY <2>2, <2>3 DEF Blame
    <3> QED BY <1>1, <3>1, ThreadsLeave DEF WatchedPCs, IdlePCs, RunPCs, BlamePCs
  <2>4. CASE pts.currentThread # NoThread
    <3>1. /\ cpu'.pc = "kill" /\ cpu'.thread = pts.currentThread
          /\ cpu'.code = PTS_THREAD_ERROR(n) /\ pts.currentThread \in Threads
      BY <2>2, <2>4 DEF Blame, PtsType
    <3>2. ASSUME PTS_THREAD_ERROR(n) = PTS_THREAD_ERROR(0)
          PROVE  OnSchedule(pts.currentThread)
      <4>1. n = 0
        BY <3>2, PtsAssumption DEF PTS_THREAD_ERROR
      <4>2. cpu.pc \in {"thread", "start"}
        BY <1>1, <2>1, <2>4, <4>1 DEF PibPCs, EnabledOK, ThreadsOK, IdlePCs
      <4> QED BY <2>4, <4>2 DEF ThreadsOK, RunPCs
    <3> QED BY <1>1, <2>2, <3>1, <3>2
            DEF ThreadsOK, IdlePCs, RunPCs, BlamePCs, Mapped, OnSchedule
  <2> QED BY <2>3, <2>4
<1> QED BY <1>2, <1>3

LEMMA ThreadsEnvironment ==
    TypeInv /\ ThreadsOK /\ (RaiseIdle \/ RaiseControl \/ TakeIdle \/ TakeControl
        \/ IssueCommand \/ CollectResponse \/ Tick \/ Lost \/ UNCHANGED vars) => ThreadsOK'
<1> SUFFICES ASSUME TypeInv, ThreadsOK,
                    RaiseIdle \/ RaiseControl \/ TakeIdle \/ TakeControl \/ IssueCommand
                    \/ CollectResponse \/ Tick \/ Lost \/ UNCHANGED vars
             PROVE  ThreadsOK'
    OBVIOUS
<1> USE DEF TypeInv, TypeOK
<1>1. CASE TakeIdle \/ TakeControl
  <2>1. cpu'.pc \in {"slw", "enable", "disable"} /\ pts'.currentThread = pts.currentThread
    BY <1>1, IdleMoves, ControlMoves DEF PtsType
  <2>2. UNCHANGED table
    BY <1>1 DEF TakeIdle, TakeControl
  <2> QED BY <2>1, <2>2, ThreadsLeave DEF WatchedPCs, IdlePCs, RunPCs, BlamePCs
<1>2. CASE RaiseIdle \/ RaiseControl \/ IssueCommand \/ CollectResponse \/ Lost \/ UNCHANGED vars
  <2>1. /\ UNCHANGED <<cpu, table>> /\ pts'.currentThread = pts.currentThread
        /\ pts'.schedulerState = pts.schedulerState
    BY <1>2 DEF RaiseIdle, RaiseControl, IssueCommand, CollectResponse, Lost, vars, PtsType
  <2> QED BY <2>1 DEF ThreadsOK, Mapped, OnSchedule
<1>3. CASE Tick
  <2>1. /\ UNCHANGED pts /\ cpu'.pc = cpu.pc /\ cpu'.thread = cpu.thread /\ cpu'.code = cpu.code
    BY <1>3 DEF Tick, CpuType
  <2>2. /\ \A s \in Slots : table'[s].thread = table[s].thread
        /\ \A s \in Slots : table[s].next = RUNNABLE => table'[s] = table[s]
    BY <1>3 DEF Tick, Later, RUNNABLE, EntryType
  <2>3. \A t \in Threads : SlotOf[t] \in Slots
    BY PtsAssumption
  <2>4. \A t \in Threads : OnSchedule(t) => table'[SlotOf[t]] = table[SlotOf[t]]
    BY <2>2, <2>3 DEF OnSchedule
  <2>5. pts.currentThread \in Threads \cup {NoThread}
    BY DEF PtsType
  <2>6. cpu.pc \in RunPCs => pts.currentThread \in Threads
    BY DEF OperandsOK, RunPCs
  <2> QED BY <2>1, <2>2, <2>3, <2>4, <2>5, <2>6 DEF ThreadsOK, Mapped, OnSchedule
<1> QED BY <1>1, <1>2, <1>3

LEMMA ThreadsStep == Inv /\ ThreadsOK /\ [Next]_vars => ThreadsOK'
BY ThreadsScheduler, ThreadsError, ThreadsCommand, ThreadsSlw, ThreadsRun, ThreadsHwError,
   ThreadsEnvironment DEF Inv, Next, EngineStep

LEMMA InvInductive ==
    /\ Init => Inv
    /\ Inv /\ [Next]_vars => Inv'
BY TypeInit, EnabledInit, WindowsInit, TypeStep, EnabledStep, WindowsStep DEF Inv

(* A thread that runs is the one its table entry names, and runnable there *)
(* - also in its error 0 handler, and whatever commands PHYP sends.        *)
THEOREM RunningScheduled == Spec => []RunningIsScheduled
<1>1. Init => Inv /\ ThreadsOK
    BY InvInductive, ThreadsInit
<1>2. (Inv /\ ThreadsOK) /\ [Next]_vars => (Inv /\ ThreadsOK)'
    BY InvInductive, ThreadsStep
<1>3. ThreadsOK => RunningIsScheduled
    BY DEF ThreadsOK, RunningIsScheduled, RunPCs, OnSchedule
<1> QED BY <1>1, <1>2, <1>3, PTL DEF Spec

-----------------------------------------------------------------------------
(* Off the schedule: only a command or an enable puts a suspended,         *)
(* terminated or killed thread back.                                       *)

StaysOff ==
    \A s \in Slots : table[s].next > MaxSleep /\ table'[s].next <= MaxSleep
        => cpu.pc \in {"command", "enable"}

KeptOff == \A s \in Slots : table[s].next > MaxSleep => table'[s].next > MaxSleep

LEMMA KeptStaysOff == TypeInv /\ TypeInv' /\ KeptOff => StaysOff
<1> SUFFICES ASSUME TypeInv, TypeInv', KeptOff,
                    NEW s \in Slots, table[s].next > MaxSleep, table'[s].next <= MaxSleep
             PROVE  FALSE
    BY DEF StaysOff
<1>1. table[s].next \in Nexts /\ table'[s].next \in Nexts
    BY DEF TypeInv, TypeOK, EntryType
<1>2. table'[s].next > MaxSleep
    BY DEF KeptOff
<1> QED BY <1>1, <1>2, PtsAssumption DEF Nexts, TERMINATED

LEMMA KeptOffScheduler == TypeInv /\ ThreadsOK /\ SchedulerStep => KeptOff
<1> SUFFICES ASSUME TypeInv, ThreadsOK, SchedulerStep, NEW s \in Slots,
                    table[s].next > MaxSleep
             PROVE  table'[s].next > MaxSleep
    BY DEF KeptOff
<1> USE DEF TypeInv, TypeOK
<1>1. CASE UNCHANGED table
    BY <1>1
<1>2. ASSUME NEW n, table' = RetireEmpty(n) PROVE table'[s].next > MaxSleep
    BY <1>2, PtsAssumption DEF RetireEmpty, Runnable, RUNNABLE
<1>3. CASE ScanNone \/ \E r \in Slots : ScanFound(r)
    BY <1>2, <1>3 DEF ScanNone, ScanFound
<1>4. CASE TerminateSuspendDie
  <2>1. cpu.code > MaxSleep
    BY <1>4 DEF TerminateSuspendDie, ThreadsOK
  <2> QED BY <1>4, <2>1 DEF TerminateSuspendDie, EntryType
<1> QED BY <1>1, <1>3, <1>4
        DEF SchedulerStep, Schedule, OpenWindow, CloseWindow, ScanStopped, RescanReady,
            RescanWait, WaitDone, PibWindowClose, Dispatch

LEMMA KeptOffRun ==
    TypeInv /\ ThreadsOK /\ (SystemCall \/ MainstoreAtomicAdd \/ MainstoreDefault) => KeptOff
<1> SUFFICES ASSUME TypeInv, ThreadsOK, SystemCall \/ MainstoreAtomicAdd \/ MainstoreDefault
             PROVE  KeptOff
    OBVIOUS
<1> USE DEF TypeInv, TypeOK
<1>1. CASE Yield \/ Sleep \/ Suspend \/ ThreadHandlesPibErrors \/ PtsHandlesPibErrors
  <2>1. PICK next \in Nexts, pib \in BOOLEAN, suspend \in BOOLEAN :
           InThread /\ YieldSleepSuspend(next, pib, suspend)
    BY <1>1, YieldMoves
  <2>2. table[SlotOf[cpu.sprg0]].next = RUNNABLE
    BY <2>1 DEF InThread, ThreadsOK, RunPCs, OnSchedule
  <2>3. \A s \in Slots : s # SlotOf[cpu.sprg0] => table'[s] = table[s]
    BY <2>1 DEF YieldSleepSuspend
  <2> QED BY <2>2, <2>3, PtsAssumption DEF KeptOff, RUNNABLE
<1>2. CASE Terminate \/ StraySystemCall \/ MainstoreAtomicAdd \/ MainstoreDefault
  <2>1. UNCHANGED table
    BY <1>2 DEF Terminate, StraySystemCall, MainstoreAtomicAdd, MainstoreDefault
  <2> QED BY <2>1 DEF KeptOff
<1> QED BY <1>1, <1>2 DEF SystemCall

LEMMA StaysOffStep == TypeInv /\ ThreadsOK /\ [Next]_vars => StaysOff
<1> SUFFICES ASSUME TypeInv, ThreadsOK, [Next]_vars PROVE StaysOff
    OBVIOUS
<1>0. KeptOff => StaysOff
    BY KeptStaysOff, TypeStep
<1> USE DEF TypeInv, TypeOK
<1>1. CASE cpu.pc \in {"command", "enable"}
    BY <1>1 DEF StaysOff
<1>2. CASE UNCHANGED table
    BY <1>0, <1>2 DEF KeptOff
<1>3. CASE Tick
  <2>1. ASSUME NEW s \in Slots, table[s].next > MaxSleep PROVE table'[s].next > MaxSleep
    BY <1>3, <2>1, PtsAssumption DEF Tick, Later, EntryType
  <2> QED BY <1>0, <2>1 DEF KeptOff
<1>4. CASE CommandStep \/ EnableFromSlw
    BY <1>1, <1>4 DEF CommandStep, StartPts, StopPts, CommandThread, InvalidCommand,
       InjectError, InjectUndetected, InCommand, EnableFromSlw
<1>5. CASE SlwStep /\ ~EnableFromSlw
    BY <1>2, <1>5 DEF SlwStep, SlwDone, DisableFromSlw, EntryStart, EntryUnable,
       EntrySchedule, CheckChip, ThreadEnded, ThreadFailed, DisablePts, SetFir, RestoreSlw
<1>6. CASE ErrorStep
    BY <1>2, <1>6 DEF ErrorStep, KillThread, UnlockDbg, EnterError0Handler, RecordDeath, KillPts
<1>7. CASE \/ RaiseIdle \/ RaiseControl \/ TakeIdle \/ TakeControl
           \/ IssueCommand \/ CollectResponse \/ HwError \/ Lost \/ UNCHANGED vars
    BY <1>2, <1>7 DEF RaiseIdle, RaiseControl, TakeIdle, TakeControl, IssueCommand,
       CollectResponse, HwError, Lost, vars
<1> QED BY <1>0, <1>3, <1>4, <1>5, <1>6, <1>7, KeptOffScheduler, KeptOffRun DEF Next, EngineStep

(* Special next schedule times never age, and no system call rewrites the  *)
(* entry of another thread.                                                *)
THEOREM UnrunnableStaysOff == Spec => UnrunnableStays
<1>1. Init => Inv /\ ThreadsOK
    BY InvInductive, ThreadsInit
<1>2. (Inv /\ ThreadsOK) /\ [Next]_vars => (Inv /\ ThreadsOK)'
    BY InvInductive, ThreadsStep
<1>3. Inv /\ ThreadsOK /\ [Next]_vars => [StaysOff]_vars
    BY StaysOffStep DEF Inv
<1> QED BY <1>1, <1>2, <1>3, PTL DEF Spec, UnrunnableStays, StaysOff

-----------------------------------------------------------------------------
(* The wait loop.                                                          *)

(* A step that does not wait, or leaves the wait and the table alone.      *)
LEMMA NotWaiting ==
    ASSUME NoOversleep,
           \/ cpu'.pc # "wait"
           \/ cpu'.pc = cpu.pc /\ cpu'.wait = cpu.wait /\ UNCHANGED table
              /\ pts'.stopped = pts.stopped
    PROVE  NoOversleep'
BY DEF NoOversleep

LEMMA OversleepStep == TypeInv /\ NoOversleep /\ [Next]_vars => NoOversleep'
<1> SUFFICES ASSUME TypeInv, NoOversleep, [Next]_vars PROVE NoOversleep'
    OBVIOUS
<1> USE DEF TypeInv, TypeOK
<1>1. CASE ScanStopped
    BY <1>1 DEF ScanStopped, Wait, PtsType, NoOversleep
<1>2. CASE RescanWait
  <2>1. PICK d \in Nexts : IsMinNext(d) /\ Wait(BoundedDelay(d)) /\ UNCHANGED table
    BY <1>2 DEF RescanWait
  <2>2. BoundedDelay(d) <= d
    BY PtsAssumption DEF BoundedDelay, Nexts, TERMINATED
  <2>3. ASSUME NEW s \in Slots PROVE BoundedDelay(d) <= table'[s].next
    <3>1. d <= table[s].next /\ table[s].next \in Nexts
      BY <2>1 DEF IsMinNext, EntryType
    <3> QED BY <2>1, <2>2, <3>1, PtsAssumption DEF BoundedDelay, Nexts, TERMINATED
  <2>4. cpu'.wait = BoundedDelay(d)
    BY <2>1 DEF Wait, CpuType
  <2> QED BY <2>3, <2>4 DEF NoOversleep
<1>3. CASE Tick
  <2>1. /\ cpu'.pc = cpu.pc /\ UNCHANGED pts
        /\ cpu'.wait = IF cpu.wait > 0 THEN cpu.wait - 1 ELSE 0
        /\ cpu.pc = "wait" => cpu.wait > 0
    BY <1>3 DEF Tick, CpuType
  <2>2. ASSUME NEW s \in Slots, cpu.pc = "wait", cpu.wait <= table[s].next
        PROVE  cpu'.wait <= table'[s].next
    <3>1. table'[s].next = Later(table[s].next)
      BY <1>3 DEF Tick, EntryType
    <3>2. table[s].next \in Nexts /\ cpu.wait \in 0 .. MaxWait
      BY DEF EntryType, CpuType
    <3> QED BY <2>1, <2>2, <3>1, <3>2, PtsAssumption DEF Later, Nexts, TERMINATED
  <2> QED BY <2>1, <2>2 DEF NoOversleep
<1>4. CASE SchedulerStep /\ ~ScanStopped /\ ~RescanWait
  <2>1. CASE (\E s \in Slots : ScanFound(s)) \/ TerminateSuspendDie
    BY <2>1, ScanMoves, DieMoves, NotWaiting
  <2>2. CASE ~((\E s \in Slots : ScanFound(s)) \/ TerminateSuspendDie)
    <3>1. cpu'.pc # "wait"
      BY <1>4, <2>2 DEF SchedulerStep, Schedule, AfterEnter, OpenWindow, WindowCpu,
         CloseWindow, ClosedCpu, ScanNone, RescanReady, WaitDone, PibWindowClose, Dispatch, CpuType
    <3> QED BY <3>1, NotWaiting
  <2> QED BY <2>1, <2>2
<1>5. CASE ErrorStep
  <2>1. cpu'.pc # "wait"
    BY <1>5 DEF ErrorStep, KillThread, UnlockDbg, EnterError0Handler, RecordDeath, KillPts,
       Goto, CpuType
  <2> QED BY <2>1, NotWaiting
<1>6. CASE CommandStep
  <2>1. CASE InjectError
    BY <2>1, InjectMoves, NotWaiting
  <2>2. CASE ~InjectError
    <3>1. cpu'.pc # "wait"
      BY <1>6, <2>2 DEF CommandStep, StartPts, StopPts, CommandThread, InvalidCommand,
         InjectUndetected, Finish, CpuType
    <3> QED BY <3>1, NotWaiting
  <2> QED BY <2>1, <2>2
<1>7. CASE SlwStep
  <2>1. cpu'.pc # "wait"
    BY <1>7 DEF SlwStep, SlwDone, AfterSlw, EnableFromSlw, DisableFromSlw, EntryStart,
       EntryUnable, EntrySchedule, CheckChip, ThreadEnded, ThreadFailed, DisablePts, SetFir,
       RestoreSlw, CpuType
  <2> QED BY <2>1, NotWaiting
<1>8. CASE SystemCall \/ MainstoreAtomicAdd \/ MainstoreDefault
    BY <1>8, RunMoves, NotWaiting
<1>9. CASE TakeIdle \/ TakeControl \/ HwError
  <2>1. cpu'.pc # "wait"
    BY <1>9, IdleMoves, ControlMoves, ErrorMoves
  <2> QED BY <2>1, NotWaiting
<1>10. CASE RaiseIdle \/ RaiseControl \/ IssueCommand \/ CollectResponse \/ Lost \/ UNCHANGED vars
  <2>1. UNCHANGED <<cpu, table>> /\ pts'.stopped = pts.stopped
    BY <1>10 DEF RaiseIdle, RaiseControl, IssueCommand, CollectResponse, Lost, vars, PtsType
  <2> QED BY <2>1, NotWaiting
<1> QED BY <1>1, <1>2, <1>3, <1>4, <1>5, <1>6, <1>7, <1>8, <1>9, <1>10 DEF Next, EngineStep

(* The wait is bounded by maxWait and by every wakeup, and the clock that  *)
(* brings the wakeups closer shortens it too.                              *)
THEOREM NeverOversleeps == Spec => []NoOversleep
<1>1. Init => TypeInv /\ NoOversleep
  <2>1. Init => cpu.pc = "halt"
    BY DEF Init
  <2> QED BY <2>1, TypeInit DEF NoOversleep
<1>2. (TypeInv /\ NoOversleep) /\ [Next]_vars => (TypeInv /\ NoOversleep)'
    BY TypeStep, OversleepStep
<1> QED BY <1>1, <1>2, PTL DEF Spec

-----------------------------------------------------------------------------
(* Commands and responses.                                                 *)

(* A step that leaves both fields, or only clears the command.             *)
LEMMA NotAnswered ==
    ASSUME AnsweredOnce,
           \/ pts'.command = NoCommand
           \/ pts'.command = pts.command /\ pts'.response = pts.response
    PROVE  AnsweredOnce'
BY DEF AnsweredOnce

LEMMA AnswerStep == TypeInv /\ AnsweredOnce /\ [Next]_vars => AnsweredOnce'
<1> SUFFICES ASSUME TypeInv, AnsweredOnce, [Next]_vars PROVE AnsweredOnce'
    OBVIOUS
<1> USE DEF TypeInv, TypeOK
<1> DEFINE Kept == pts'.command = pts.command /\ pts'.response = pts.response
<1>1. CASE SchedulerStep
  <2>1. CASE TerminateSuspendDie
    BY <2>1, NotAnswered DEF TerminateSuspendDie, AtomicViolation, PtsType
  <2>2. CASE \E s \in Slots : ScanFound(s)
    BY <2>2, NotAnswered DEF ScanFound, ResumeThread, PtsType
  <2>3. CASE ~TerminateSuspendDie /\ ~\E s \in Slots : ScanFound(s)
    <3>1. Kept
      BY <1>1, <2>3 DEF SchedulerStep, Schedule, EnterScheduler, OpenWindow, CloseWindow,
         ScanStopped, ScanNone, RescanReady, RescanWait, Wait, WaitDone, PibWindowClose,
         Dispatch, PtsType
    <3> QED BY <3>1, NotAnswered
  <2> QED BY <2>1, <2>2, <2>3
<1>2. CASE ErrorStep
  <2>1. Kept
    BY <1>2 DEF ErrorStep, KillThread, UnlockDbg, EnterError0Handler, RecordDeath, KillPts, PtsType
  <2> QED BY <2>1, NotAnswered
<1>3. CASE CommandStep
  <2>1. CASE InjectError
    <3>1. PICK left \in {pts.command, NoCommand} : pts' = [pts EXCEPT !.command = left]
      BY <2>1 DEF InjectError
    <3> QED BY <3>1, NotAnswered DEF PtsType
  <2>2. CASE InjectUndetected
    BY <2>2, NotAnswered DEF InjectUndetected, PtsType
  <2>3. CASE StartPts \/ StopPts \/ CommandThread \/ InvalidCommand
    <3>1. pts'.command = NoCommand
      BY <2>3 DEF StartPts, StopPts, CommandThread, InvalidCommand, Finish, Answered, PtsType
    <3> QED BY <3>1, NotAnswered
  <2> QED BY <1>3, <2>1, <2>2, <2>3 DEF CommandStep
<1>4. CASE SlwStep
  <2>1. Kept \/ pts'.command = NoCommand
    BY <1>4 DEF SlwStep, SlwDone, EnableFromSlw, DisableFromSlw, EntryStart, EntryUnable,
       EntrySchedule, CheckChip, ChipState, ThreadEnded, ThreadFailed, DisablePts, SetFir,
       RestoreSlw, PtsType
  <2> QED BY <2>1, NotAnswered
<1>5. CASE SystemCall
  <2>1. CASE Yield \/ Sleep \/ Suspend \/ ThreadHandlesPibErrors \/ PtsHandlesPibErrors
    <3>1. PICK next, pib, suspend : YieldSleepSuspend(next, pib, suspend)
      BY <2>1, YieldMoves
    <3>2. Kept
      BY <3>1 DEF YieldSleepSuspend, AtomicViolation, PtsType
    <3> QED BY <3>2, NotAnswered
  <2>2. CASE Terminate \/ StraySystemCall
    BY <2>2, NotAnswered DEF Terminate, StraySystemCall
  <2> QED BY <1>5, <2>1, <2>2 DEF SystemCall
<1>6. CASE MainstoreAtomicAdd \/ MainstoreDefault
    BY <1>6, NotAnswered DEF MainstoreAtomicAdd, MainstoreDefault, PtsType
<1>7. CASE HwError
    BY <1>7, NotAnswered DEF HwError, Error, StopEngine, PublicError, PtsType
<1>8. CASE TakeIdle \/ TakeControl
  <2>1. pts' = pts \/ pts' = [pts EXCEPT !.schedulerState = "INTERRUPTIBLE"]
    BY <1>8, IdleMoves, ControlMoves
  <2> QED BY <2>1, NotAnswered DEF PtsType
<1>9. CASE IssueCommand \/ CollectResponse
    BY <1>9 DEF IssueCommand, CollectResponse, AnsweredOnce, PtsType
<1>10. CASE RaiseIdle \/ RaiseControl \/ Tick \/ Lost \/ UNCHANGED vars
    BY <1>10, NotAnswered DEF RaiseIdle, RaiseControl, Tick, Lost, vars
<1> QED BY <1>1, <1>2, <1>3, <1>4, <1>5, <1>6, <1>7, <1>8, <1>9, <1>10 DEF Next, EngineStep

(* No response is written while a command waits, so PHYP never collects    *)
(* the answer to an earlier command.                                       *)
THEOREM AnsweredOnlyOnce == Spec => []AnsweredOnce
<1>1. Init => TypeInv /\ AnsweredOnce
  <2>1. Init => pts.command = NoCommand
    BY DEF Init
  <2> QED BY <2>1, TypeInit DEF AnsweredOnce
<1>2. (TypeInv /\ AnsweredOnce) /\ [Next]_vars => (TypeInv /\ AnsweredOnce)'
    BY TypeStep, AnswerStep
<1> QED BY <1>1, <1>2, PTL DEF Spec

-----------------------------------------------------------------------------
(***************************************************************************)
(* Theorems about errors while PTS runs, for every table, every set of     *)
(* threads and errors, as long as no second error strikes while DBG still  *)
(* holds the first: each thread runs under its own error mask, no context  *)
(* that an error has destroyed is resumed, and a fatal error is reported.  *)
(***************************************************************************)

(* On error 4, an error with DBG locked, the engine stops wherever it is:  *)
(* the enable that follows a stop is PHYP's, but an idle request may come  *)
(* first.  PHYP's doubleFault command forces the same.                     *)
NoDoubleFaults == ~DoubleFaults /\ "doubleFault" \notin CommandOps

-----------------------------------------------------------------------------
(* Errors of running PTS code are trapped.                                 *)

TrappedPCs == ThreadPCs \cup {"killPts", "errorHandler", "fir"}

RightMask(t) == IF thr[t].handlesPib THEN "PIB" ELSE "PTS"

(* From the dispatch of a thread to the end of the error handling an error *)
(* goes to PTS' error routines; the loop scans and waits under PTS' mask;  *)
(* a thread has the mask it asked for, and one whose PIB error goes to its *)
(* own handler has not asked for any.                                      *)
TrapOK ==
    /\ cpu.pc \in TrappedPCs => /\ cpu.emr # "SLW" /\ cpu.tbar = "pts"
                                /\ pts.schedulerState # "INTERRUPTIBLE"
    /\ cpu.pc = "command" => pts.schedulerState # "INTERRUPTIBLE"
    /\ cpu.pc = "killPts" => cpu.dbgLocked
    /\ cpu.pc = "wild" /\ cpu.ints => slw.wakeup /\ slw.request = "none"
    /\ cpu.pc \in {"scan", "rescan", "wait", "pibWindow"} => cpu.emr = "PTS"
    /\ cpu.pc \in {"pibWindow", "dispatch"} => cpu.sprg0 = pts.currentThread
    /\ cpu.pc = "pibWindow" => thr[pts.currentThread].handlesPib
    /\ cpu.pc \in {"dispatch", "thread"} => cpu.emr = RightMask(pts.currentThread)
    /\ cpu.pc \in BlamePCs /\ cpu.code = PTS_THREAD_ERROR(0)
           => cpu.emr = "PTS" /\ ~thr[cpu.thread].handlesPib
    /\ cpu.pc \in {"entry", "start"} /\ pts.schedulerState = "UNINITIALIZED"
       /\ pts.currentThread # NoThread => ~thr[pts.currentThread].handlesPib
    /\ cpu.pc \in BlamePCs \cup {"die"} /\ pts.currentThread # NoThread
           => cpu.thread = pts.currentThread
    /\ cpu.pc = "die" /\ pts.atomic => cpu.sprg0 = cpu.thread
    /\ cpu.pc = "die" /\ cpu.code = SUSPENDED => thr[cpu.thread].pc = "program"

(* The thread whose context is in the registers, or is being destroyed.    *)
Exempt(t) == \/ cpu.pc = "thread" /\ t = pts.currentThread
             \/ cpu.pc \in BlamePCs \cup {"die"} /\ t = cpu.thread

SoundContext(th) == /\ th.handlesPib => th.hasContext
                    /\ th.hasContext => th.pc = "program"

(* Every other mapped thread can be resumed as its flags say, unless PTS   *)
(* is going down: the next enable then restarts them all.                  *)
ContextOK ==
    slw.terminator /\ cpu.pc \notin {"killPts", "errorHandler", "wild"} =>
      \A t \in Threads : Mapped(t) /\ ~Exempt(t) => SoundContext(thr[t])

ErrorInv == Inv /\ ThreadsOK /\ TrapOK /\ ContextOK

TrapWatchedPCs == TrappedPCs \cup {"scan", "rescan", "wait", "pibWindow", "dispatch",
                                   "entry", "start", "wild", "command"}

(* A step to a place TrapOK says nothing about.                            *)
LEMMA TrapLeave == cpu'.pc \notin TrapWatchedPCs => TrapOK'
BY DEF TrapOK, TrapWatchedPCs, TrappedPCs, ThreadPCs, BlamePCs

LEMMA TrapInit == Init => TrapOK /\ ContextOK
<1> SUFFICES ASSUME Init PROVE TrapOK /\ ContextOK
    OBVIOUS
<1>1. cpu.pc = "halt" /\ ~slw.terminator
    BY DEF Init
<1> QED BY <1>1 DEF TrapOK, ContextOK, TrappedPCs, ThreadPCs, BlamePCs

LEMMA TrapScheduler == ErrorInv /\ SchedulerStep => TrapOK'
<1> SUFFICES ASSUME ErrorInv, SchedulerStep PROVE TrapOK'
    OBVIOUS
<1> USE DEF ErrorInv, Inv, TypeInv, TypeOK
<1>1. CASE Schedule
  <2>1. cpu'.pc \in {"open", "command"} /\ pts'.schedulerState = "SCHEDULING"
    BY <1>1 DEF Schedule, AfterEnter, EnterScheduler, CpuType, PtsType
  <2> QED BY <2>1 DEF TrapOK, TrappedPCs, ThreadPCs, BlamePCs
<1>2. CASE OpenWindow \/ RescanReady \/ WaitDone
  <2>1. cpu'.pc \notin TrapWatchedPCs
    BY <1>2 DEF OpenWindow, WindowCpu, RescanReady, WaitDone, CpuType,
       TrapWatchedPCs, TrappedPCs, ThreadPCs
  <2> QED BY <2>1, TrapLeave
<1>3. CASE CloseWindow \/ ScanStopped \/ RescanWait \/ ScanNone
  <2>1. cpu'.pc \in {"scan", "wait", "rescan"} /\ cpu'.emr = "PTS"
    BY <1>3 DEF CloseWindow, ClosedCpu, ScanStopped, RescanWait, ScanNone, Wait, CpuType, TrapOK
  <2> QED BY <2>1 DEF TrapOK, TrappedPCs, ThreadPCs, BlamePCs
<1>4. ASSUME NEW s \in Slots, ScanFound(s) PROVE TrapOK'
  <2>1. PICK t \in Threads : ResumeThread(t) /\ UNCHANGED thr
    BY <1>4 DEF ScanFound, IsFirstReady, Ready, EntryType
  <2>2. cpu.emr = "PTS"
    BY <1>4 DEF ScanFound, TrapOK
  <2>3. CASE thr[t].handlesPib
    <3>1. /\ cpu'.pc = "pibWindow" /\ cpu'.sprg0 = t /\ cpu'.emr = "PTS"
          /\ pts'.currentThread = t
      BY <2>1, <2>2, <2>3 DEF ResumeThread, CpuType, PtsType
    <3> QED BY <2>1, <2>3, <3>1 DEF TrapOK, TrappedPCs, ThreadPCs, BlamePCs
  <2>4. CASE ~thr[t].handlesPib
    <3>1. /\ cpu'.pc = "dispatch" /\ cpu'.sprg0 = t /\ cpu'.emr = "PTS"
          /\ pts'.currentThread = t
      BY <2>1, <2>2, <2>4 DEF ResumeThread, CpuType, PtsType
    <3> QED BY <2>1, <2>4, <3>1 DEF TrapOK, TrappedPCs, ThreadPCs, BlamePCs, RightMask
  <2> QED BY <2>3, <2>4
<1>5. CASE PibWindowClose
  <2>1. /\ cpu'.pc = "dispatch" /\ cpu'.sprg0 = cpu.sprg0 /\ cpu'.emr = "PIB"
        /\ UNCHANGED <<pts, thr>> /\ cpu.pc = "pibWindow"
    BY <1>5 DEF PibWindowClose, CpuType
  <2> QED BY <2>1 DEF TrapOK, TrappedPCs, ThreadPCs, BlamePCs, RightMask
<1>6. CASE Dispatch
  <2> DEFINE t == cpu.sprg0
  <2>1. /\ cpu.pc = "dispatch" /\ t = pts.currentThread /\ t \in Threads
        /\ cpu.emr = RightMask(t)
    BY <1>6 DEF Dispatch, TrapOK, OperandsOK
  <2>2. /\ cpu'.pc = "thread" /\ cpu'.emr = cpu.emr /\ cpu'.tbar = cpu.tbar
        /\ pts'.schedulerState = "THREAD" /\ pts'.currentThread = pts.currentThread
    BY <1>6 DEF Dispatch, CpuType, PtsType
  <2>3. slw.terminator /\ cpu.tbar = "pts"
    BY <2>1 DEF EnabledOK, LoopPCs
  <2>4. thr[t].handlesPib => thr[t].hasContext
    BY <2>1, <2>3
       DEF ContextOK, SoundContext, Exempt, BlamePCs, ThreadsOK, RunPCs, OnSchedule, Mapped
  <2>5. thr'[t].handlesPib = thr[t].handlesPib
    BY <1>6, <2>1, <2>4, Zenon DEF Dispatch, Restarted, ThreadType
  <2> QED BY <2>1, <2>2, <2>3, <2>5 DEF TrapOK, TrappedPCs, ThreadPCs, BlamePCs, RightMask
<1>7. CASE TerminateSuspendDie
  <2>1. /\ cpu'.pc \in {"kill", "terminated", "wild"}
        /\ cpu'.emr = cpu.emr /\ cpu'.tbar = cpu.tbar /\ cpu'.ints = cpu.ints
        /\ cpu'.pc = "kill" => /\ cpu'.code = PTS_THREAD_ATOMIC_VIOLATION
                               /\ pts.atomic /\ cpu'.thread = cpu.sprg0
                               /\ pts'.currentThread = pts.currentThread
        /\ pts'.schedulerState = pts.schedulerState /\ UNCHANGED slw /\ cpu.pc = "die"
    <3>1. CASE pts.atomic
      BY <1>7, <3>1 DEF TerminateSuspendDie, AtomicViolation, CpuType, PtsType
    <3>2. CASE ~pts.atomic /\ cpu.sprg0 \in Threads
      BY <1>7, <3>2 DEF TerminateSuspendDie, Goto, CpuType, PtsType
    <3>3. CASE ~pts.atomic /\ cpu.sprg0 \notin Threads
      BY <1>7, <3>3 DEF TerminateSuspendDie, Goto, CpuType, PtsType
    <3> QED BY <3>1, <3>2, <3>3
  <2>2. PTS_THREAD_ATOMIC_VIOLATION # PTS_THREAD_ERROR(0)
    BY DEF PTS_THREAD_ATOMIC_VIOLATION, PTS_THREAD_ERROR
  <2>3. cpu.ints => slw.wakeup /\ slw.request = "none"
    BY <2>1 DEF WindowsOK, RunningPCs, ThreadPCs, TrapOK, TrappedPCs
  <2> QED BY <2>1, <2>2, <2>3 DEF TrapOK, TrappedPCs, ThreadPCs, BlamePCs
<1> QED BY <1>1, <1>2, <1>3, <1>4, <1>5, <1>6, <1>7 DEF SchedulerStep

LEMMA TrapError == NoDoubleFaults /\ ErrorInv /\ ErrorStep => TrapOK'
<1> SUFFICES ASSUME NoDoubleFaults, ErrorInv, ErrorStep PROVE TrapOK'
    OBVIOUS
<1> USE DEF ErrorInv, Inv, TypeInv, TypeOK
<1>1. CASE KillThread
  <2>1. /\ cpu.pc = "kill" /\ cpu'.pc = "unlock" /\ cpu'.emr = cpu.emr /\ cpu'.tbar = cpu.tbar
        /\ cpu'.code = cpu.code /\ cpu'.thread = cpu.thread
        /\ pts'.schedulerState = "THREAD_ERROR" /\ pts'.currentThread = NoThread
    BY <1>1 DEF KillThread, CpuType, PtsType
  <2>2. \A t \in Threads : thr'[t].handlesPib = thr[t].handlesPib
    BY <1>1, Zenon DEF KillThread, ThreadType
  <2> QED BY <2>1, <2>2 DEF TrapOK, TrappedPCs, ThreadPCs, BlamePCs, ThreadsOK
<1>2. CASE UnlockDbg
  <2>1. /\ cpu.pc = "unlock" /\ cpu'.pc = "blame" /\ cpu'.emr = cpu.emr /\ cpu'.tbar = cpu.tbar
        /\ cpu'.code = cpu.code /\ cpu'.thread = cpu.thread /\ UNCHANGED <<pts, thr>>
    BY <1>2 DEF UnlockDbg, CpuType
  <2> QED BY <2>1 DEF TrapOK, TrappedPCs, ThreadPCs, BlamePCs
<1>3. CASE EnterError0Handler
  <2>1. /\ cpu.pc = "blame" /\ cpu.code = PTS_THREAD_ERROR(0)
        /\ cpu'.pc = "thread" /\ cpu'.emr = cpu.emr /\ cpu'.tbar = cpu.tbar
        /\ pts'.currentThread = cpu.thread
        /\ pts'.schedulerState = pts.schedulerState /\ UNCHANGED thr
    BY <1>3 DEF EnterError0Handler, HandlesError0, Goto, CpuType, PtsType
  <2> QED BY <2>1 DEF TrapOK, TrappedPCs, ThreadPCs, BlamePCs, RightMask
<1>4. CASE RecordDeath
  <2>1. /\ cpu.pc = "blame" /\ cpu'.pc = "die" /\ cpu'.emr = cpu.emr /\ cpu'.tbar = cpu.tbar
        /\ cpu'.code = KILLED /\ cpu'.thread = cpu.thread /\ UNCHANGED pts
    BY <1>4 DEF RecordDeath, CpuType
  <2>2. ~pts.atomic /\ KILLED # SUSPENDED
    BY <2>1, PtsAssumption DEF OperandsOK, KILLED, SUSPENDED
  <2> QED BY <2>1, <2>2 DEF TrapOK, TrappedPCs, ThreadPCs, BlamePCs
<1>5. CASE KillPts
  <2>1. pts.command.op # "doubleFault"
    BY PtsAssumption DEF NoDoubleFaults, PtsType, Commands, NoCommand, PlainOps, ThreadOps
  <2>2. /\ cpu.pc = "killPts" /\ cpu'.pc = "errorHandler" /\ cpu'.emr = cpu.emr
        /\ cpu'.tbar = cpu.tbar /\ pts'.schedulerState = "PTS_ERROR"
    BY <1>5, <2>1 DEF KillPts, Goto, CpuType, PtsType
  <2> QED BY <2>2 DEF TrapOK, TrappedPCs, ThreadPCs, BlamePCs
<1> QED BY <1>1, <1>2, <1>3, <1>4, <1>5 DEF ErrorStep

LEMMA TrapCommand == ErrorInv /\ CommandStep => TrapOK'
<1> SUFFICES ASSUME ErrorInv, CommandStep PROVE TrapOK'
    OBVIOUS
<1> USE DEF ErrorInv, Inv, TypeInv, TypeOK
<1>1. CASE StartPts \/ StopPts \/ CommandThread \/ InvalidCommand \/ InjectUndetected
  <2>1. cpu'.pc \in {"open", "spin"}
    BY <1>1 DEF StartPts, StopPts, CommandThread, InvalidCommand, InjectUndetected, Finish, CpuType
  <2> QED BY <2>1, TrapLeave DEF TrapWatchedPCs, TrappedPCs, ThreadPCs
<1>2. CASE InjectError
  <2>1. CASE cpu'.pc = "stopped"
    BY <2>1, TrapLeave DEF TrapWatchedPCs, TrappedPCs, ThreadPCs
  <2>2. CASE cpu'.pc # "stopped"
    <3>1. /\ cpu.pc = "command" /\ cpu'.pc = "killPts" /\ cpu.emr # "SLW"
          /\ cpu'.emr = cpu.emr /\ cpu'.dbgLocked
      BY <1>2, <2>2 DEF InjectError, InCommand, Goto, CpuType
    <3>2. cpu.tbar = "pts" /\ cpu'.tbar = cpu.tbar
      BY <1>2, <3>1, InjectMoves DEF EnabledOK, LoopPCs
    <3>3. pts'.schedulerState # "INTERRUPTIBLE"
      BY <1>2, <3>1, InjectMoves DEF TrapOK
    <3> QED BY <3>1, <3>2, <3>3 DEF TrapOK, TrappedPCs, ThreadPCs, BlamePCs
  <2> QED BY <2>1, <2>2
<1> QED BY <1>1, <1>2 DEF CommandStep

LEMMA TrapSlw == ErrorInv /\ SlwStep => TrapOK'
<1> SUFFICES ASSUME ErrorInv, SlwStep PROVE TrapOK'
    OBVIOUS
<1> USE DEF ErrorInv, Inv, TypeInv, TypeOK
<1>1. CASE SlwDone
  <2>1. CASE slw.terminator
    <3>1. cpu'.pc = "entry" /\ UNCHANGED pts
      BY <1>1, <2>1 DEF SlwDone, AfterSlw, CpuType
    <3>2. pts.schedulerState # "UNINITIALIZED"
      BY <1>1, <2>1 DEF SlwDone, WindowsOK
    <3> QED BY <3>1, <3>2 DEF TrapOK, TrappedPCs, ThreadPCs, BlamePCs
  <2>2. CASE ~slw.terminator
    <3>1. cpu'.pc = "halt"
      BY <1>1, <2>2 DEF SlwDone, AfterSlw, CpuType
    <3> QED BY <3>1, TrapLeave DEF TrapWatchedPCs, TrappedPCs, ThreadPCs
  <2> QED BY <2>1, <2>2
<1>2. CASE EnableFromSlw
  <2>1. cpu'.pc = "entry" /\ pts'.currentThread = pts.currentThread
    BY <1>2 DEF EnableFromSlw, CpuType, PtsType
  <2>2. ASSUME pts.currentThread # NoThread
        PROVE  thr'[pts.currentThread].handlesPib = FALSE
    <3>1. pts.currentThread \in Threads /\ \E s \in Slots : table[s].thread = pts.currentThread
      BY <2>2, PtsAssumption DEF ThreadsOK, Mapped, PtsType
    <3>2. thr'[pts.currentThread] = Restarted(thr[pts.currentThread])
      BY <1>2, <3>1 DEF EnableFromSlw
    <3>3. thr[pts.currentThread] \in ThreadType
      BY <3>1
    <3> QED BY <3>2, <3>3, Zenon DEF Restarted, ThreadType
  <2> QED BY <2>1, <2>2 DEF TrapOK, TrappedPCs, ThreadPCs, BlamePCs
<1>3. CASE EntryStart
  <2>1. /\ cpu'.pc = "start" /\ cpu.pc = "entry" /\ UNCHANGED <<pts, thr>>
        /\ pts.schedulerState = "UNINITIALIZED"
    BY <1>3 DEF EntryStart, CpuType
  <2> QED BY <2>1 DEF TrapOK, TrappedPCs, ThreadPCs, BlamePCs
<1>4. CASE CheckChip
  <2>1. cpu'.pc = "entry" /\ pts'.schedulerState # "UNINITIALIZED"
    BY <1>4 DEF CheckChip, ChipState, CpuType, PtsType
  <2> QED BY <2>1 DEF TrapOK, TrappedPCs, ThreadPCs, BlamePCs
<1>5. CASE DisableFromSlw \/ EntryUnable \/ EntrySchedule \/ ThreadEnded \/ SetFir \/ RestoreSlw
  <2>1. cpu'.pc \in {"halt", "schedule", "restore"}
    BY <1>5 DEF DisableFromSlw, EntryUnable, EntrySchedule, ThreadEnded, SetFir, RestoreSlw, CpuType
  <2> QED BY <2>1, TrapLeave DEF TrapWatchedPCs, TrappedPCs, ThreadPCs
<1>6. CASE ThreadFailed \/ DisablePts
  <2>1. /\ cpu.pc \in {"terminated", "errorHandler"} /\ cpu'.pc \in {"errorHandler", "fir"}
        /\ cpu'.emr = cpu.emr /\ cpu'.tbar = cpu.tbar
        /\ pts'.schedulerState = pts.schedulerState
    BY <1>6 DEF ThreadFailed, DisablePts, CpuType, PtsType
  <2> QED BY <2>1 DEF TrapOK, TrappedPCs, ThreadPCs, BlamePCs
<1> QED BY <1>1, <1>2, <1>3, <1>4, <1>5, <1>6 DEF SlwStep

LEMMA TrapRun ==
    ErrorInv /\ (SystemCall \/ MainstoreAtomicAdd \/ MainstoreDefault) => TrapOK'
<1> SUFFICES ASSUME ErrorInv, SystemCall \/ MainstoreAtomicAdd \/ MainstoreDefault
             PROVE  TrapOK'
    OBVIOUS
<1> USE DEF ErrorInv, Inv, TypeInv, TypeOK
<1>1. /\ cpu.pc = "thread" /\ UNCHANGED slw
      /\ cpu'.pc \in {"thread", "schedule", "die", "kill", "wild"}
      /\ cpu'.tbar = cpu.tbar /\ cpu'.ints = cpu.ints
      /\ pts'.schedulerState = pts.schedulerState
    BY RunMoves
<1>2. /\ cpu.emr # "SLW" /\ cpu.tbar = "pts" /\ pts.schedulerState # "INTERRUPTIBLE"
      /\ cpu.ints => slw.wakeup /\ slw.request = "none"
    BY <1>1 DEF TrapOK, TrappedPCs, ThreadPCs, WindowsOK, RunningPCs
<1>3. CASE Yield \/ Sleep \/ Suspend \/ ThreadHandlesPibErrors \/ PtsHandlesPibErrors
  <2>1. PICK next, pib, suspend : InThread /\ YieldSleepSuspend(next, pib, suspend)
    BY <1>3, YieldMoves
  <2>2. cpu.sprg0 \in Threads /\ cpu.sprg0 = pts.currentThread
    BY <2>1 DEF InThread, OperandsOK
  <2>3. CASE pts.atomic
    <3>1. /\ cpu'.pc = "kill" /\ cpu'.emr = cpu.emr /\ cpu'.code = PTS_THREAD_ATOMIC_VIOLATION
          /\ cpu'.thread = cpu.sprg0 /\ pts'.currentThread = pts.currentThread
      BY <2>1, <2>3 DEF YieldSleepSuspend, AtomicViolation, CpuType, PtsType
    <3>2. PTS_THREAD_ATOMIC_VIOLATION # PTS_THREAD_ERROR(0)
      BY DEF PTS_THREAD_ATOMIC_VIOLATION, PTS_THREAD_ERROR
    <3> QED BY <1>1, <1>2, <2>2, <3>1, <3>2 DEF TrapOK, TrappedPCs, ThreadPCs, BlamePCs
  <2>4. CASE ~pts.atomic
    <3>1. /\ cpu'.pc \in {"schedule", "die"} /\ cpu'.emr = cpu.emr /\ UNCHANGED pts
          /\ cpu'.pc = "die" => cpu'.thread = cpu.sprg0
      BY <2>1, <2>4 DEF YieldSleepSuspend, CpuType
    <3>2. thr'[cpu.sprg0].pc = "program"
      BY <2>1, <2>2 DEF YieldSleepSuspend, ThreadType
    <3> QED BY <1>1, <1>2, <2>2, <2>4, <3>1, <3>2 DEF TrapOK, TrappedPCs, ThreadPCs, BlamePCs
  <2> QED BY <2>3, <2>4
<1>4. CASE Terminate
  <2>1. /\ cpu'.pc = "die" /\ cpu'.emr = cpu.emr /\ cpu'.thread = cpu.sprg0
        /\ cpu'.sprg0 = cpu.sprg0 /\ cpu'.code = TERMINATED
        /\ cpu.sprg0 = pts.currentThread /\ UNCHANGED pts
    BY <1>4 DEF Terminate, InThread, CpuType
  <2>2. TERMINATED # SUSPENDED
    BY PtsAssumption DEF TERMINATED, SUSPENDED
  <2> QED BY <1>1, <1>2, <2>1, <2>2 DEF TrapOK, TrappedPCs, ThreadPCs, BlamePCs
<1>5. CASE StraySystemCall
  <2>1. cpu'.pc = "wild"
    BY <1>5 DEF StraySystemCall, CpuType
  <2> QED BY <1>1, <1>2, <2>1 DEF TrapOK, TrappedPCs, ThreadPCs, BlamePCs
<1>6. CASE MainstoreAtomicAdd \/ MainstoreDefault
  <2>1. UNCHANGED <<cpu, thr>> /\ pts'.currentThread = pts.currentThread
    BY <1>6 DEF MainstoreAtomicAdd, MainstoreDefault, PtsType
  <2> QED BY <1>1, <1>2, <2>1 DEF TrapOK, TrappedPCs, ThreadPCs, BlamePCs, RightMask
<1> QED BY <1>3, <1>4, <1>5, <1>6 DEF SystemCall

(* An error where errors are trapped goes to errorN: to the current        *)
(* thread, or to PTS.                                                      *)
LEMMA TrappedError ==
    ASSUME NoDoubleFaults, ErrorInv, HwError
    PROVE  \E n \in Errors :
             /\ n = 0 => cpu.pc \in PibPCs /\ cpu.emr # "PIB"
             /\ ~cpu.dbgLocked /\ Executing /\ UNCHANGED <<table, thr, slw, phyp>>
             /\ \/ cpu.pc \notin TrappedPCs /\ cpu'.pc = "stopped" /\ UNCHANGED pts
                \/ /\ PublicError(n) /\ cpu.tbar = "pts" /\ cpu.emr # "SLW"
                   /\ pts.schedulerState # "INTERRUPTIBLE"
<1> USE DEF ErrorInv, Inv, TypeInv, TypeOK
<1>1. PICK n \in Errors : /\ n = 0 => cpu.pc \in PibPCs /\ cpu.emr # "PIB"
                          /\ ~cpu.dbgLocked /\ Executing /\ Error(n)
                          /\ UNCHANGED <<table, thr, slw, phyp>>
    BY DEF HwError, NoDoubleFaults
<1>2. CASE cpu.emr = "SLW" \/ cpu.tbar = "slw" \/ pts.schedulerState = "INTERRUPTIBLE"
  <2>1. StopEngine /\ cpu.pc \notin TrappedPCs
    BY <1>1, <1>2 DEF Error, TrapOK
  <2> QED BY <1>1, <2>1 DEF StopEngine, Goto, CpuType
<1>3. CASE ~(cpu.emr = "SLW" \/ cpu.tbar = "slw" \/ pts.schedulerState = "INTERRUPTIBLE")
  <2>1. PublicError(n)
    BY <1>1, <1>3 DEF Error
  <2> QED BY <1>1, <1>3, <2>1 DEF CpuType
<1> QED BY <1>2, <1>3

LEMMA TrapHwError == NoDoubleFaults /\ ErrorInv /\ HwError => TrapOK'
<1> SUFFICES ASSUME NoDoubleFaults, ErrorInv, HwError PROVE TrapOK'
    OBVIOUS
<1> USE DEF ErrorInv, Inv, TypeInv, TypeOK
<1>1. PICK n \in Errors :
        /\ n = 0 => cpu.pc \in PibPCs /\ cpu.emr # "PIB"
        /\ UNCHANGED thr
        /\ \/ cpu'.pc = "stopped"
           \/ /\ PublicError(n) /\ cpu.tbar = "pts" /\ cpu.emr # "SLW"
              /\ pts.schedulerState # "INTERRUPTIBLE"
    BY TrappedError
<1>2. CASE cpu'.pc = "stopped"
    BY <1>2, TrapLeave DEF TrapWatchedPCs, TrappedPCs, ThreadPCs
<1>3. CASE /\ PublicError(n) /\ cpu.tbar = "pts" /\ cpu.emr # "SLW"
           /\ pts.schedulerState # "INTERRUPTIBLE"
  <2>1. /\ cpu'.pc = Blame(n).pc /\ cpu'.thread = Blame(n).thread /\ cpu'.code = Blame(n).code
        /\ cpu'.emr = cpu.emr /\ cpu'.tbar = cpu.tbar /\ cpu'.dbgLocked
        /\ pts'.schedulerState = pts.schedulerState
        /\ pts'.currentThread = pts.currentThread
    BY <1>3 DEF PublicError, CpuType, PtsType
  <2>2. CASE pts.currentThread = NoThread
    <3>1. cpu'.pc = "killPts"
      BY <2>1, <2>2 DEF Blame
    <3> QED BY <1>3, <2>1, <3>1 DEF TrapOK, TrappedPCs, ThreadPCs, BlamePCs
  <2>3. CASE pts.currentThread # NoThread
    <3>1. /\ cpu'.pc = "kill" /\ cpu'.thread = pts.currentThread
          /\ cpu'.code = PTS_THREAD_ERROR(n)
      BY <2>1, <2>3 DEF Blame
    <3>2. ASSUME PTS_THREAD_ERROR(n) = PTS_THREAD_ERROR(0)
          PROVE  cpu.emr = "PTS" /\ ~thr[pts.currentThread].handlesPib
      <4>1. n = 0
        BY <3>2, PtsAssumption DEF PTS_THREAD_ERROR
      <4>2. cpu.pc \in {"thread", "start"} /\ cpu.emr = "PTS"
        BY <1>1, <1>3, <2>3, <4>1 DEF PibPCs, EnabledOK, ThreadsOK, IdlePCs, CpuType
      <4> QED BY <2>3, <4>2 DEF TrapOK, RightMask, ThreadsOK
    <3> QED BY <1>1, <1>3, <2>1, <3>1, <3>2 DEF TrapOK, TrappedPCs, ThreadPCs, BlamePCs
  <2> QED BY <2>2, <2>3
<1> QED BY <1>1, <1>2, <1>3

LEMMA TrapEnvironment ==
    ErrorInv /\ (RaiseIdle \/ RaiseControl \/ TakeIdle \/ TakeControl
        \/ IssueCommand \/ CollectResponse \/ Tick \/ Lost \/ UNCHANGED vars) => TrapOK'
<1> SUFFICES ASSUME ErrorInv,
                    RaiseIdle \/ RaiseControl \/ TakeIdle \/ TakeControl \/ IssueCommand
                    \/ CollectResponse \/ Tick \/ Lost \/ UNCHANGED vars
             PROVE  TrapOK'
    OBVIOUS
<1> USE DEF ErrorInv, Inv, TypeInv, TypeOK
<1>1. CASE TakeIdle \/ TakeControl
  <2>1. cpu'.pc \in {"slw", "enable", "disable"}
    BY <1>1, IdleMoves, ControlMoves
  <2> QED BY <2>1, TrapLeave DEF TrapWatchedPCs, TrappedPCs, ThreadPCs
<1>2. ASSUME /\ cpu'.pc = cpu.pc /\ cpu'.emr = cpu.emr /\ cpu'.tbar = cpu.tbar
             /\ cpu'.dbgLocked = cpu.dbgLocked /\ cpu'.ints = cpu.ints
             /\ cpu'.sprg0 = cpu.sprg0 /\ cpu'.code = cpu.code /\ cpu'.thread = cpu.thread
             /\ UNCHANGED thr /\ pts'.schedulerState = pts.schedulerState
             /\ pts'.currentThread = pts.currentThread /\ pts'.atomic = pts.atomic,
             cpu.pc = "wild" /\ slw.wakeup /\ slw.request = "none"
                 => slw'.wakeup /\ slw'.request = "none"
      PROVE  TrapOK'
    BY <1>2 DEF TrapOK, TrappedPCs, ThreadPCs, BlamePCs, RightMask
<1>3. CASE RaiseIdle \/ RaiseControl
  <2>1. UNCHANGED <<cpu, pts, thr>> /\ ~(cpu.pc = "wild" /\ slw.wakeup)
    BY <1>3 DEF RaiseIdle, RaiseControl
  <2> QED BY <1>2, <2>1
<1>4. CASE Tick
  <2>1. /\ cpu'.pc = cpu.pc /\ cpu'.emr = cpu.emr /\ cpu'.tbar = cpu.tbar
        /\ cpu'.dbgLocked = cpu.dbgLocked /\ cpu'.ints = cpu.ints
        /\ cpu'.sprg0 = cpu.sprg0 /\ cpu'.code = cpu.code /\ cpu'.thread = cpu.thread
        /\ UNCHANGED <<thr, pts, slw>>
    BY <1>4 DEF Tick, CpuType
  <2> QED BY <1>2, <2>1
<1>5. CASE IssueCommand \/ CollectResponse \/ Lost \/ UNCHANGED vars
  <2>1. /\ UNCHANGED <<cpu, thr, slw>> /\ pts'.schedulerState = pts.schedulerState
        /\ pts'.currentThread = pts.currentThread /\ pts'.atomic = pts.atomic
    BY <1>5 DEF IssueCommand, CollectResponse, Lost, vars, PtsType
  <2> QED BY <1>2, <2>1
<1> QED BY <1>1, <1>3, <1>4, <1>5

LEMMA TrapStep == NoDoubleFaults /\ ErrorInv /\ [Next]_vars => TrapOK'
BY TrapScheduler, TrapError, TrapCommand, TrapSlw, TrapRun, TrapHwError, TrapEnvironment
   DEF Next, EngineStep

-----------------------------------------------------------------------------
(* Contexts.                                                               *)

ExemptPCs == {"thread", "die"} \cup BlamePCs
DownPCs == {"killPts", "errorHandler", "wild"}

(* PTS goes down, or is down.                                              *)
LEMMA ContextGone == ~slw'.terminator \/ cpu'.pc \in DownPCs => ContextOK'
BY DEF ContextOK, DownPCs

(* A step from a place where no thread is exempt.                          *)
LEMMA ContextQuiet ==
    ASSUME TypeInv, ContextOK, slw'.terminator => slw.terminator,
           cpu.pc \notin DownPCs \cup ExemptPCs,
           \A s \in Slots : table'[s].thread \in {table[s].thread, NoThread},
           \A t \in Threads : SoundContext(thr[t]) => SoundContext(thr'[t])
    PROVE  ContextOK'
<1> SUFFICES ASSUME slw'.terminator, NEW t \in Threads, Mapped(t)'
             PROVE  SoundContext(thr'[t])
    BY DEF ContextOK, DownPCs
<1>1. SlotOf[t] \in Slots /\ t # NoThread
    BY PtsAssumption
<1>2. Mapped(t)
    BY <1>1 DEF Mapped
<1>3. ~Exempt(t)
    BY DEF Exempt, ExemptPCs
<1> QED BY <1>2, <1>3 DEF ContextOK, DownPCs

(* A step that leaves the engine where it is, and the threads alone.       *)
LEMMA ContextStays ==
    ASSUME TypeInv, ContextOK, slw'.terminator => slw.terminator,
           cpu'.pc = cpu.pc, cpu'.thread = cpu.thread,
           pts'.currentThread = pts.currentThread, UNCHANGED thr,
           \A s \in Slots : table'[s].thread = table[s].thread
    PROVE  ContextOK'
BY PtsAssumption DEF ContextOK, Exempt, Mapped

(* A step of the thread u, or of the routines that end it: no other        *)
(* thread's context changes.                                               *)
LEMMA ContextOfOne ==
    ASSUME TypeInv, ContextOK, cpu.pc \in ExemptPCs, slw'.terminator => slw.terminator,
           \A s \in Slots : table'[s].thread = table[s].thread,
           NEW u, \A t \in Threads : Exempt(t) => t = u,
           \A t \in Threads : t # u => thr'[t] = thr[t],
           u \in Threads => SoundContext(thr'[u]) \/ Exempt(u)'
    PROVE  ContextOK'
<1>1. slw.terminator => \A t \in Threads : Mapped(t) /\ t # u => SoundContext(thr[t])
    BY DEF ContextOK, ExemptPCs, BlamePCs
<1>2. \A t \in Threads : Mapped(t)' => Mapped(t)
    BY PtsAssumption DEF Mapped
<1> SUFFICES ASSUME slw'.terminator, NEW t \in Threads, Mapped(t)', ~Exempt(t)'
             PROVE  SoundContext(thr'[t])
    BY DEF ContextOK
<1> QED BY <1>1, <1>2

LEMMA ContextScheduler == ErrorInv /\ SchedulerStep => ContextOK'
<1> SUFFICES ASSUME ErrorInv, SchedulerStep PROVE ContextOK'
    OBVIOUS
<1> USE DEF ErrorInv, Inv, TypeInv, TypeOK
<1>1. UNCHANGED slw
    BY SchedulerKeepsSlw
<1>2. CASE \/ Schedule \/ OpenWindow \/ CloseWindow \/ ScanStopped \/ RescanReady
           \/ RescanWait \/ WaitDone \/ PibWindowClose
  <2>1. UNCHANGED <<table, thr>> /\ cpu.pc \notin DownPCs \cup ExemptPCs
    BY <1>2 DEF Schedule, OpenWindow, CloseWindow, ScanStopped, RescanReady, RescanWait,
       WaitDone, PibWindowClose, DownPCs, ExemptPCs, BlamePCs
  <2> QED BY <1>1, <2>1, ContextQuiet
<1>3. CASE ScanNone \/ \E s \in Slots : ScanFound(s)
  <2>1. UNCHANGED thr /\ cpu.pc = "scan" /\ \E n : table' = RetireEmpty(n)
    BY <1>3 DEF ScanNone, ScanFound
  <2>2. \A s \in Slots : table'[s].thread = table[s].thread
    BY <2>1 DEF RetireEmpty, EntryType
  <2> QED BY <1>1, <2>1, <2>2, ContextQuiet DEF DownPCs, ExemptPCs, BlamePCs
<1>4. CASE Dispatch
  <2>1. UNCHANGED table /\ cpu.pc = "dispatch"
    BY <1>4 DEF Dispatch
  <2>2. \A t \in Threads : thr'[t] = thr[t] \/ thr'[t] = Restarted(thr[t])
    BY <1>4 DEF Dispatch
  <2>3. \A t \in Threads : SoundContext(Restarted(thr[t]))
    BY DEF SoundContext, Restarted, ThreadType
  <2> QED BY <1>1, <2>1, <2>2, <2>3, ContextQuiet DEF DownPCs, ExemptPCs, BlamePCs
<1>5. CASE TerminateSuspendDie
  <2>1. \A s \in Slots : table'[s].thread = table[s].thread
    BY <1>5 DEF TerminateSuspendDie, EntryType
  <2>2. /\ cpu.pc = "die"
        /\ \/ cpu'.pc = "wild" \/ cpu'.pc = "terminated"
           \/ cpu'.pc = "kill" /\ cpu'.thread = cpu.thread
    <3>1. CASE pts.atomic
      BY <1>5, <3>1 DEF TerminateSuspendDie, AtomicViolation, CpuType, TrapOK
    <3>2. CASE ~pts.atomic
      BY <1>5, <3>2 DEF TerminateSuspendDie, Goto, CpuType
    <3> QED BY <3>1, <3>2
  <2>3. \A t \in Threads : t # cpu.thread => thr'[t] = thr[t]
    BY <1>5 DEF TerminateSuspendDie
  <2>4. ASSUME cpu.thread \in Threads PROVE SoundContext(thr'[cpu.thread])
    <3>1. thr'[cpu.thread] = FlagsOfDead(thr[cpu.thread], cpu.code)
      BY <1>5, <2>4 DEF TerminateSuspendDie
    <3>2. CASE cpu.code = SUSPENDED
      <4>1. thr[cpu.thread].pc = "program"
        BY <2>2, <3>2 DEF TrapOK
      <4> QED BY <2>4, <3>1, <3>2, <4>1 DEF FlagsOfDead, SoundContext, ThreadType
    <3>3. CASE cpu.code # SUSPENDED
      BY <2>4, <3>1, <3>3 DEF FlagsOfDead, SoundContext, ThreadType
    <3> QED BY <3>2, <3>3
  <2>5. \A t \in Threads : Exempt(t) => t = cpu.thread
    BY <2>2 DEF Exempt
  <2> QED BY <1>1, <2>1, <2>2, <2>3, <2>4, <2>5, ContextOfOne DEF ExemptPCs
<1> QED BY <1>2, <1>3, <1>4, <1>5 DEF SchedulerStep

LEMMA ContextError == NoDoubleFaults /\ ErrorInv /\ ErrorStep => ContextOK'
<1> SUFFICES ASSUME NoDoubleFaults, ErrorInv, ErrorStep PROVE ContextOK'
    OBVIOUS
<1> USE DEF ErrorInv, Inv, TypeInv, TypeOK
<1>1. UNCHANGED <<table, slw>>
    BY DEF ErrorStep, KillThread, UnlockDbg, EnterError0Handler, RecordDeath, KillPts
<1>2. CASE KillThread \/ UnlockDbg \/ EnterError0Handler \/ RecordDeath
  <2>1. cpu.pc \in BlamePCs
    BY <1>2 DEF KillThread, UnlockDbg, EnterError0Handler, RecordDeath, BlamePCs
  <2>2. \A t \in Threads : t # cpu.thread => thr'[t] = thr[t]
    BY <1>2 DEF KillThread, UnlockDbg, EnterError0Handler, RecordDeath
  <2>3. \/ cpu'.pc \in BlamePCs \cup {"die"} /\ cpu'.thread = cpu.thread
        \/ cpu'.pc = "thread" /\ pts'.currentThread = cpu.thread
    BY <1>2 DEF KillThread, UnlockDbg, EnterError0Handler, RecordDeath, Goto, BlamePCs,
       CpuType, PtsType
  <2>4. \A t \in Threads : Exempt(t) => t = cpu.thread
    BY <2>1 DEF Exempt, BlamePCs
  <2>5. PICK u : u = cpu.thread
    OBVIOUS
  <2>6. Exempt(u)'
    BY <2>3, <2>5 DEF Exempt
  <2> QED BY <1>1, <2>1, <2>2, <2>4, <2>5, <2>6, ContextOfOne DEF ExemptPCs
<1>3. CASE KillPts
  <2>1. pts.command.op # "doubleFault"
    BY PtsAssumption DEF NoDoubleFaults, PtsType, Commands, NoCommand, PlainOps, ThreadOps
  <2>2. cpu'.pc = "errorHandler"
    BY <1>3, <2>1 DEF KillPts, Goto, CpuType
  <2> QED BY <2>2, ContextGone DEF DownPCs
<1> QED BY <1>2, <1>3 DEF ErrorStep

LEMMA ContextCommand == ErrorInv /\ CommandStep => ContextOK'
<1> SUFFICES ASSUME ErrorInv, CommandStep PROVE ContextOK'
    OBVIOUS
<1> USE DEF ErrorInv, Inv, TypeInv, TypeOK
<1>1. cpu.pc = "command" /\ UNCHANGED <<thr, slw>>
    BY DEF CommandStep, StartPts, StopPts, CommandThread, InvalidCommand, Finish, InjectError,
           InjectUndetected, InCommand
<1>2. CASE CommandThread
  <2>1. pts.command.op \in ThreadOps
    BY <1>2 DEF CommandThread, InCommand
  <2>2. ASSUME NEW e \in EntryType
        PROVE  CommandedEntry(pts.command.op, e).thread \in {e.thread, NoThread}
    BY <2>1 DEF ThreadOps, CommandedEntry, EntryType
  <2>3. ASSUME NEW s \in Slots
        PROVE  table'[s].thread \in {table[s].thread, NoThread}
    <3>1. \/ table'[s] = table[s]
          \/ table'[s] = CommandedEntry(pts.command.op, table[s])
      BY <1>2 DEF CommandThread
    <3> QED BY <2>2, <2>3, <3>1
  <2> QED BY <1>1, <2>3, ContextQuiet DEF DownPCs, ExemptPCs, BlamePCs
<1>3. CASE ~CommandThread
  <2>1. UNCHANGED table
    BY <1>3 DEF CommandStep, StartPts, StopPts, InvalidCommand, InjectError, InjectUndetected
  <2> QED BY <1>1, <2>1, ContextQuiet DEF DownPCs, ExemptPCs, BlamePCs
<1> QED BY <1>2, <1>3

LEMMA ContextSlw == ErrorInv /\ SlwStep => ContextOK'
<1> SUFFICES ASSUME ErrorInv, SlwStep PROVE ContextOK'
    OBVIOUS
<1> USE DEF ErrorInv, Inv, TypeInv, TypeOK
<1>1. CASE EnableFromSlw
  <2>1. \A s \in Slots : table'[s].thread = table[s].thread
    BY <1>1 DEF EnableFromSlw, EntryType
  <2>2. ASSUME NEW t \in Threads, Mapped(t)' PROVE SoundContext(thr'[t])
    <3>1. SlotOf[t] \in Slots /\ table[SlotOf[t]].thread = t
      BY <2>1, <2>2, PtsAssumption DEF Mapped
    <3>2. thr'[t] = Restarted(thr[t])
      BY <1>1, <3>1 DEF EnableFromSlw
    <3> QED BY <3>2 DEF SoundContext, Restarted, ThreadType
  <2> QED BY <2>2 DEF ContextOK
<1>2. CASE ThreadFailed \/ DisablePts
  <2>1. cpu'.pc = "errorHandler" \/ ~slw'.terminator
    BY <1>2 DEF ThreadFailed, DisablePts, CpuType, SlwType
  <2> QED BY <2>1, ContextGone DEF DownPCs
<1>3. CASE \/ SlwDone \/ DisableFromSlw \/ EntryStart \/ EntryUnable \/ EntrySchedule
           \/ CheckChip \/ ThreadEnded \/ SetFir \/ RestoreSlw
  <2>1. UNCHANGED <<table, thr>> /\ (slw'.terminator => slw.terminator)
    BY <1>3 DEF SlwDone, DisableFromSlw, EntryStart, EntryUnable, EntrySchedule, CheckChip,
       ThreadEnded, SetFir, Reported, RestoreSlw, SlwType
  <2>2. cpu.pc \notin DownPCs \cup ExemptPCs
    BY <1>3 DEF SlwDone, DisableFromSlw, EntryStart, EntryUnable, EntrySchedule, CheckChip,
       ThreadEnded, SetFir, RestoreSlw, DownPCs, ExemptPCs, BlamePCs
  <2> QED BY <2>1, <2>2, ContextQuiet
<1> QED BY <1>1, <1>2, <1>3 DEF SlwStep

LEMMA ContextRun ==
    ErrorInv /\ (SystemCall \/ MainstoreAtomicAdd \/ MainstoreDefault) => ContextOK'
<1> SUFFICES ASSUME ErrorInv, SystemCall \/ MainstoreAtomicAdd \/ MainstoreDefault
             PROVE  ContextOK'
    OBVIOUS
<1> USE DEF ErrorInv, Inv, TypeInv, TypeOK
<1>1. cpu.pc = "thread" /\ UNCHANGED slw
    BY RunMoves
<1>2. PICK u \in Threads : u = pts.currentThread
    BY <1>1 DEF OperandsOK
<1>3. (\A t \in Threads : Exempt(t) => t = u) /\ cpu.pc \in ExemptPCs
    BY <1>1, <1>2 DEF Exempt, ExemptPCs, BlamePCs
<1>4. CASE Yield \/ Sleep \/ Suspend \/ ThreadHandlesPibErrors \/ PtsHandlesPibErrors
  <2>1. PICK next \in Nexts, pib \in BOOLEAN, suspend \in BOOLEAN :
           InThread /\ YieldSleepSuspend(next, pib, suspend)
    BY <1>4, YieldMoves
  <2>2. u = cpu.sprg0
    BY <1>2, <2>1 DEF InThread
  <2>3. /\ \A s \in Slots : table'[s].thread = table[s].thread
        /\ \A t \in Threads : t # u => thr'[t] = thr[t]
    BY <2>1, <2>2 DEF YieldSleepSuspend, EntryType
  <2>4. CASE pts.atomic
    <3>1. cpu'.pc = "kill" /\ cpu'.thread = u
      BY <2>1, <2>2, <2>4 DEF YieldSleepSuspend, AtomicViolation, CpuType
    <3>2. Exempt(u)'
      BY <3>1 DEF Exempt, BlamePCs
    <3> QED BY <1>1, <1>3, <2>3, <3>2, ContextOfOne
  <2>5. CASE ~pts.atomic
    <3>1. /\ thr'[u].hasContext = (thr[u].hasContext \/ ~pts.atomic)
          /\ thr'[u].pc = "program"
      BY <2>1, <2>2 DEF YieldSleepSuspend, ThreadType
    <3>2. SoundContext(thr'[u])
      BY <2>5, <3>1 DEF SoundContext
    <3> QED BY <1>1, <1>3, <2>3, <3>2, ContextOfOne
  <2> QED BY <2>4, <2>5
<1>5. CASE Terminate
  <2>1. /\ UNCHANGED table
        /\ \A t \in Threads : t # u => thr'[t] = thr[t]
        /\ cpu'.pc = "die" /\ cpu'.thread = u
    BY <1>2, <1>5 DEF Terminate, InThread, CpuType
  <2>2. Exempt(u)'
    BY <2>1 DEF Exempt
  <2> QED BY <1>1, <1>3, <2>1, <2>2, ContextOfOne
<1>6. CASE StraySystemCall
    BY <1>6, ContextGone DEF StraySystemCall, CpuType, DownPCs
<1>7. CASE MainstoreAtomicAdd \/ MainstoreDefault
  <2>1. UNCHANGED <<cpu, table, thr, slw>> /\ pts'.currentThread = pts.currentThread
    BY <1>7 DEF MainstoreAtomicAdd, MainstoreDefault, PtsType
  <2> QED BY <2>1, ContextStays
<1> QED BY <1>4, <1>5, <1>6, <1>7 DEF SystemCall

LEMMA ContextHwError == NoDoubleFaults /\ ErrorInv /\ HwError => ContextOK'
<1> SUFFICES ASSUME NoDoubleFaults, ErrorInv, HwError PROVE ContextOK'
    OBVIOUS
<1> USE DEF ErrorInv, Inv, TypeInv, TypeOK
<1>1. PICK n \in Errors :
        /\ ~cpu.dbgLocked /\ Executing /\ UNCHANGED <<table, thr, slw>>
        /\ \/ cpu.pc \notin TrappedPCs /\ cpu'.pc = "stopped"
           \/ PublicError(n)
    BY TrappedError
<1>2. cpu.pc \notin {"killPts", "wild"}
    BY <1>1 DEF TrapOK, Executing
<1>3. CASE cpu.pc \notin TrappedPCs /\ cpu'.pc = "stopped"
  <2>1. cpu.pc \notin DownPCs \cup ExemptPCs
    BY <1>2, <1>3 DEF TrappedPCs, ThreadPCs, DownPCs, ExemptPCs, BlamePCs
  <2> QED BY <1>1, <2>1, ContextQuiet
<1>4. CASE PublicError(n)
  <2>1. cpu'.pc = Blame(n).pc /\ cpu'.thread = Blame(n).thread
    BY <1>4 DEF PublicError, CpuType
  <2>2. CASE pts.currentThread = NoThread
    BY <2>1, <2>2, ContextGone DEF Blame, DownPCs
  <2>3. CASE pts.currentThread # NoThread
    <3>1. PICK u : u = pts.currentThread
      OBVIOUS
    <3>2. cpu'.pc = "kill" /\ cpu'.thread = u
      BY <2>1, <2>3, <3>1 DEF Blame
    <3>3. CASE cpu.pc \in ExemptPCs
      <4>1. \A t \in Threads : Exempt(t) => t = u
        BY <2>3, <3>1, <3>3 DEF Exempt, ExemptPCs, TrapOK
      <4>2. Exempt(u)'
        BY <3>2 DEF Exempt, BlamePCs
      <4> QED BY <1>1, <3>3, <4>1, <4>2, ContextOfOne
    <3>4. CASE cpu.pc \notin ExemptPCs
      <4>1. cpu.pc # "errorHandler"
        BY <2>3 DEF EnabledOK
      <4> QED BY <1>1, <1>2, <3>4, <4>1, ContextQuiet DEF DownPCs
    <3> QED BY <3>3, <3>4
  <2> QED BY <2>2, <2>3
<1> QED BY <1>1, <1>3, <1>4

LEMMA ContextEnvironment ==
    ErrorInv /\ (RaiseIdle \/ RaiseControl \/ TakeIdle \/ TakeControl
        \/ IssueCommand \/ CollectResponse \/ Tick \/ Lost \/ UNCHANGED vars) => ContextOK'
<1> SUFFICES ASSUME ErrorInv,
                    RaiseIdle \/ RaiseControl \/ TakeIdle \/ TakeControl \/ IssueCommand
                    \/ CollectResponse \/ Tick \/ Lost \/ UNCHANGED vars
             PROVE  ContextOK'
    OBVIOUS
<1> USE DEF ErrorInv, Inv, TypeInv, TypeOK
<1>1. CASE TakeIdle \/ TakeControl
  <2>1. /\ TakesRequests /\ slw.request # "none" /\ slw'.terminator = slw.terminator
        /\ UNCHANGED <<table, thr>>
    BY <1>1 DEF TakeIdle, TakeControl, SlwType
  <2>2. cpu.pc \notin DownPCs \cup ExemptPCs
    <3>1. ASSUME cpu.pc \in DownPCs \cup ExemptPCs PROVE FALSE
      <4>1. cpu.ints
        BY <2>1, <3>1 DEF TakesRequests, DownPCs, ExemptPCs, BlamePCs
      <4>2. CASE cpu.pc = "wild"
        BY <2>1, <4>1, <4>2 DEF TrapOK
      <4>3. CASE cpu.pc # "wild"
        <5>1. cpu.pc \in RunningPCs /\ cpu.pc \in TrappedPCs
          BY <3>1, <4>3 DEF DownPCs, ExemptPCs, BlamePCs, RunningPCs, ThreadPCs, HandlerPCs,
             TrappedPCs
        <5> QED BY <2>1, <4>1, <5>1 DEF WindowsOK, TrapOK
      <4> QED BY <4>2, <4>3
    <3> QED BY <3>1
  <2> QED BY <2>1, <2>2, ContextQuiet
<1>2. CASE RaiseIdle \/ RaiseControl
  <2>1. UNCHANGED <<cpu, pts, table, thr>> /\ slw'.terminator = slw.terminator
    BY <1>2 DEF RaiseIdle, RaiseControl, SlwType
  <2> QED BY <2>1, ContextStays
<1>3. CASE Tick
  <2>1. /\ UNCHANGED <<pts, thr, slw>> /\ cpu'.pc = cpu.pc /\ cpu'.thread = cpu.thread
        /\ \A s \in Slots : table'[s].thread = table[s].thread
    BY <1>3 DEF Tick, CpuType, EntryType
  <2> QED BY <2>1, ContextStays
<1>4. CASE IssueCommand \/ CollectResponse \/ Lost \/ UNCHANGED vars
  <2>1. UNCHANGED <<cpu, table, thr, slw>> /\ pts'.currentThread = pts.currentThread
    BY <1>4 DEF IssueCommand, CollectResponse, Lost, vars, PtsType
  <2> QED BY <2>1, ContextStays
<1> QED BY <1>1, <1>2, <1>3, <1>4

LEMMA ErrorInvInductive ==
    /\ Init => ErrorInv
    /\ NoDoubleFaults /\ ErrorInv /\ [Next]_vars => ErrorInv'
<1>1. NoDoubleFaults /\ ErrorInv /\ [Next]_vars => ContextOK'
    BY ContextScheduler, ContextError, ContextCommand, ContextSlw, ContextRun, ContextHwError,
       ContextEnvironment DEF Next, EngineStep
<1> QED BY <1>1, InvInductive, ThreadsInit, ThreadsStep, TrapInit, TrapStep DEF ErrorInv

(* A thread runs under the mask its own flag asks for.                     *)
THEOREM MaskMatchesThread ==
    ASSUME NoDoubleFaults PROVE Spec => []EmrMatchesThread
<1>1. Init => ErrorInv
    BY ErrorInvInductive
<1>2. ErrorInv /\ [Next]_vars => ErrorInv'
    BY ErrorInvInductive
<1>3. ErrorInv => EmrMatchesThread
    BY DEF ErrorInv, TrapOK, EmrMatchesThread, RightMask
<1> QED BY <1>1, <1>2, <1>3, PTL DEF Spec

(* No thread is resumed from a context that an error has overwritten.      *)
THEOREM ContextsAreSound ==
    ASSUME NoDoubleFaults PROVE Spec => []ResumeHasContext
<1>1. Init => ErrorInv
    BY ErrorInvInductive
<1>2. ErrorInv /\ [Next]_vars => ErrorInv'
    BY ErrorInvInductive
<1>3. ErrorInv => ResumeHasContext
  <2> SUFFICES ASSUME ErrorInv, cpu.pc = "dispatch" PROVE SoundContext(thr[cpu.sprg0])
    BY DEF ResumeHasContext, SoundContext
  <2>1. /\ cpu.sprg0 = pts.currentThread /\ pts.currentThread \in Threads
        /\ slw.terminator /\ Mapped(pts.currentThread)
    BY DEF ErrorInv, Inv, TypeInv, OperandsOK, EnabledOK, LoopPCs, TrapOK, ThreadsOK, RunPCs,
       OnSchedule, Mapped
  <2> QED BY <2>1 DEF ErrorInv, ContextOK, Exempt, BlamePCs
<1> QED BY <1>1, <1>2, <1>3, PTL DEF Spec

-----------------------------------------------------------------------------
(* Fatal errors are reported.                                              *)

Fatal(rc) == rc \notin {0, PTS_NOT_SUPPORTED}

(* A fatal code in PtsState is on its way to PMC's FIR, reported there, or *)
(* PHYP's recovery is on its way - with the cores under special wakeup, so *)
(* that no idle request gets in between if it is stopped again.            *)
ReportedOK ==
    Fatal(pts.rc) =>
        \/ slw.fir /\ ~slw.terminator
        \/ slw.request \in {"enable", "disable"}
        \/ cpu.pc \in {"enable", "disable", "stopped"} /\ slw.wakeup /\ slw.request = "none"
        \/ cpu.pc \in {"killPts", "errorHandler", "fir"}

(* A step that takes none of this away.                                    *)
LEMMA ReportedStays ==
    ASSUME ReportedOK, pts'.rc = pts.rc,
           UNCHANGED slw,
           cpu.pc \in {"enable", "disable", "stopped", "killPts", "errorHandler", "fir"}
              => cpu'.pc = cpu.pc
    PROVE  ReportedOK'
BY DEF ReportedOK, Fatal

LEMMA ReportedCleared ==
    ASSUME pts'.rc \in {0, PTS_NOT_SUPPORTED} PROVE ReportedOK'
BY DEF ReportedOK, Fatal

LEMMA ReportedScheduler == ErrorInv /\ ReportedOK /\ SchedulerStep => ReportedOK'
<1> SUFFICES ASSUME ErrorInv, ReportedOK, SchedulerStep PROVE ReportedOK'
    OBVIOUS
<1> USE DEF ErrorInv, Inv, TypeInv, TypeOK
<1>1. UNCHANGED slw
    BY SchedulerKeepsSlw
<1>2. cpu.pc \in LoopPCs \cup {"die"}
    BY DEF SchedulerStep, Schedule, OpenWindow, CloseWindow, ScanStopped, ScanFound, ScanNone,
           RescanReady, RescanWait, WaitDone, PibWindowClose, Dispatch, TerminateSuspendDie,
           LoopPCs
<1>3. pts'.rc = pts.rc
  <2>1. CASE \E s \in Slots : ScanFound(s)
    BY <2>1 DEF ScanFound, ResumeThread, PtsType
  <2>2. CASE TerminateSuspendDie
    BY <2>2 DEF TerminateSuspendDie, AtomicViolation, PtsType
  <2>3. CASE ~TerminateSuspendDie /\ ~\E s \in Slots : ScanFound(s)
    BY <2>3 DEF SchedulerStep, Schedule, EnterScheduler, OpenWindow, CloseWindow, ScanStopped,
       ScanNone, RescanReady, RescanWait, Wait, WaitDone, PibWindowClose, Dispatch, PtsType
  <2> QED BY <2>1, <2>2, <2>3
<1> QED BY <1>1, <1>2, <1>3, ReportedStays DEF LoopPCs

LEMMA ReportedError == NoDoubleFaults /\ ErrorInv /\ ReportedOK /\ ErrorStep => ReportedOK'
<1> SUFFICES ASSUME NoDoubleFaults, ErrorInv, ReportedOK, ErrorStep PROVE ReportedOK'
    OBVIOUS
<1> USE DEF ErrorInv, Inv, TypeInv, TypeOK
<1>1. CASE KillThread \/ UnlockDbg \/ EnterError0Handler \/ RecordDeath
  <2>1. cpu.pc \in BlamePCs /\ UNCHANGED slw /\ pts'.rc = pts.rc
    BY <1>1 DEF KillThread, UnlockDbg, EnterError0Handler, RecordDeath, BlamePCs, PtsType
  <2> QED BY <2>1, ReportedStays DEF BlamePCs
<1>2. CASE KillPts
  <2>1. pts.command.op # "doubleFault"
    BY PtsAssumption DEF NoDoubleFaults, PtsType, Commands, NoCommand, PlainOps, ThreadOps
  <2>2. cpu'.pc = "errorHandler"
    BY <1>2, <2>1 DEF KillPts, Goto, CpuType
  <2> QED BY <2>2 DEF ReportedOK
<1> QED BY <1>1, <1>2 DEF ErrorStep

LEMMA ReportedCommand == ErrorInv /\ ReportedOK /\ CommandStep => ReportedOK'
<1> SUFFICES ASSUME ErrorInv, ReportedOK, CommandStep PROVE ReportedOK'
    OBVIOUS
<1> USE DEF ErrorInv, Inv, TypeInv, TypeOK
<1>1. cpu.pc = "command" /\ UNCHANGED slw
    BY DEF CommandStep, StartPts, StopPts, CommandThread, InvalidCommand, Finish, InjectError,
           InjectUndetected, InCommand
<1>2. pts'.rc = pts.rc \/ pts'.rc = 0
  <2>1. CASE InjectError \/ InjectUndetected
    BY <2>1 DEF InjectError, InjectUndetected, PtsType
  <2>2. CASE StartPts \/ StopPts
    BY <2>2 DEF StartPts, StopPts, Finish, Answered, PtsType
  <2>3. CASE CommandThread \/ InvalidCommand
    BY <2>3 DEF CommandThread, InvalidCommand, Finish, Answered, PtsType
  <2> QED BY <2>1, <2>2, <2>3 DEF CommandStep
<1> QED BY <1>1, <1>2, ReportedStays, ReportedCleared

LEMMA ReportedSlw == ErrorInv /\ ReportedOK /\ SlwStep => ReportedOK'
<1> SUFFICES ASSUME ErrorInv, ReportedOK, SlwStep PROVE ReportedOK'
    OBVIOUS
<1> USE DEF ErrorInv, Inv, TypeInv, TypeOK
<1>1. CASE SlwDone \/ EntryStart \/ ThreadEnded \/ RestoreSlw
  <2>1. /\ cpu.pc \in {"slw", "entry", "terminated", "restore"}
        /\ UNCHANGED <<pts, slw>>
    BY <1>1 DEF SlwDone, EntryStart, ThreadEnded, RestoreSlw
  <2> QED BY <2>1, ReportedStays
<1>2. CASE EntryUnable \/ EntrySchedule
  <2>1. /\ cpu.pc = "entry" /\ UNCHANGED pts /\ slw'.request = slw.request
        /\ slw'.fir = slw.fir /\ slw'.terminator = slw.terminator
    BY <1>2 DEF EntryUnable, EntrySchedule, SlwType
  <2> QED BY <2>1 DEF ReportedOK, Fatal
<1>3. CASE EnableFromSlw \/ DisableFromSlw
  <2>1. pts'.rc = 0
    BY <1>3 DEF EnableFromSlw, DisableFromSlw, PtsType
  <2> QED BY <2>1, ReportedCleared
<1>4. CASE CheckChip
  <2>1. cpu.pc = "start" /\ UNCHANGED slw /\ pts'.rc \in {pts.rc, PTS_NOT_SUPPORTED}
    BY <1>4 DEF CheckChip, ChipState, PtsType
  <2> QED BY <2>1, ReportedStays, ReportedCleared
<1>5. CASE ThreadFailed \/ DisablePts
  <2>1. cpu'.pc \in {"errorHandler", "fir"}
    BY <1>5 DEF ThreadFailed, DisablePts, CpuType
  <2> QED BY <2>1 DEF ReportedOK
<1>6. CASE SetFir
  <2>1. slw'.fir /\ slw'.terminator = slw.terminator /\ cpu.pc = "fir"
    BY <1>6 DEF SetFir, Reported, SlwType
  <2> QED BY <2>1 DEF ReportedOK, EnabledOK
<1> QED BY <1>1, <1>2, <1>3, <1>4, <1>5, <1>6 DEF SlwStep

LEMMA ReportedHwError == NoDoubleFaults /\ ErrorInv /\ ReportedOK /\ HwError => ReportedOK'
<1> SUFFICES ASSUME NoDoubleFaults, ErrorInv, ReportedOK, HwError PROVE ReportedOK'
    OBVIOUS
<1> USE DEF ErrorInv, Inv, TypeInv, TypeOK
<1>1. PICK n \in Errors :
        /\ ~cpu.dbgLocked /\ Executing /\ UNCHANGED slw
        /\ \/ cpu.pc \notin TrappedPCs /\ cpu'.pc = "stopped" /\ UNCHANGED pts
           \/ PublicError(n) /\ cpu.tbar = "pts" /\ pts.schedulerState # "INTERRUPTIBLE"
    BY TrappedError
<1>2. CASE cpu.pc \notin TrappedPCs /\ cpu'.pc = "stopped" /\ UNCHANGED pts
    BY <1>1, <1>2 DEF ReportedOK, Fatal, TrappedPCs
<1>3. CASE PublicError(n) /\ cpu.tbar = "pts" /\ pts.schedulerState # "INTERRUPTIBLE"
  <2>1. cpu'.pc = Blame(n).pc /\ pts'.rc = pts.rc
    BY <1>3 DEF PublicError, CpuType, PtsType
  <2>2. CASE pts.currentThread = NoThread
    BY <2>1, <2>2 DEF Blame, ReportedOK
  <2>3. CASE pts.currentThread # NoThread
    <3>1. cpu.pc \notin {"enable", "disable", "stopped", "killPts", "errorHandler", "fir"}
      BY <1>1, <1>3, <2>3 DEF EnabledOK, Executing
    <3> QED BY <1>1, <2>1, <3>1, ReportedStays
  <2> QED BY <2>2, <2>3
<1> QED BY <1>1, <1>2, <1>3

LEMMA ReportedEnvironment ==
    ErrorInv /\ ReportedOK /\ (RaiseIdle \/ RaiseControl \/ TakeIdle \/ TakeControl
        \/ IssueCommand \/ CollectResponse \/ Tick \/ Lost \/ UNCHANGED vars) => ReportedOK'
<1> SUFFICES ASSUME ErrorInv, ReportedOK,
                    RaiseIdle \/ RaiseControl \/ TakeIdle \/ TakeControl \/ IssueCommand
                    \/ CollectResponse \/ Tick \/ Lost \/ UNCHANGED vars
             PROVE  ReportedOK'
    OBVIOUS
<1> USE DEF ErrorInv, Inv, TypeInv, TypeOK
<1>1. CASE TakeIdle
  <2>1. /\ slw.request = "idle" /\ TakesRequests /\ pts'.rc = pts.rc
        /\ slw' = [slw EXCEPT !.request = "none"]
    BY <1>1, IdleMoves DEF PtsType
  <2>2. cpu.pc \notin {"killPts", "errorHandler", "fir"}
    BY <2>1 DEF TakesRequests, WindowsOK, RunningPCs, HandlerPCs, TrapOK, TrappedPCs
  <2>3. Fatal(pts.rc) => slw.fir /\ ~slw.terminator
    BY <2>1, <2>2 DEF ReportedOK
  <2> QED BY <2>1, <2>3 DEF ReportedOK, Fatal, SlwType
<1>2. CASE TakeControl
  <2>1. cpu'.pc \in {"enable", "disable"} /\ slw'.wakeup /\ slw'.request = "none"
    BY <1>2, ControlMoves DEF SlwType
  <2> QED BY <2>1 DEF ReportedOK
<1>3. CASE RaiseIdle
  <2>1. UNCHANGED <<cpu, pts>> /\ ~slw.wakeup /\ slw.request = "none"
    BY <1>3 DEF RaiseIdle
  <2>2. slw'.fir = slw.fir /\ slw'.terminator = slw.terminator
    BY <1>3 DEF RaiseIdle, SlwType
  <2> QED BY <2>1, <2>2 DEF ReportedOK, Fatal
<1>4. CASE RaiseControl
  <2>1. slw'.request \in {"enable", "disable"}
    BY <1>4 DEF RaiseControl, SlwType
  <2> QED BY <2>1 DEF ReportedOK
<1>5. CASE IssueCommand \/ CollectResponse \/ Tick \/ Lost \/ UNCHANGED vars
  <2>1. UNCHANGED slw /\ cpu'.pc = cpu.pc /\ pts'.rc = pts.rc
    BY <1>5 DEF IssueCommand, CollectResponse, Tick, Lost, vars, CpuType, PtsType
  <2> QED BY <2>1, ReportedStays
<1> QED BY <1>1, <1>2, <1>3, <1>4, <1>5

LEMMA ReportedRun ==
    ErrorInv /\ ReportedOK /\ (SystemCall \/ MainstoreAtomicAdd \/ MainstoreDefault)
        => ReportedOK'
<1> SUFFICES ASSUME ErrorInv, ReportedOK, SystemCall \/ MainstoreAtomicAdd \/ MainstoreDefault
             PROVE  ReportedOK'
    OBVIOUS
<1> USE DEF ErrorInv, Inv, TypeInv, TypeOK
<1>1. cpu.pc = "thread" /\ UNCHANGED slw
    BY RunMoves
<1>2. pts'.rc = pts.rc
  <2>1. CASE Yield \/ Sleep \/ Suspend \/ ThreadHandlesPibErrors \/ PtsHandlesPibErrors
    <3>1. PICK next, pib, suspend : YieldSleepSuspend(next, pib, suspend)
      BY <2>1, YieldMoves
    <3> QED BY <3>1 DEF YieldSleepSuspend, AtomicViolation, PtsType
  <2>2. CASE Terminate \/ StraySystemCall \/ MainstoreAtomicAdd \/ MainstoreDefault
    BY <2>2 DEF Terminate, StraySystemCall, MainstoreAtomicAdd, MainstoreDefault, PtsType
  <2> QED BY <2>1, <2>2 DEF SystemCall
<1> QED BY <1>1, <1>2, ReportedStays

(* An engine that has halted on a fatal error has told PMC, and does not   *)
(* take PTS up again by itself.                                            *)
THEOREM FatalErrorsAreReported ==
    ASSUME NoDoubleFaults PROVE Spec => []FatalIsReported
<1>1. Init => ErrorInv /\ ReportedOK
  <2>1. Init => pts.rc = 0
    BY DEF Init
  <2> QED BY <2>1, ErrorInvInductive DEF ReportedOK, Fatal
<1>2. (ErrorInv /\ ReportedOK) /\ [Next]_vars => (ErrorInv /\ ReportedOK)'
    BY ErrorInvInductive, ReportedScheduler, ReportedError, ReportedCommand, ReportedSlw,
       ReportedHwError, ReportedEnvironment, ReportedRun DEF Next, EngineStep
<1>3. ErrorInv /\ ReportedOK => FatalIsReported
    BY DEF ReportedOK, FatalIsReported, Fatal
<1> QED BY <1>1, <1>2, <1>3, PTL DEF Spec
=============================================================================
