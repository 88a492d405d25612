------------------------------- MODULE PtsSlw -------------------------------
(***************************************************************************)
(* pts_slw_config.S: how the deep-idle (SLW) application of the engine     *)
(* enables, re-enters and disables PTS, and PTS' error handler there; with *)
(* the PMC, PHYP and the passing of time this completes the specification. *)
(***************************************************************************)
EXTENDS PtsCommand

(***************************************************************************)
(* PMC and PHYP.  PMC writes EXE-Trigger when the engine has halted or has *)
(* set the DONE override; PHYP enables and disables PTS with all cores     *)
(* under special wakeup, as recovery also from a stop, after dealing with  *)
(* FIR bit 38.  There is no idle request until the engine has halted, has  *)
(* signalled through EXE-Trigger that PTS runs, or has set the FIR bit.    *)
(***************************************************************************)
EngineDone == cpu.pc = "halt" \/ cpu.doneOverride

RaiseIdle ==
    /\ slw.request = "none" /\ EngineDone /\ ~slw.wakeup
    /\ slw' = [slw EXCEPT !.request = "idle"]
    /\ UNCHANGED <<cpu, pts, table, thr, phyp>>

RaiseControl == \E r \in {"enable", "disable"} :
    /\ slw.request = "none" /\ cpu.pc # "slw"
    /\ cpu.pc \in {"halt", "stopped"} \/ (cpu.doneOverride /\ ~slw.wakeup)
    /\ slw' = [slw EXCEPT !.request = r, !.fir = FALSE, !.wakeup = TRUE]
    /\ UNCHANGED <<cpu, pts, table, thr, phyp>>

(* The engine starts on the request: the branch table in force decides     *)
(* whether PTS takes the interrupt first.  An SLW transition installs its  *)
(* mask, disables interrupts and loads SPRG0 with core bits.               *)
Vector(c) ==
    IF c.tbar = "pts" THEN PublicFunction(c)
    ELSE cpu' = [Goto(c, c.pc) EXCEPT !.wait = 0] /\ UNCHANGED pts

TakesRequests == cpu.ints \/ cpu.pc \in {"halt", "stopped"}

TakeIdle ==
    /\ slw.request = "idle" /\ TakesRequests /\ cpu.pc # "slw"
    /\ \E mask \in EmrAfter("SLW") :
         Vector([cpu EXCEPT !.pc = "slw", !.emr = mask, !.ints = FALSE, !.sprg0 = "core"])
    /\ slw' = [slw EXCEPT !.request = "none"]
    /\ UNCHANGED <<table, thr, phyp>>

TakeControl ==
    /\ slw.request \in {"enable", "disable"} /\ TakesRequests
    /\ Vector([cpu EXCEPT !.pc = slw.request])
    /\ slw' = [slw EXCEPT !.request = "none", !.wakeup = TRUE]
    /\ UNCHANGED <<table, thr, phyp>>

(* slw_transition: report to PMC, then leave through slw_terminator.       *)
MutantAfterSlw == "entry"
AfterSlw == IF slw.terminator THEN "entry" ELSE "halt"

SlwDone ==
    /\ cpu.pc = "slw"
    /\ cpu' = [cpu EXCEPT !.pc = AfterSlw]
    /\ UNCHANGED <<pts, table, thr, slw, phyp>>

(***************************************************************************)
(* _ptsEnableFromSlw: a reset of the scheduler and of every mapped thread. *)
(***************************************************************************)
EnableFromSlw ==
    /\ cpu.pc = "enable"
    /\ pts' = [pts EXCEPT !.schedulerState = "UNINITIALIZED", !.rc = 0,
                          !.command = NoCommand]
    /\ table' = [s \in Slots |-> IF table[s].thread = NoThread THEN table[s]
                                 ELSE [table[s] EXCEPT !.next = RUNNABLE]]
    /\ thr' = [t \in Threads |-> IF \E s \in Slots : table[s].thread = t
                                 THEN Restarted(thr[t]) ELSE thr[t]]
    /\ slw' = [slw EXCEPT !.terminator = TRUE]
    /\ phyp' = [op |-> "none", stopped |-> FALSE]
    /\ cpu' = [cpu EXCEPT !.pc = "entry"]

(* _ptsDisableFromSlw: PTS is out of the picture.                          *)
DisableFromSlw ==
    /\ cpu.pc = "disable"
    /\ slw' = [slw EXCEPT !.terminator = FALSE, !.wakeup = FALSE]
    /\ pts' = [pts EXCEPT !.schedulerState = "UNINITIALIZED", !.rc = 0]
    /\ \E mask \in EmrAfter("SLW") :
         cpu' = [cpu EXCEPT !.pc = "halt", !.tbar = "slw", !.emr = mask]
    /\ phyp' = [op |-> "none", stopped |-> FALSE]
    /\ UNCHANGED <<table, thr>>

(***************************************************************************)
(* _ptsEntryFromSlw: start PTS if it is not, then hand the engine to the   *)
(* scheduler with the DONE override telling PMC that the request is done.  *)
(***************************************************************************)
EntryStart ==
    /\ cpu.pc = "entry" /\ pts.schedulerState = "UNINITIALIZED"
    /\ \E mask \in EmrAfter("PTS") :
         cpu' = [cpu EXCEPT !.pc = "start", !.tbar = "pts", !.emr = mask]
    /\ UNCHANGED <<pts, table, thr, slw, phyp>>

EntryUnable ==
    /\ cpu.pc = "entry" /\ pts.schedulerState = "UNABLE"
    /\ cpu' = [cpu EXCEPT !.pc = "halt"]
    /\ slw' = [slw EXCEPT !.wakeup = FALSE]
    /\ UNCHANGED <<pts, table, thr, phyp>>

EntrySchedule ==
    /\ cpu.pc = "entry" /\ pts.schedulerState \notin {"UNINITIALIZED", "UNABLE"}
    /\ \E mask \in EmrAfter("PTS") :
         cpu' = [cpu EXCEPT !.pc = "schedule", !.emr = mask, !.ints = FALSE,
                            !.doneOverride = TRUE]
    /\ slw' = [slw EXCEPT !.wakeup = FALSE]
    /\ UNCHANGED <<pts, table, thr, phyp>>

(* _ptsStart after its branch table and mask: is the chip able?            *)
ChipState(able) ==
    IF able THEN [pts EXCEPT !.schedulerState = "STARTED"]
    ELSE [pts EXCEPT !.schedulerState = "UNABLE", !.rc = PTS_NOT_SUPPORTED]

CheckChip ==
    /\ cpu.pc = "start"
    /\ pts' = ChipState(slw.able)
    /\ cpu' = [cpu EXCEPT !.pc = "entry"]
    /\ UNCHANGED <<table, thr, slw, phyp>>

(***************************************************************************)
(* _ptsSlwThreadTerminationHandler: a thread that fails takes PTS down.    *)
(***************************************************************************)
ThreadEnded ==
    /\ cpu.pc = "terminated" /\ thr[cpu.sprg0].rc = 0
    /\ cpu' = [cpu EXCEPT !.pc = "schedule"]
    /\ UNCHANGED <<pts, table, thr, slw, phyp>>

ThreadFailed ==
    /\ cpu.pc = "terminated" /\ thr[cpu.sprg0].rc # 0
    /\ pts' = [pts EXCEPT !.rc = PTS_SLW_THREAD_FAILURE]
    /\ cpu' = [cpu EXCEPT !.pc = "errorHandler"]
    /\ UNCHANGED <<table, thr, slw, phyp>>

(***************************************************************************)
(* _ptsSlwErrorHandler: unlock DBG, disable PTS, set FIR bit 38, then with *)
(* interrupts enabled restore the SLW branch table and mask and halt.      *)
(***************************************************************************)
DisablePts ==
    /\ cpu.pc = "errorHandler"
    /\ cpu' = [cpu EXCEPT !.pc = "fir", !.dbgLocked = FALSE]
    /\ slw' = [slw EXCEPT !.terminator = FALSE]
    /\ UNCHANGED <<pts, table, thr, phyp>>

MutantReported == [slw EXCEPT !.wakeup = FALSE]
Reported == [slw EXCEPT !.fir = TRUE, !.wakeup = FALSE]

SetFir ==
    /\ cpu.pc = "fir"
    /\ slw' = Reported
    /\ pts' = [pts EXCEPT !.schedulerState = "INTERRUPTIBLE"]
    /\ cpu' = [cpu EXCEPT !.pc = "restore", !.ints = TRUE]
    /\ UNCHANGED <<table, thr, phyp>>

RestoreSlw ==
    /\ cpu.pc = "restore"
    /\ cpu' = [cpu EXCEPT !.pc = "halt", !.tbar = "slw", !.emr = "SLW"]
    /\ UNCHANGED <<pts, table, thr, slw, phyp>>

(***************************************************************************)
(* Time passes: every pending wakeup and the wait come closer.  The wait   *)
(* loop does not overshoot its delay.                                      *)
(***************************************************************************)
MutantLater(next) == IF next > 0 THEN next - 1 ELSE next
Later(next) == IF next \in 1 .. MaxSleep THEN next - 1 ELSE next

Tick ==
    /\ \E s \in Slots : table[s].next \in 1 .. MaxSleep
    /\ cpu.pc = "wait" => cpu.wait > 0
    /\ table' = [s \in Slots |-> [table[s] EXCEPT !.next = Later(@)]]
    /\ cpu' = [cpu EXCEPT !.wait = IF @ > 0 THEN @ - 1 ELSE 0]
    /\ UNCHANGED <<pts, thr, slw, phyp>>

(* A branch-to-self, or execution in the weeds, goes on for ever.          *)
Lost == cpu.pc \in {"spin", "wild"} /\ UNCHANGED vars

SlwStep ==
    \/ SlwDone \/ EnableFromSlw \/ DisableFromSlw
    \/ EntryStart \/ EntryUnable \/ EntrySchedule \/ CheckChip
    \/ ThreadEnded \/ ThreadFailed \/ DisablePts \/ SetFir \/ RestoreSlw

EngineStep == SchedulerStep \/ ErrorStep \/ CommandStep \/ SlwStep

Next ==
    \/ EngineStep
    \/ SystemCall \/ MainstoreAtomicAdd \/ MainstoreDefault
    \/ RaiseIdle \/ RaiseControl \/ TakeIdle \/ TakeControl
    \/ IssueCommand \/ CollectResponse
    \/ HwError \/ Tick \/ Lost

Spec == Init /\ [][Next]_vars

(***************************************************************************)
(* Fairness.  The engine executes; a thread makes system calls ("must      *)
(* yield or sleep periodically"); a pending request is taken when the      *)
(* interruptible windows keep opening; idle requests do not arrive at      *)
(* every window, nor errors at every write of the FIR; time passes; PHYP   *)
(* polls the response.                                                     *)
(***************************************************************************)
Fairness ==
    /\ WF_vars(EngineStep) /\ WF_vars(SystemCall)
    /\ SF_vars(TakeIdle \/ TakeControl)
    /\ SF_vars(CloseWindow) /\ SF_vars(PibWindowClose) /\ SF_vars(SetFir)
    /\ WF_vars(Tick) /\ WF_vars(CollectResponse)

FairSpec == Spec /\ Fairness

-----------------------------------------------------------------------------
(* Safety.                                                                 *)

LoopPCs == {"schedule", "command", "open", "window", "scan", "rescan", "wait",
            "pibWindow", "dispatch"}
ThreadPCs == {"thread", "die", "terminated", "kill", "unlock", "blame"}
HandlerPCs == {"killPts", "errorHandler", "fir", "restore"}

(* An interrupt reaches running PTS code only while the scheduler state    *)
(* says INTERRUPTIBLE: otherwise _ptsPublicFunction would treat it as an   *)
(* error recovery and throw away DBG and the stack.                        *)
InterruptsOnlyInWindows ==
    [][slw'.request # slw.request /\ slw'.request = "none"
       /\ cpu.pc \in LoopPCs \cup ThreadPCs \cup HandlerPCs
            => pts.schedulerState = "INTERRUPTIBLE"]_vars

(* The scheduler and its threads run only while slw_terminator holds       *)
(* _ptsEntryFromSlw and PTS' branch table is in force: after a disable, or *)
(* a fatal error, no deep-idle request brings them back.                   *)
PtsRunsOnlyWhenEnabled ==
    cpu.pc \in LoopPCs \cup ThreadPCs => slw.terminator /\ cpu.tbar = "pts"

(* A thread runs under the mask its own flag asks for: PIB errors are      *)
(* masked for the threads that handle them and for no other.               *)
EmrMatchesThread ==
    cpu.pc = "thread" =>
        cpu.emr = IF thr[pts.currentThread].handlesPib THEN "PIB" ELSE "PTS"

(* A fatal error of PTS or of a thread ends in a halt with PMC FIR bit 38  *)
(* set and PTS disabled, unless PHYP has already asked for recovery.       *)
FatalIsReported ==
    cpu.pc = "halt" /\ pts.rc \notin {0, PTS_NOT_SUPPORTED} /\ slw.request \in {"none", "idle"}
        => slw.fir /\ ~slw.terminator

(* A thread that runs is the one its table entry names and that entry is   *)
(* still runnable: no command or error took it off the schedule under it.  *)
RunningIsScheduled ==
    cpu.pc = "thread" =>
        table[SlotOf[pts.currentThread]] = [next |-> RUNNABLE, thread |-> pts.currentThread]

(* Unless scheduling is stopped, the wait never runs past the wakeup of a  *)
(* thread.                                                                 *)
NoOversleep ==
    cpu.pc = "wait" /\ ~pts.stopped => \A s \in Slots : cpu.wait <= table[s].next

(* A saved context is resumed at the address it was saved with, never at   *)
(* the FFDC pattern _ptsKillThread leaves in the PtsThread.                *)
ResumeHasContext ==
    cpu.pc = "dispatch" /\ thr[cpu.sprg0].hasContext => thr[cpu.sprg0].pc = "program"

(* While a command waits in the command field no response is in the        *)
(* response field: a command is answered once, and not before it is taken. *)
AnsweredOnce == pts.command # NoCommand => pts.response = NoResponse

(* Suspended, terminated and killed threads stay off the schedule until a  *)
(* command or an enable puts them back: the special values never age.      *)
UnrunnableStays ==
    [][\A s \in Slots : table[s].next > MaxSleep /\ table'[s].next <= MaxSleep
            => cpu.pc \in {"command", "enable"}]_vars

-----------------------------------------------------------------------------
(* Liveness, under FairSpec.                                               *)

PtsAlive == slw.terminator /\ cpu.pc \in LoopPCs \cup ThreadPCs

(* A request of PMC or PHYP is taken, unless the engine is lost.           *)
RequestServed ==
    slw.request # "none" ~> slw.request = "none" \/ cpu.pc \in {"spin", "wild"}

(* A command to a running PTS is answered, unless PTS goes down.           *)
CommandAnswered ==
    pts.command # NoCommand /\ PtsAlive
        ~> pts.command = NoCommand \/ ~slw.terminator
           \/ cpu.pc \in {"stopped", "spin", "wild"}
=============================================================================
