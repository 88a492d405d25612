------------------------------ MODULE PtsError ------------------------------
(***************************************************************************)
(* pts_error.S: errors and interrupts that arrive through PTS' public      *)
(* branch table, and the routines that kill a thread or PTS itself.        *)
(***************************************************************************)
EXTENDS PtsScheduler

(* The error logic stops the engine; DBG0/1 hold the error from now on.    *)
StopEngine ==
    /\ cpu' = [Goto(cpu, "stopped") EXCEPT !.dbgLocked = TRUE, !.wait = 0]
    /\ UNCHANGED pts

(***************************************************************************)
(* errorN: a non-null current thread gets the blame, otherwise PTS.        *)
(***************************************************************************)
Blame(n) ==
    IF pts.currentThread # NoThread
    THEN [pc |-> "kill", thread |-> pts.currentThread, code |-> PTS_THREAD_ERROR(n)]
    ELSE [pc |-> "killPts", thread |-> NoThread, code |-> PTS_ERROR(n)]

(* _ptsPublicError with PTS running: leave the atomic mode, parking the    *)
(* branch address in SPRG0 meanwhile, and vector to errorN.                *)
PublicError(n) ==
    /\ cpu' = [cpu EXCEPT !.pc = Blame(n).pc, !.thread = Blame(n).thread,
                          !.code = Blame(n).code, !.dbgLocked = TRUE,
                          !.sprg0 = IF pts.atomic THEN "branch" ELSE @]
    /\ pts' = [pts EXCEPT !.atomic = FALSE]

(***************************************************************************)
(* What an error does depends on the mask in force, on DBG (a second error *)
(* is error 4, on which every PTS mask stops the engine) and on whom the   *)
(* scheduler state says it is for: the interrupt task's errors go to       *)
(* slw_error_n, which requests a halt.                                     *)
(***************************************************************************)
Error(n) ==
    IF \/ cpu.emr = "SLW" \/ cpu.dbgLocked
       \/ cpu.tbar = "slw" \/ pts.schedulerState = "INTERRUPTIBLE"
    THEN StopEngine
    ELSE PublicError(n)

(* Execute-phase PIB errors (error 0) need a PIB access: the TOD reads of  *)
(* the scheduler, the device id, the PMC FIR, or code outside PTS.         *)
PibPCs == {"scan", "rescan", "thread", "start", "fir", "slw", "enable"}
Executing == cpu.pc \notin {"halt", "stopped", "spin", "wild"}

HwError == \E n \in Errors :
    /\ Executing
    /\ n = 0 => cpu.pc \in PibPCs /\ cpu.emr # "PIB"
    /\ DoubleFaults \/ ~cpu.dbgLocked
    /\ Error(n)
    /\ UNCHANGED <<table, thr, slw, phyp>>

(***************************************************************************)
(* _ptsKillThread: forget the current thread and overwrite its context     *)
(* with FFDC, unlock DBG, then let the thread's error 0 handler run or     *)
(* have the thread taken off the schedule.                                 *)
(***************************************************************************)
KillThread ==
    /\ cpu.pc = "kill"
    /\ pts' = [pts EXCEPT !.currentThread = NoThread, !.schedulerState = "THREAD_ERROR"]
    /\ thr' = [thr EXCEPT ![cpu.thread].pc = "ffdc"]
    /\ cpu' = [cpu EXCEPT !.pc = "unlock"]
    /\ UNCHANGED <<table, slw, phyp>>

UnlockDbg ==
    /\ cpu.pc = "unlock"
    /\ cpu' = [cpu EXCEPT !.pc = "blame", !.dbgLocked = FALSE]
    /\ UNCHANGED <<pts, table, thr, slw, phyp>>

HandlesError0(t, code) ==
    code = PTS_THREAD_ERROR(0) /\ t \in Error0Handlers /\ ~pts.handlingError0

EnterError0Handler ==
    /\ cpu.pc = "blame" /\ HandlesError0(cpu.thread, cpu.code)
    /\ pts' = [pts EXCEPT !.currentThread = cpu.thread, !.handlingError0 = TRUE]
    /\ cpu' = Goto(cpu, "thread")
    /\ UNCHANGED <<table, thr, slw, phyp>>

Dead(th) == [th EXCEPT !.ptsRc = cpu.code, !.rc = -1]

RecordDeath ==
    /\ cpu.pc = "blame" /\ ~HandlesError0(cpu.thread, cpu.code)
    /\ thr' = [thr EXCEPT ![cpu.thread] = Dead(@)]
    /\ cpu' = [cpu EXCEPT !.pc = "die", !.code = KILLED]
    /\ UNCHANGED <<pts, table, slw, phyp>>

(* _ptsKillPts, with its provision for an injected double fault.           *)
KillPts ==
    /\ cpu.pc = "killPts"
    /\ pts' = [pts EXCEPT !.rc = cpu.code, !.schedulerState = "PTS_ERROR"]
    /\ cpu' = IF pts.command.op = "doubleFault"
              THEN [Goto(cpu, "stopped") EXCEPT !.dbgLocked = TRUE]
              ELSE Goto(cpu, "errorHandler")
    /\ UNCHANGED <<table, thr, slw, phyp>>

(***************************************************************************)
(* _ptsPublicFunction: an interrupt clears the DONE override and goes to   *)
(* the interrupt task under that task's mask.  When PTS was not            *)
(* interruptible this is taken for error recovery: the state is forced to  *)
(* INTERRUPTIBLE and DBG is unlocked.                                      *)
(***************************************************************************)
Interrupted(c, mask) ==
    [Goto(c, c.pc) EXCEPT
        !.emr = mask, !.wait = 0, !.doneOverride = FALSE,
        !.dbgLocked = @ /\ pts.schedulerState = "INTERRUPTIBLE"]

PublicFunction(c) ==
    /\ \E mask \in EmrAfter("SLW") : cpu' = Interrupted(c, mask)
    /\ pts' = [pts EXCEPT !.schedulerState = "INTERRUPTIBLE"]

ErrorStep == \/ KillThread \/ UnlockDbg \/ EnterError0Handler \/ RecordDeath \/ KillPts
=============================================================================
