---------------------------- MODULE PtsScheduler ----------------------------
(***************************************************************************)
(* pts.S: the scheduling loop and the system calls of a thread.  The       *)
(* engine runs with interrupts disabled except in the two windows where it *)
(* may change its error mask and in the wait loop.                         *)
(***************************************************************************)
EXTENDS PtsState

(***************************************************************************)
(* _ptsSchedule, steps 1 to 3: forget the current thread and the flags,    *)
(* then process a command if there is one.                                 *)
(***************************************************************************)
MutantAfterEnter == "open"
AfterEnter == IF pts.command = NoCommand THEN "open" ELSE "command"

EnterScheduler ==
    [pts EXCEPT !.schedulerState = "SCHEDULING", !.currentThread = NoThread,
                !.atomic = FALSE, !.handlingError0 = FALSE]

Schedule ==
    /\ cpu.pc = "schedule"
    /\ pts' = EnterScheduler
    /\ cpu' = [cpu EXCEPT !.pc = AfterEnter]
    /\ UNCHANGED <<table, thr, slw, phyp>>

(* Step 4: the window in which a pending interrupt fires and PTS' error    *)
(* mask is installed.                                                      *)
MutantWindowCpu == [cpu EXCEPT !.pc = "window"]
WindowCpu == [cpu EXCEPT !.pc = "window", !.ints = TRUE]

OpenWindow ==
    /\ cpu.pc = "open"
    /\ cpu' = WindowCpu
    /\ pts' = [pts EXCEPT !.schedulerState = "INTERRUPTIBLE"]
    /\ UNCHANGED <<table, thr, slw, phyp>>

MutantClosedCpu == [cpu EXCEPT !.pc = "scan", !.emr = "PTS"]
ClosedCpu == [cpu EXCEPT !.pc = "scan", !.emr = "PTS", !.ints = FALSE]

CloseWindow ==
    /\ cpu.pc = "window"
    /\ cpu' = ClosedCpu
    /\ pts' = [pts EXCEPT !.schedulerState = "SCHEDULING"]
    /\ UNCHANGED <<table, thr, slw, phyp>>

(* Steps 8 and 9: wait, interruptible, for a delay already bounded by      *)
(* maxWait.                                                                *)
Wait(delay) ==
    /\ cpu' = [cpu EXCEPT !.pc = "wait", !.wait = delay, !.ints = TRUE]
    /\ pts' = [pts EXCEPT !.schedulerState = "INTERRUPTIBLE"]

(* Step 5.                                                                 *)
ScanStopped ==
    /\ cpu.pc = "scan" /\ pts.stopped
    /\ Wait(MaxWait)
    /\ UNCHANGED <<table, thr, slw, phyp>>

(***************************************************************************)
(* _ptsResumeThread up to the dispatch: the thread becomes current, and if *)
(* it handles its own PIB errors a window opens to install its error mask. *)
(***************************************************************************)
ResumeThread(t) ==
    IF thr[t].handlesPib
    THEN /\ cpu' = [cpu EXCEPT !.pc = "pibWindow", !.sprg0 = t, !.ints = TRUE]
         /\ pts' = [pts EXCEPT !.currentThread = t, !.schedulerState = "INTERRUPTIBLE"]
    ELSE /\ cpu' = [cpu EXCEPT !.pc = "dispatch", !.sprg0 = t]
         /\ pts' = [pts EXCEPT !.currentThread = t]

(***************************************************************************)
(* Step 6: resume the first thread whose time has come.  A runnable entry  *)
(* without a thread that is passed on the way is marked terminated.        *)
(***************************************************************************)
MutantRunnable(s) == table[s].next <= FORCE_SUSPENDED
Runnable(s) == table[s].next = RUNNABLE
Ready(s) == Runnable(s) /\ table[s].thread # NoThread

IsFirstReady(s) == Ready(s) /\ \A r \in Slots : Ready(r) => s <= r

RetireEmpty(n) ==
    [s \in Slots |-> IF s < n /\ Runnable(s)
                     THEN [table[s] EXCEPT !.next = TERMINATED]
                     ELSE table[s]]

ScanFound(s) ==
    /\ cpu.pc = "scan" /\ ~pts.stopped
    /\ IsFirstReady(s)
    /\ table' = RetireEmpty(s)
    /\ ResumeThread(table[s].thread)
    /\ UNCHANGED <<thr, slw, phyp>>

ScanNone ==
    /\ cpu.pc = "scan" /\ ~pts.stopped
    /\ \A s \in Slots : ~Ready(s)
    /\ table' = RetireEmpty(NSlots)
    /\ cpu' = [cpu EXCEPT !.pc = "rescan"]
    /\ UNCHANGED <<pts, thr, slw, phyp>>

(***************************************************************************)
(* Steps 7 and 8: the delay to the earliest next schedule time, at most    *)
(* maxWait.  Time has passed since the scan, so a thread may be ready.     *)
(***************************************************************************)
IsMinNext(d) ==
    /\ \A s \in Slots : d <= table[s].next
    /\ \E s \in Slots : d = table[s].next

MutantMaxDelay(d) == IF d > MaxWait THEN d ELSE MaxWait
BoundedDelay(d) == IF d < MaxWait THEN d ELSE MaxWait

RescanReady ==
    /\ cpu.pc = "rescan"
    /\ IsMinNext(0)
    /\ cpu' = [cpu EXCEPT !.pc = "schedule"]
    /\ UNCHANGED <<pts, table, thr, slw, phyp>>

RescanWait ==
    /\ cpu.pc = "rescan"
    /\ \E d \in Nexts \ {0} : IsMinNext(d) /\ Wait(BoundedDelay(d))
    /\ UNCHANGED <<table, thr, slw, phyp>>

(* Step 10.  The shift-and-subtract division errs on the short side, so    *)
(* the loop may end before the delay is over.                              *)
WaitDone ==
    /\ cpu.pc = "wait"
    /\ cpu' = [cpu EXCEPT !.pc = "schedule", !.wait = 0, !.ints = FALSE]
    /\ UNCHANGED <<pts, table, thr, slw, phyp>>

(* _ptsResumeThread: the second window, then the dispatch.                 *)
PibWindowClose ==
    /\ cpu.pc = "pibWindow"
    /\ cpu' = [cpu EXCEPT !.pc = "dispatch", !.emr = "PIB", !.ints = FALSE]
    /\ UNCHANGED <<pts, table, thr, slw, phyp>>

(* Without a context the thread is restarted at its entry point.           *)
MutantRestarted(th) == [th EXCEPT !.rc = 0, !.ptsRc = 0]
Restarted(th) == [th EXCEPT !.hasContext = FALSE, !.handlesPib = FALSE,
                            !.rc = 0, !.ptsRc = 0]

Dispatch ==
    /\ cpu.pc = "dispatch"
    /\ cpu' = [cpu EXCEPT !.pc = "thread"]
    /\ pts' = [pts EXCEPT !.schedulerState = "THREAD"]
    /\ LET t == cpu.sprg0
       IN thr' = IF thr[t].hasContext THEN thr ELSE [thr EXCEPT ![t] = Restarted(@)]
    /\ UNCHANGED <<table, slw, phyp>>

(***************************************************************************)
(* System calls.  They find the thread through SPRG0; when SPRG0 does not  *)
(* hold the thread that runs, they write through a stray pointer.          *)
(***************************************************************************)
InThread == cpu.pc = "thread" /\ cpu.sprg0 = pts.currentThread

StraySystemCall ==
    /\ cpu.pc = "thread" /\ cpu.sprg0 # pts.currentThread
    /\ cpu' = [cpu EXCEPT !.pc = "wild"]
    /\ UNCHANGED <<pts, table, thr, slw, phyp>>

(* _ptsThreadAtomicViolation: mainstore back to default, then the thread   *)
(* in SPRG0 dies.                                                          *)
AtomicViolation ==
    /\ cpu' = [cpu EXCEPT !.pc = "kill", !.thread = cpu.sprg0,
                          !.code = PTS_THREAD_ATOMIC_VIOLATION]
    /\ pts' = [pts EXCEPT !.atomic = FALSE]

(***************************************************************************)
(* _ptsYieldSleepSuspend, from a system call that has stored the           *)
(* continuation address and left pib as the HANDLES_PIB_ERRORS flag.       *)
(***************************************************************************)
YieldSleepSuspend(next, pib, suspend) ==
    LET t == cpu.sprg0
    IN  /\ table' = [table EXCEPT ![SlotOf[t]].next = next]
        /\ thr' = [thr EXCEPT ![t].pc = "program", ![t].handlesPib = pib,
                              ![t].hasContext = @ \/ ~pts.atomic]
        /\ IF pts.atomic
           THEN AtomicViolation
           ELSE /\ cpu' = IF suspend
                          THEN [cpu EXCEPT !.pc = "die", !.thread = t, !.code = SUSPENDED]
                          ELSE [cpu EXCEPT !.pc = "schedule"]
                /\ UNCHANGED pts
        /\ UNCHANGED <<slw, phyp>>

HandlesPib == thr[cpu.sprg0].handlesPib

Yield == InThread /\ YieldSleepSuspend(RUNNABLE, HandlesPib, FALSE)
(* _ptsSleep and _ptsSleepAbsolute: a wakeup time at or after now.         *)
Sleep == \E next \in 0 .. MaxSleep :
            InThread /\ YieldSleepSuspend(next, HandlesPib, FALSE)
Suspend == InThread /\ YieldSleepSuspend(SUSPENDED, HandlesPib, TRUE)
ThreadHandlesPibErrors ==
    InThread /\ cpu.sprg0 \in PibThreads /\ YieldSleepSuspend(RUNNABLE, TRUE, FALSE)
PtsHandlesPibErrors ==
    InThread /\ cpu.sprg0 \in PibThreads /\ YieldSleepSuspend(RUNNABLE, FALSE, FALSE)

Terminate == \E rc \in ThreadRcs :
    /\ InThread
    /\ thr' = [thr EXCEPT ![cpu.sprg0].rc = rc]
    /\ cpu' = [cpu EXCEPT !.pc = "die", !.thread = cpu.sprg0, !.code = TERMINATED]
    /\ UNCHANGED <<pts, table, slw, phyp>>

(* ptsMainstoreAtomicAdd stores the flag word, and with it clears          *)
(* HANDLING_ERROR0; ptsMainstoreDefault clears its own bit only.           *)
MainstoreAtomicAdd ==
    /\ InThread /\ cpu.sprg0 \in AtomicThreads /\ ~pts.atomic
    /\ pts' = [pts EXCEPT !.atomic = TRUE, !.handlingError0 = FALSE]
    /\ UNCHANGED <<cpu, table, thr, slw, phyp>>

MainstoreDefault ==
    /\ InThread /\ pts.atomic
    /\ pts' = [pts EXCEPT !.atomic = FALSE]
    /\ UNCHANGED <<cpu, table, thr, slw, phyp>>

(***************************************************************************)
(* _ptsTerminateSuspendDie: take the thread in A0 off the schedule with    *)
(* the code in D0 and call the engine's termination handler for the        *)
(* thread in SPRG0.  A termination handler fetched through a stray SPRG0   *)
(* is a wild branch; no SLW thread declares one of its own.                *)
(***************************************************************************)
MutantFlagsOfDead(th, code) == [th EXCEPT !.hasContext = (code = SUSPENDED)]
FlagsOfDead(th, code) ==
    [th EXCEPT !.hasContext = (code = SUSPENDED),
               !.handlesPib = @ /\ (code = SUSPENDED)]

TerminateSuspendDie ==
    /\ cpu.pc = "die"
    /\ LET t == cpu.thread
       IN /\ table' = [table EXCEPT ![SlotOf[t]].next = cpu.code]
          /\ thr' = [thr EXCEPT ![t] = FlagsOfDead(@, cpu.code)]
    /\ IF pts.atomic
       THEN AtomicViolation
       ELSE IF cpu.sprg0 \in Threads
            THEN /\ cpu' = Goto(cpu, "terminated")
                 /\ pts' = [pts EXCEPT !.currentThread = NoThread]
            ELSE /\ cpu' = Goto(cpu, "wild")
                 /\ UNCHANGED pts
    /\ UNCHANGED <<slw, phyp>>

(* What a thread does while it runs.                                       *)
SystemCall == \/ Yield \/ Sleep \/ Suspend \/ Terminate
              \/ ThreadHandlesPibErrors \/ PtsHandlesPibErrors
              \/ StraySystemCall

SchedulerStep ==
    \/ Schedule \/ OpenWindow \/ CloseWindow
    \/ ScanStopped \/ (\E s \in Slots : ScanFound(s)) \/ ScanNone
    \/ RescanReady \/ RescanWait \/ WaitDone
    \/ PibWindowClose \/ Dispatch \/ TerminateSuspendDie
=============================================================================
