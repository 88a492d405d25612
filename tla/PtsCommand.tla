----------------------------- MODULE PtsCommand -----------------------------
(***************************************************************************)
(* pts_command.S: _ptsCommand, which the scheduling loop calls when the    *)
(* command field of PtsState is not 0.  It clears the field and leaves a   *)
(* response in PtsState, except for the commands that inject an error.     *)
(***************************************************************************)
EXTENDS PtsError

MutantAnswered(p, response) == [p EXCEPT !.response = response]
Answered(p, response) == [p EXCEPT !.command = NoCommand, !.response = response]

Finish(p, response) ==
    /\ pts' = Answered(p, response)
    /\ cpu' = [cpu EXCEPT !.pc = "open"]
    /\ UNCHANGED <<thr, slw, phyp>>

InCommand(ops) == cpu.pc = "command" /\ pts.command.op \in ops

(* PTS_START_PTS and PTS_STOP_PTS set the scheduler state and clear RC.    *)
StartPts ==
    /\ InCommand({"start"})
    /\ Finish([pts EXCEPT !.schedulerState = "SCHEDULING", !.rc = 0], 0)
    /\ UNCHANGED table

StopPts ==
    /\ InCommand({"stop"})
    /\ Finish([pts EXCEPT !.schedulerState = "STOPPED", !.rc = 0], 0)
    /\ UNCHANGED table

(* _ptsThreadExists: 0, or why the slot a command names is refused.        *)
ThreadExists(prio) ==
    IF prio >= NSlots THEN INVALID_PRIORITY
    ELSE IF table[prio].thread = NoThread THEN THREAD_NOT_FOUND
    ELSE 0

(* The commands on a thread rewrite its table entry.  TERMINATE stores 0   *)
(* at the flags' offset from A1, which still points to the table entry:    *)
(* what it clears is the entry's thread pointer.                           *)
CommandedEntry(op, entry) ==
    CASE op = "schedule"  -> [entry EXCEPT !.next = RUNNABLE]
      [] op = "suspend"   -> [entry EXCEPT !.next = FORCE_SUSPENDED]
      [] op = "terminate" -> [next |-> FORCE_TERMINATED, thread |-> NoThread]
      [] op = "remove"    -> [next |-> TERMINATED, thread |-> NoThread]

CommandThread ==
    /\ InCommand(ThreadOps)
    /\ LET c == pts.command
       IN /\ table' = IF ThreadExists(c.prio) = 0
                      THEN [table EXCEPT ![c.prio] = CommandedEntry(c.op, @)]
                      ELSE table
          /\ Finish(pts, ThreadExists(c.prio))

InvalidCommand ==
    /\ InCommand({"invalid"})
    /\ Finish(pts, INVALID_COMMAND)
    /\ UNCHANGED table

(***************************************************************************)
(* Error injection raises the error in place.  A SCOM error is not trapped *)
(* while the mask of a thread that handles PIB errors is still in force:   *)
(* the branch-to-self that follows is reached.                             *)
(***************************************************************************)
InjectedError(op) ==
    CASE op = "scomError" -> 0
      [] op = "ociError"  -> 1
      [] op \in {"instructionError", "doubleFault"} -> 2

InjectError ==
    /\ InCommand({"scomError", "ociError", "instructionError", "doubleFault"})
    /\ ~(pts.command.op = "scomError" /\ cpu.emr = "PIB")
    /\ LET left == IF pts.command.op = "doubleFault" THEN pts.command ELSE NoCommand
           n == InjectedError(pts.command.op)
       IN IF cpu.emr = "SLW" \/ cpu.dbgLocked
          THEN /\ cpu' = [Goto(cpu, "stopped") EXCEPT !.dbgLocked = TRUE]
               /\ pts' = [pts EXCEPT !.command = left]
          ELSE /\ cpu' = [cpu EXCEPT !.pc = "killPts", !.code = PTS_ERROR(n),
                                     !.dbgLocked = TRUE]
               /\ pts' = [pts EXCEPT !.command = left]
    /\ UNCHANGED <<table, thr, slw, phyp>>

InjectUndetected ==
    /\ InCommand({"scomError"}) /\ cpu.emr = "PIB"
    /\ cpu' = [cpu EXCEPT !.pc = "spin"]
    /\ pts' = [pts EXCEPT !.command = NoCommand]
    /\ UNCHANGED <<table, thr, slw, phyp>>

CommandStep == \/ StartPts \/ StopPts \/ CommandThread \/ InvalidCommand
               \/ InjectError \/ InjectUndetected

(***************************************************************************)
(* PHYP's side of the interface: it serialises its commands, and sets the  *)
(* response field to -1 before it issues the next one.                     *)
(***************************************************************************)
IssueCommand == \E c \in Commands :
    /\ slw.terminator /\ phyp.op = "none"
    /\ pts' = [pts EXCEPT !.command = c, !.response = NoResponse]
    /\ phyp' = [phyp EXCEPT !.op = c.op]
    /\ UNCHANGED <<cpu, table, thr, slw>>

CollectResponse ==
    /\ phyp.op # "none" /\ pts.response # NoResponse
    /\ pts' = [pts EXCEPT !.response = NoResponse]
    /\ phyp' = [op |-> "none",
                stopped |-> \/ phyp.op = "stop"
                            \/ phyp.stopped /\ phyp.op # "start"]
    /\ UNCHANGED <<cpu, table, thr, slw>>
=============================================================================
