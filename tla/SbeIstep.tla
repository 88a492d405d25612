------------------------------ MODULE SbeIstep ------------------------------
(***************************************************************************)
(* proc_sbe_enable_seeprom.S, which runs from the OTPROM, and the istep    *)
(* sequence of proc_sbe_istep_seeprom.S: each procedure is called through  *)
(* the .callproc macro, whose prologue and epilogue honour the control     *)
(* word of the procedure.  A halt for the control word is a good halt, and *)
(* a debugger may go on from it.                                           *)
(***************************************************************************)
EXTENDS SbeState

Item == Program[sbe.at]
Control == cfg.control[Item.proc]
Entered(proc) == [proc |-> proc, step |-> 0, halt |-> "FATAL"]

others == <<cfg, ex, mbox, ring, host>>

(***************************************************************************)
(* OTPROM: lock the FSP out of the I2C bus, reset the bus, check the magic *)
(* number of the SEEPROM.                                                  *)
(***************************************************************************)
LockI2c ==
    /\ At("otprom") /\ cfg.i2c # "chip"
    /\ lock' = TRUE
    /\ vital' = [Entered("enable_seeprom") EXCEPT !.step = 1]
    /\ Goto("i2cReset")
    /\ UNCHANGED <<attn, others>>

UnknownChip ==
    /\ At("otprom") /\ cfg.i2c = "chip"
    /\ vital' = Entered("enable_seeprom")
    /\ ErrorHalt("platform")
    /\ UNCHANGED <<lock, attn, others>>

I2cReset ==
    /\ At("i2cReset")
    /\ vital' = [Entered("enable_seeprom") EXCEPT !.step = 2]
    /\ Goto("magic")
    /\ UNCHANGED <<lock, attn, others>>

(* The items an MPIPL passes over are branched around in the sequence.     *)
Called(i) == Program[i].always \/ ~cfg.mpipl
IsNextItem(i, j) ==
    /\ i < j /\ Called(j)
    /\ \A k \in i + 1 .. j - 1 : ~Called(k)

ArriveAt(i) ==
    \/ \E j \in 1 .. Len(Program) :
         /\ IsNextItem(i, j)
         /\ sbe' = [sbe EXCEPT !.at = j,
                               !.pc = IF Program[j].part = "exit" THEN "epilogue" ELSE "prologue"]
    \/ /\ \A j \in 1 .. Len(Program) : ~IsNextItem(i, j)
       /\ sbe' = [sbe EXCEPT !.pc = "end"]

CheckMagic ==
    /\ At("magic")
    /\ IF cfg.i2c = "magic"
       THEN ErrorHalt("platform") /\ UNCHANGED vital
       ELSE /\ vital' = [Entered("enable_seeprom") EXCEPT !.step = 3]
            /\ ArriveAt(0)
    /\ UNCHANGED <<lock, attn, others>>

(***************************************************************************)
(* callproc_prologue.                                                      *)
(***************************************************************************)
GoodHalt(pc) ==
    /\ lock' = FALSE
    /\ vital' = HaltedWell(vital)
    /\ Goto(pc)

MutantContinued(v) == v
Continued(v) == [v EXCEPT !.halt = "FATAL"]

HaltOrNot(flag, halt, next) ==
    IF flag \in Control THEN GoodHalt(halt)
    ELSE Goto(next) /\ UNCHANGED <<lock, vital>>

TrapOrNot(flag, trap, next) ==
    Goto(IF flag \in Control /\ cfg.traps THEN trap ELSE next)

EntryHalt ==
    /\ At("prologue")
    /\ HaltOrNot("entryHalt", "entryHalt", "trapCheck")
    /\ UNCHANGED <<attn, others>>

ContinueEntry ==
    /\ At("entryHalt")
    /\ vital' = Continued(vital)
    /\ Goto("trapCheck")
    /\ UNCHANGED <<lock, attn, others>>

EntryTrap ==
    /\ At("trapCheck")
    /\ TrapOrNot("entryTrap", "entryTrap", "skipCheck")
    /\ UNCHANGED <<vital, lock, attn, others>>

ContinueTrap ==
    /\ sbe.pc \in {"entryTrap", "exitTrap"}
    /\ Goto(IF At("entryTrap") THEN "skipCheck" ELSE "return")
    /\ UNCHANGED <<vital, lock, attn, others>>

(* A procedure that is skipped goes to its own return, where .callproc     *)
(* still runs the epilogue.                                                *)
ReturnOf(i) ==
    IF Program[i].part = "enter"
    THEN CHOOSE j \in 1 .. Len(Program) :
            Program[j].part = "exit" /\ Program[j].proc = Program[i].proc
    ELSE i

Skip ==
    /\ At("skipCheck") /\ "skip" \in Control
    /\ sbe' = [sbe EXCEPT !.pc = "epilogue", !.at = ReturnOf(@)]
    /\ UNCHANGED <<vital, lock, attn, others>>

Enter ==
    /\ At("skipCheck") /\ "skip" \notin Control
    /\ vital' = Entered(Item.proc)
    /\ IF Item.part = "enter" THEN ArriveAt(sbe.at) ELSE Goto("body")
    /\ UNCHANGED <<lock, attn, others>>

(***************************************************************************)
(* callproc_epilogue.  The checks are in the order of the code; the calls  *)
(* before the nest has clocks pass skiperrorchecks.                        *)
(***************************************************************************)
MutantDetected ==
    {a \in attn : \/ a \in {"checkstop", "special"} /\ "xstopDisable" \notin Control
                  \/ a = "recoverable" /\ "recovEnable" \in Control}
Detected ==
    {a \in attn : \/ a = "checkstop" /\ "xstopDisable" \notin Control
                  \/ a = "recoverable" /\ "recovEnable" \in Control
                  \/ a = "special" /\ "spattnDisable" \notin Control}

ExitCheck ==
    /\ At("epilogue")
    /\ IF Item.checks /\ Detected # {}
       THEN ErrorHalt(IF "checkstop" \in Detected THEN "checkstop"
                      ELSE IF "recoverable" \in Detected THEN "recoverable"
                      ELSE "special")
       ELSE Goto("exitCheck")
    /\ UNCHANGED <<vital, lock, attn, others>>

ExitHalt ==
    /\ At("exitCheck")
    /\ HaltOrNot("exitHalt", "exitHalt", "exitTrapCheck")
    /\ UNCHANGED <<attn, others>>

ContinueExit ==
    /\ At("exitHalt")
    /\ vital' = Continued(vital)
    /\ Goto("exitTrapCheck")
    /\ UNCHANGED <<lock, attn, others>>

ExitTrap ==
    /\ At("exitTrapCheck")
    /\ TrapOrNot("exitTrap", "exitTrap", "return")
    /\ UNCHANGED <<vital, lock, attn, others>>

Return ==
    /\ At("return")
    /\ ArriveAt(sbe.at)
    /\ UNCHANGED <<vital, lock, attn, others>>

(* _sbe_seeprom_halt.                                                      *)
Complete ==
    /\ At("end")
    /\ GoodHalt("done")
    /\ UNCHANGED <<attn, others>>

(***************************************************************************)
(* The body of a procedure that has no model of its own: it records steps, *)
(* may be what raises an attention, and returns or stops with an error.    *)
(***************************************************************************)
Modelled == {"tp_chiplet_init1", "check_master", "select_ex", "enable_pnor",
             "ex_host_runtime_scom", "trigger_winkle"}
Body(proc) == At("body") /\ Item.proc = proc
PlainBody == At("body") /\ Item.proc \notin Modelled

(* proc_sbe_lco_loader does not support all EX chiplets at once.           *)
Refused == Item.proc = "lco_loader" /\ sbe.ex = AllEx

UpdateStep == \E step \in Steps :
    /\ PlainBody
    /\ vital' = [vital EXCEPT !.step = step]
    /\ UNCHANGED <<sbe, lock, attn, others>>

BodyReturns ==
    /\ PlainBody /\ ~Refused
    /\ Goto("epilogue")
    /\ UNCHANGED <<vital, lock, attn, others>>

BodyFails ==
    /\ PlainBody
    /\ ErrorHalt("procedure")
    /\ UNCHANGED <<vital, lock, attn, others>>

RaiseAttention == \E a \in Attentions \ attn :
    /\ PlainBody
    /\ attn' = attn \cup {a}
    /\ UNCHANGED <<sbe, vital, lock, others>>

(* tp_chiplet_init1 rewrites FSIGP4, with bit 20 set.                      *)
TpChipletInit1 ==
    /\ Body("tp_chiplet_init1")
    /\ lock' = TRUE
    /\ Goto("epilogue")
    /\ UNCHANGED <<vital, attn, others>>

IstepStep ==
    \/ LockI2c \/ UnknownChip \/ I2cReset \/ CheckMagic
    \/ EntryHalt \/ EntryTrap \/ Skip \/ Enter
    \/ ExitCheck \/ ExitHalt \/ ExitTrap \/ Return \/ Complete
    \/ BodyReturns \/ BodyFails \/ TpChipletInit1

Continue == ContinueEntry \/ ContinueTrap \/ ContinueExit
=============================================================================
