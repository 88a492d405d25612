----------------------------- MODULE SbeMaster ------------------------------
(***************************************************************************)
(* Which chip boots, and with which cores: proc_sbe_check_master.S,        *)
(* proc_sbe_select_ex.S, proc_sbe_enable_pnor.S and the last part of       *)
(* proc_sbe_ex_host_runtime_scom.S.                                        *)
(***************************************************************************)
EXTENDS SbeIstep

(* The boot patterns of the node master bit and the chip position.         *)
IsMaster == \/ ~cfg.nodeMaster /\ cfg.device = "primary"
            \/ cfg.nodeMaster /\ cfg.device = "alternate"

(* check_master_module, called with or without CHECK_MASTER_OVERRIDE.      *)
HasNoCore == IsMaster /\ cfg.cores = {}
MutantIgnoreOverride == "initAllEx"
IgnoreOverride == "ignored"
Overridden(flag) == ~IsMaster /\ cfg.cores # {} /\ flag \in Control

Magic(proc, step) == [proc |-> proc, step |-> step, halt |-> "FATAL"]

MutantSlaveStop(proc) ==
    /\ vital' = HaltedWell(Magic(proc, 1))
    /\ Goto("slaveHalt")
    /\ UNCHANGED <<lock, attn, others>>
SlaveStop(proc) ==
    /\ vital' = HaltedWell(Magic(proc, 1))
    /\ lock' = FALSE
    /\ Goto("slaveHalt")
    /\ UNCHANGED <<attn, others>>

MasterWithoutCore ==
    /\ Body("check_master") \/ Body("enable_pnor")
    /\ HasNoCore
    /\ ErrorHalt("noBootCores")
    /\ UNCHANGED <<vital, lock, attn, others>>

SlaveStops ==
    /\ Body("check_master") /\ ~IsMaster /\ ~Overridden("initAllEx")
    /\ ~cfg.scanService
    /\ SlaveStop("check_master_magic")

SlaveServesScans ==
    /\ Body("check_master") /\ ~IsMaster /\ ~Overridden("initAllEx")
    /\ cfg.scanService
    /\ Goto("scanEntry")
    /\ UNCHANGED <<vital, lock, attn, others>>

TreatedAsMaster ==
    /\ Body("check_master") /\ Overridden("initAllEx")
    /\ Goto("epilogue")
    /\ UNCHANGED <<vital, lock, attn, others>>

(* The BARs of a memory controller are set up unless the boot is cache     *)
(* contained or memory preserving.                                         *)
MasterBoots ==
    /\ Body("check_master") /\ IsMaster /\ ~HasNoCore
    /\ vital' = [vital EXCEPT !.step = 2]
    /\ IF "cacheContained" \in Control \/ cfg.mpipl \/ cfg.mcs # {}
       THEN Goto("epilogue")
       ELSE ErrorHalt("noValidMcs")
    /\ UNCHANGED <<lock, attn, others>>

EnablePnor ==
    /\ Body("enable_pnor") /\ ~HasNoCore
    /\ IF IsMaster \/ Overridden(IgnoreOverride)
       THEN Goto("epilogue") /\ UNCHANGED <<vital, lock, attn, others>>
       ELSE SlaveStop("enable_pnor_magic")

(***************************************************************************)
(* proc_sbe_select_ex: CTR counts down from the last position while the    *)
(* bits of D1 are rotated; sbe.pos is the chiplet whose bit is at the top. *)
(***************************************************************************)
BootCore(c) == c \in cfg.cores \cap cfg.bootCores

SelectAll ==
    /\ Body("select_ex") /\ "initAllEx" \in Control
    /\ sbe' = [sbe EXCEPT !.pc = "epilogue", !.ex = AllEx]
    /\ UNCHANGED <<vital, lock, attn, others>>

SelectOne ==
    /\ Body("select_ex") /\ "initAllEx" \notin Control
    /\ vital' = [vital EXCEPT !.step = 1]
    /\ sbe' = [sbe EXCEPT !.pc = "findFirst", !.ctr = LastPosition, !.pos = 0]
    /\ UNCHANGED <<lock, attn, others>>

(* The bits are rotated, then loop counts and branches back or falls out.  *)
MutantRotate(again, rc) ==
    IF sbe.ctr > 0
    THEN sbe' = [sbe EXCEPT !.pc = again, !.ctr = @ - 1]
    ELSE sbe' = [sbe EXCEPT !.pc = "errorHalt", !.rc = rc, !.pos = @ + 1]
Rotate(again, rc) ==
    IF sbe.ctr > 0
    THEN sbe' = [sbe EXCEPT !.pc = again, !.ctr = @ - 1, !.pos = @ + 1]
    ELSE sbe' = [sbe EXCEPT !.pc = "errorHalt", !.rc = rc, !.pos = @ + 1]

FindFirst ==
    /\ At("findFirst")
    /\ IF BootCore(sbe.pos) THEN Goto("firstFound")
       ELSE Rotate("findFirst", "noBootCores")
    /\ UNCHANGED <<vital, lock, attn, others>>

FirstFound ==
    /\ At("firstFound")
    /\ vital' = [vital EXCEPT !.step = IF cfg.skipFirst THEN 3 ELSE 2]
    /\ Goto(IF cfg.skipFirst THEN "rotateSecond" ELSE "selected")
    /\ UNCHANGED <<lock, attn, others>>

RotateSecond ==
    /\ At("rotateSecond")
    /\ Rotate("findSecond", "noSecondCore")
    /\ UNCHANGED <<vital, lock, attn, others>>

FindSecond ==
    /\ At("findSecond")
    /\ Goto(IF BootCore(sbe.pos) THEN "selected" ELSE "rotateSecond")
    /\ UNCHANGED <<vital, lock, attn, others>>

Selected ==
    /\ At("selected")
    /\ vital' = [vital EXCEPT !.step = 5]
    /\ sbe' = [sbe EXCEPT !.pc = "epilogue", !.ex = LastPosition - sbe.ctr]
    /\ UNCHANGED <<lock, attn, others>>

(* With all EX chiplets initialised SBEVITAL gets the magic istep number.  *)
HostRuntimeScom ==
    /\ Body("ex_host_runtime_scom")
    /\ vital' = IF "initAllEx" \in cfg.control["select_ex"]
                THEN Magic("host_runtime_scom_magic", 0)
                ELSE vital
    /\ Goto("epilogue")
    /\ UNCHANGED <<lock, attn, others>>

TriggerWinkle ==
    /\ Body("trigger_winkle")
    /\ Goto("winkleEntry")
    /\ UNCHANGED <<vital, lock, attn, others>>

MasterStep ==
    \/ MasterWithoutCore \/ SlaveStops \/ SlaveServesScans \/ TreatedAsMaster
    \/ MasterBoots \/ EnablePnor
    \/ SelectAll \/ SelectOne \/ FindFirst \/ FirstFound
    \/ RotateSecond \/ FindSecond \/ Selected
    \/ HostRuntimeScom \/ TriggerWinkle
=============================================================================
