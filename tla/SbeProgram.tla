----------------------------- MODULE SbeProgram -----------------------------
(***************************************************************************)
(* The sequence of .callproc of proc_sbe_istep_seeprom.S, with that of     *)
(* proc_sbe_run_exinit.S in its place.  The letters say how a procedure is *)
(* called: whether its epilogue checks for errors, and whether an MPIPL    *)
(* calls it.                                                               *)
(***************************************************************************)
EXTENDS Sequences

Item(proc, part, checks, always) ==
    [proc |-> proc, part |-> part, checks |-> checks, always |-> always]
Call(proc) == Item(proc, "whole", TRUE, TRUE)
NotInMpipl(proc) == Item(proc, "whole", TRUE, FALSE)
Unchecked(proc) == Item(proc, "whole", FALSE, TRUE)
UncheckedNotInMpipl(proc) == Item(proc, "whole", FALSE, FALSE)

TpPart ==
    <<Unchecked("security_setup"), Unchecked("standalone_setup"),
      UncheckedNotInMpipl("tp_chiplet_init1"), Unchecked("tp_ld_image"),
      UncheckedNotInMpipl("npll_initf"), UncheckedNotInMpipl("npll_setup"),
      UncheckedNotInMpipl("tp_switch_gears"), UncheckedNotInMpipl("tp_chiplet_init2"),
      UncheckedNotInMpipl("tp_arrayinit"), UncheckedNotInMpipl("tp_initf"),
      NotInMpipl("tp_chiplet_init3")>>

NestPart ==
    <<Call("chiplet_init"), NotInMpipl("nest_skewadjust"), NotInMpipl("arrayinit"),
      Call("setup_evid"), Call("initf"), NotInMpipl("pb_startclocks"),
      Call("scominit"), NotInMpipl("fabricinit"),
      Call("check_master"), Call("select_ex")>>

(* proc_sbe_run_exinit: the SBE never takes the exits of the sleep flow.   *)
ExPart ==
    <<Call("ex_chiplet_reset"), Call("ex_gptr_time_initf"),
      Call("ex_core_gptr_time_initf"), Call("ex_dpll_initf"), Call("ex_dpll_setup"),
      Call("ex_chiplet_init"), Call("ex_repair_initf"), Call("ex_core_repair_initf"),
      Call("ex_arrayinit"), Call("ex_initf"), Call("ex_core_initf"),
      Call("ex_do_manual_inits"), Call("ex_startclocks"), Call("ex_scominit"),
      Call("ex_core_scominit"), Call("ex_init_escape"), Call("ex_sp_runtime_scom"),
      Call("ex_occ_runtime_scom"), Call("ex_host_runtime_scom")>>

HostPart ==
    <<Call("enable_pnor"), Call("lco_loader"), Call("instruct_start"),
      Call("trigger_winkle")>>

SeepromProgram ==
    TpPart \o NestPart
    \o <<Item("run_exinit", "enter", TRUE, TRUE)>> \o ExPart
    \o <<Item("run_exinit", "exit", TRUE, TRUE)>> \o HostPart

(* The part that the choice of a core, the handshake and the services use. *)
HandshakeProgram == <<Call("check_master"), Call("select_ex")>> \o HostPart
=============================================================================
