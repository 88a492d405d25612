------------------------------- MODULE MCSbe --------------------------------
(***************************************************************************)
(* Instances of Sbe: the whole boot with many configurations, and the      *)
(* handshake with the services.                                            *)
(***************************************************************************)
EXTENDS Sbe, TLC

LOCAL P == INSTANCE SbeProgram
BootProgram == P!SeepromProgram
ServiceProgram == P!HandshakeProgram

Names(program) == {program[i].proc : i \in 1 .. Len(program)}

(* An ordinary master.                                                     *)
Normal(program) ==
    [control |-> [p \in Names(program) |-> {}], traps |-> FALSE, mpipl |-> FALSE,
     i2c |-> "good", nodeMaster |-> FALSE, skipFirst |-> FALSE, device |-> "primary",
     cores |-> {0, 2}, bootCores |-> 0 .. 2, mcs |-> {"mcl"}, scanService |-> FALSE,
     skipIntr |-> FALSE, host |-> FALSE, mayHang |-> FALSE]
With(program, proc, flags) == [Normal(program) EXCEPT !.control[proc] = flags]

(* Which chip it is, and what it has.                                      *)
Chips ==
    {[Normal(BootProgram) EXCEPT !.nodeMaster = n, !.device = d, !.cores = c,
                                 !.bootCores = b, !.skipFirst = s, !.mpipl = m, !.mcs = mc] :
        n \in BOOLEAN, d \in {"primary", "alternate", "other"},
        c \in {{}, {1}, {0, 2}}, b \in {0 .. 2, {1, 2}}, s \in BOOLEAN,
        m \in BOOLEAN, mc \in {{}, {"mcl"}}}

(* Control words: halts, traps, skips, masks and overrides.                *)
ControlWords ==
    {[With(BootProgram, proc, flags) EXCEPT !.traps = t] :
        proc \in {"tp_chiplet_init1", "tp_chiplet_init3", "run_exinit", "ex_initf",
                  "lco_loader", "instruct_start"},
        flags \in {{"entryHalt", "exitHalt"}, {"entryHalt", "entryTrap"},
                   {"exitTrap"}, {"skip"}, {"skip", "entryHalt"},
                   {"xstopDisable"}, {"spattnDisable"}, {"recovEnable"}},
        t \in BOOLEAN}
Overrides ==
    {[With(BootProgram, proc, {flag}) EXCEPT !.device = d] :
        proc \in {"check_master", "select_ex", "enable_pnor"},
        flag \in {"initAllEx", "cacheContained", "skip"}, d \in {"primary", "other"}}
    \cup {[Normal(BootProgram) EXCEPT !.device = "other", !.scanService = s,
              !.control["check_master"] = {"initAllEx"},
              !.control["enable_pnor"] = {"initAllEx"} \cup k] :
              s \in BOOLEAN, k \in {{}, {"skip"}}}
Bad == {[Normal(BootProgram) EXCEPT !.i2c = i] : i \in {"chip", "magic"}}
NoWinkle == {With(BootProgram, "trigger_winkle", {"skip"})}

BootConfigs == Chips \cup ControlWords \cup Overrides \cup Bad \cup NoWinkle

SkipConfigs == {With(BootProgram, "tp_chiplet_init3", {"skip"})}

(* Boots with Hostboot, and a slave that serves scans.                     *)
Service == [Normal(ServiceProgram) EXCEPT !.host = TRUE]
ServiceConfigs ==
    {[Service EXCEPT !.cores = c, !.mayHang = m, !.skipIntr = s] :
        c \in {{1}, {0, 2}}, m \in BOOLEAN, s \in BOOLEAN}
    \cup {[Service EXCEPT !.control["trigger_winkle"] = {"skipIpi"}],
          [Service EXCEPT !.control["select_ex"] = {"initAllEx"},
                             !.control["lco_loader"] = {"skip"}, !.mayHang = TRUE],
          [Service EXCEPT !.device = "other", !.scanService = TRUE]}

(* Offset 0, the header, is that of a table nobody has customised.         *)
Length == [r \in {"abus", "pci", "dmi"} |-> 5]
Table == [abus |-> [op \in {3, 4} |-> [bus \in 0 .. 2 |-> IF bus = 1 THEN 0 ELSE op]],
          pci  |-> [op \in {} |-> <<>>],
          dmi  |-> [op \in {3, 4} |-> [bus \in 0 .. 7 |-> 3]]]
=============================================================================
