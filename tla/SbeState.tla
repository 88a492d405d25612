------------------------------ MODULE SbeState ------------------------------
(***************************************************************************)
(* The state of the Self Boot Engine (SBE) and of what it shares with the  *)
(* rest of the system: SBEVITAL, the I2C lock, the attention lines, the    *)
(* EX chiplets, the mailboxes and the PLL rings.  A control word is the    *)
(* set of its flags; a configuration holds all that is set before power-on *)
(* and only read by the SBE.                                               *)
(***************************************************************************)
EXTENDS Integers, Sequences, FiniteSets

CONSTANTS
    Program,       \* the .callproc items of _sbe_seeprom_start, in order
    Configs,       \* the configurations considered
    LastPosition,  \* POSITIONS_TO_CHECK: the last EX chiplet position
    Steps,         \* bound: the steps a procedure without a model records
    DeadmanCount,  \* polls before the deadman timer expires
    PhaseMax,      \* polls a chiplet or Hostboot that works needs for a phase
    MaxCount,      \* bound: the loop count of an interrupt request
    Rings,         \* "abus", "pci", "dmi": the rings that are scanned for
    Operations,    \* bound: the operations asked of the scan service
    Buses,         \* bound: the bus numbers asked of the scan service
    RingLength,    \* the length of each ring in the image
    ModOffset,     \* the tables of bit offsets, by ring, operation and bus
    MaxRotate      \* MAX_ROTATE_BITS

Positions == 0 .. LastPosition
AllEx == LastPosition + 1    \* P0 names the multicast group of all
NoEx == LastPosition + 2     \* P0 names no EX chiplet yet

(* Parts of an item: a procedure that calls others is entered and exited.  *)
Parts == {"whole", "enter", "exit"}
Procs == {Program[i].proc : i \in 1 .. Len(Program)}

Flags == {"skip", "entryHalt", "entryTrap", "exitHalt", "exitTrap",
          "xstopDisable", "recovEnable", "spattnDisable",
          "initAllEx", "cacheContained", "skipIpi"}
Attentions == {"checkstop", "recoverable", "special"}

ConfigType ==
    [control : [Procs -> SUBSET Flags],
     traps : BOOLEAN,                     \* are traps enabled in the engine?
     mpipl : BOOLEAN,                     \* memory preserving IPL
     i2c : {"chip", "magic", "good"},     \* does the OTPROM code find both?
     nodeMaster : BOOLEAN,                \* SBEVITAL(10)
     skipFirst : BOOLEAN,                 \* SBEVITAL(9)
     device : {"primary", "alternate", "other"},
     cores : SUBSET Positions,            \* the EX chiplets that are good
     bootCores : SUBSET Positions,        \* valid_boot_cores_mask
     mcs : SUBSET {"mcr", "mcl"},         \* memory controllers there are
     scanService : BOOLEAN,               \* secure mode or mailbox bit 24
     skipIntr : BOOLEAN,                  \* mailbox bit 25
     host : BOOLEAN,                      \* does Hostboot run?
     mayHang : BOOLEAN]                   \* may a chiplet or Hostboot hang?

(* Substeps of proc_sbe_trigger_winkle, proc_sbe_scan_service and          *)
(* proc_sbe_intr_service.                                                  *)
SBE_READY           == 1
DEADMAN_START       == 2
WAITING_FOR_WINKLE  == 3
WAITING_FOR_WAKEUP  == 4
WAITING_FOR_HOSTBOOT == 5
HOSTBOOT_ALIVE      == 6
DECODE_REQ          == 2
SCAN_IP             == 3
SCAN_DONE           == 6
RESCAN_IP           == 8
CHECKWORD_ERR       == 13
ARG_ERR             == 14
HALT_SUCCESS        == 15

(* Operations of a scan request.                                           *)
BASE == 0
MOD_REFCLK_SEL == 3
MOD_PFD360 == 4
ModOperations == {MOD_REFCLK_SEL, MOD_PFD360}

NoRequest == [kind |-> "none"]
IntrRequests == [kind : {"count"}, count : 0 .. MaxCount] \cup {[kind |-> "halt"]}
ScanRequests == [kind : {"scan"}, ring : Rings, op : Operations, bus : Buses]
                \cup {[kind |-> "halt"]}
NoResponse == [valid |-> FALSE, request |-> NoRequest]

ASSUME SbeAssumption ==
    /\ Program \in Seq([proc : STRING, part : Parts, checks : BOOLEAN, always : BOOLEAN])
    /\ Configs \subseteq ConfigType /\ LastPosition \in Nat
    /\ Steps \subseteq 0 .. 15 /\ 0 \in Steps
    /\ DeadmanCount \in Nat /\ PhaseMax \in Nat \ {0} /\ MaxCount \in Nat
    /\ Rings \subseteq {"abus", "pci", "dmi"}
    /\ Operations \subseteq 0 .. 7 /\ Buses \subseteq 0 .. 7
    /\ (\A r \in Rings : RingLength[r] \in Nat \ {0})
    /\ MaxRotate \in Nat \ {0}
    /\ \E k \in 1 .. 12 : MaxRotate = 2^k - 1     \* pll_ring_rotate uses it as a mask

(* What a procedure enters it also leaves, and no .callproc is for a       *)
(* service: they follow the sequence.                                      *)
ASSUME ProgramAssumption ==
    /\ Program # <<>>
    /\ \A i \in 1 .. Len(Program) : Program[i].part = "enter" =>
          \E j \in 1 .. Len(Program) : Program[j].part = "exit" /\ Program[j].proc = Program[i].proc
    /\ {"intr_service", "scan_service"} \cap Procs = {}

(* enable_pnor comes in every boot, after what run_exinit holds together;  *)
(* the call before the last is checked in every boot; and trigger_winkle   *)
(* is the last.                                                            *)
IsEnablePnor(i) ==
    /\ Program[i].proc = "enable_pnor" /\ Program[i].always
    /\ \A k \in i .. Len(Program) : Program[k].part = "whole"
ASSUME OrderAssumption ==
    /\ \E i \in 1 .. Len(Program) - 1 : IsEnablePnor(i)
    /\ Program[Len(Program) - 1].checks /\ Program[Len(Program) - 1].always
    /\ \A k \in 1 .. Len(Program) : Program[k].proc = "trigger_winkle" <=> k = Len(Program)

VARIABLES
    cfg,     \* what was set up before power-on
    sbe,     \* the engine: where it executes and its registers
    vital,   \* SBEVITAL: procedure, step and halt code
    lock,    \* FSIGP4(20): the FSP is locked out of the I2C bus
    attn,    \* the attention lines of the chip
    ex,      \* the EX chiplets, the ICP, the block-wakeup bit and the FIR
    mbox,    \* the mailboxes of the scan service and the interrupt service
    ring,    \* the scan rings
    host     \* Hostboot, or the FSP in its place
vars == <<cfg, sbe, vital, lock, attn, ex, mbox, ring, host>>

BootPCs == {"otprom", "i2cReset", "magic", "prologue", "entryHalt", "trapCheck",
            "entryTrap", "skipCheck", "body", "epilogue", "exitCheck", "exitHalt",
            "exitTrapCheck", "exitTrap", "return", "end",
            "findFirst", "firstFound", "rotateSecond", "findSecond", "selected"}
WinklePCs == {"winkleEntry", "winkleReady", "pollStart", "started", "pollWinkle",
              "wake", "waking", "unblock", "ipi", "pollGoto", "pollIdle",
              "awake", "icpOff", "pollAlive", "success"}
IntrPCs == {"intrEntry", "intrWait", "intrRead", "intrClear", "intrCheck"}
ScanPCs == {"scanEntry", "scanPrep", "scanReady", "scanPoll", "scanSave", "decode",
            "setRing", "modRing", "rotateToMod", "flip", "rotateToEnd", "header",
            "respond"}
(* Where the engine has stopped: with success, as a slave, or by an error. *)
StopPCs == {"done", "slaveHalt", "errorHalt"}

Codes == {"none", "platform", "checkstop", "recoverable", "special", "procedure",
          "noBootCores", "noSecondCore", "noValidMcs",
          "noWinkle", "noGoto", "noWakeup", "noHostboot",
          "checkword", "invalidOperation"}

VitalType == [proc : STRING, step : 0 .. 15, halt : {"FATAL", "SUCCESS"}]

(* EX chiplets as the PCB slave's state machine shows them.                *)
Phases == {"run", "entering", "winkled", "goto", "restoring", "awake"}

Init ==
    /\ cfg \in Configs
    /\ sbe = [pc |-> "otprom", at |-> 1, rc |-> "none", ex |-> NoEx,
              ctr |-> 0, pos |-> 0,
              loaded |-> [proc |-> "none", step |-> 0, halt |-> "FATAL"],
              odd |-> FALSE, request |-> NoRequest, offset |-> 0, left |-> 0]
    /\ vital = [proc |-> "none", step |-> 0, halt |-> "FATAL"]
    /\ lock = FALSE /\ attn = {}
    /\ ex = [phase |-> [c \in Positions |-> "run"], age |-> 0, ipi |-> {},
             blocked |-> FALSE, icp |-> FALSE, fir |-> FALSE, late |-> FALSE]
    /\ mbox = [request |-> NoRequest, response |-> NoResponse, intr |-> NoRequest,
               torn |-> FALSE]
    /\ ring = [r \in Rings |-> [pos |-> 0, bits |-> {}, shadow |-> {}]]
    /\ host = [phase |-> "idle", owed |-> FALSE, waits |-> FALSE,
               expected |-> [r \in Rings |-> {}]]

(* The engine goes to pc.                                                  *)
At(pc) == sbe.pc = pc
Goto(pc) == sbe' = [sbe EXCEPT !.pc = pc]

(* reqhalt for an error leaves SBEVITAL as it is; for a success it sets    *)
(* the halt code.                                                          *)
ErrorHalt(rc) == sbe' = [sbe EXCEPT !.pc = "errorHalt", !.rc = rc]

HaltedWell(v) == [v EXCEPT !.halt = "SUCCESS"]
=============================================================================
