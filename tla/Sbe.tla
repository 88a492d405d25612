-------------------------------- MODULE Sbe ---------------------------------
(***************************************************************************)
(* The SBE with what it interacts with: the istep sequence, the choice of  *)
(* the boot core, the winkle handshake and the two services, interleaved   *)
(* with Hostboot, the EX chiplets and a debugger; and what is expected of  *)
(* them.                                                                   *)
(***************************************************************************)
EXTENDS SbeScanService

EngineStep == IstepStep \/ MasterStep \/ WinkleEngine \/ IntrStep \/ ScanStep

(* The engine polls for something that nobody owes it, or has stopped.     *)
Polls == /\ sbe.pc \in {"pollStart", "scanPoll"} \cup StopPCs
         /\ UNCHANGED vars

Next ==
    \/ EngineStep \/ UpdateStep \/ RaiseAttention \/ Continue
    \/ WinkleHost \/ PostInterrupt \/ PostScan \/ CollectScan
    \/ Polls

Spec == Init /\ [][Next]_vars

(* The engine executes; what does not hang makes progress; the host of a   *)
(* scan polls for the response.                                            *)
FairSpec ==
    /\ Spec
    /\ WF_vars(EngineStep)
    /\ WF_vars(~cfg.mayHang /\ WinkleHost)
    /\ WF_vars(CollectScan)

(***************************************************************************)
(* The boot.                                                               *)
(***************************************************************************)
(* The halt code of SBEVITAL tells a stop with success from a stop with an *)
(* error, also when a debugger has gone on from a halt before.             *)
HaltCodeTells ==
    /\ sbe.pc = "errorHalt" => vital.halt = "FATAL"
    /\ sbe.pc \in {"done", "slaveHalt", "entryHalt", "exitHalt"} => vital.halt = "SUCCESS"

(* No good halt leaves the FSP locked out of the I2C bus.                  *)
GoodHaltUnlocked ==
    sbe.pc \in {"done", "slaveHalt", "entryHalt", "exitHalt"} => ~lock

(* A slave does not get as far as waking cores: proc_sbe_enable_pnor stops *)
(* it even when the override of proc_sbe_check_master took it for master.  *)
Runs(proc) == "skip" \notin cfg.control[proc]
SlaveNeverStarts ==
    sbe.pc \in WinklePCs /\ Runs("enable_pnor") => IsMaster /\ cfg.cores # {}

(* The EX chiplet that boots is the first good boot core, or the second    *)
(* when SBEVITAL says so.                                                  *)
Before(c) == {d \in 0 .. c - 1 : BootCore(d)}
SelectedCore ==
    sbe.ex \in Positions =>
        BootCore(sbe.ex) /\ Cardinality(Before(sbe.ex)) = IF cfg.skipFirst THEN 1 ELSE 0

(* A boot does not get past an attention that the control word of the      *)
(* last checked procedure does not mask, whichever procedure raised it.    *)
LastChecked == Program[Len(Program) - 1].proc
Masked(a) == CASE a = "checkstop"   -> "xstopDisable" \in cfg.control[LastChecked]
               [] a = "recoverable" -> "recovEnable" \notin cfg.control[LastChecked]
               [] a = "special"     -> "spattnDisable" \in cfg.control[LastChecked]
AttentionStopsBoot == sbe.pc \in WinklePCs => \A a \in attn : Masked(a)

(***************************************************************************)
(* The winkle handshake.                                                   *)
(***************************************************************************)
(* The boot core is woken when the SBE has seen it in winkle, not before   *)
(* it went there.                                                          *)
WokenInWinkle ==
    sbe.pc \in {"wake", "waking", "unblock", "ipi"} /\ sbe.ex # AllEx
        => ex.phase[sbe.ex] = "winkled"

(* Nobody writes SBEVITAL between the read and the write of an update of   *)
(* the step: the handshake leaves no room for a lost write of Hostboot.    *)
NoWriteLost ==
    sbe.pc \in {"winkleReady", "started", "waking", "awake"} => sbe.loaded = vital

(* The deadman timer stops the system only when a phase took longer than   *)
(* it may (for a single boot core).                                        *)
NoFalseCheckstop == ex.fir /\ sbe.ex \in Positions => ex.late

(* Once Hostboot has started the deadman timer the SBE gets to the end:    *)
(* success or a checkstop, whatever hangs.                                 *)
Deadman == {"started", "pollWinkle", "wake", "waking", "unblock", "ipi",
            "pollGoto", "pollIdle", "awake", "icpOff", "pollAlive"}
DeadmanEnds == sbe.pc \in Deadman ~> sbe.pc \in {"done", "errorHalt"} \cup IntrPCs

(***************************************************************************)
(* The services.                                                           *)
(***************************************************************************)
(* A request for an interrupt that is not posted in the critical section   *)
(* is in the mailbox, in the hands of the SBE or counted down, until its   *)
(* interrupt has come.                                                     *)
InHand == sbe.pc \in {"intrClear", "intrCheck"} /\ sbe.request.kind # "none"
OwedIsPending ==
    host.owed /\ sbe.pc # "done" => mbox.intr # NoRequest \/ InHand \/ sbe.ctr > 0

(* Hostboot gets no interrupt that it has not asked for, and none twice.   *)
Interrupted == At("intrCheck") /\ sbe.request.kind = "none" /\ Fires
NoSpuriousInterrupt == Interrupted => host.owed \/ mbox.torn

(* The interrupt comes, unless Hostboot keeps on posting requests or the   *)
(* SBE was asked to halt.                                                  *)
InterruptComes ==
    (host.owed ~> ~host.owed \/ sbe.pc = "done") \/ []<><<PostInterrupt>>_vars

(* A response means that the ring is as the requests up to this one make   *)
(* it.                                                                     *)
AnsweredIsApplied ==
    mbox.response.valid =>
        LET r == mbox.response.request.ring IN ring[r].shadow = host.expected[r]

(* Each scan request is answered, unless the SBE stops.                    *)
RequestAnswered == host.waits ~> ~host.waits \/ sbe.pc \in StopPCs
=============================================================================
