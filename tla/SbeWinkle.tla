----------------------------- MODULE SbeWinkle ------------------------------
(***************************************************************************)
(* proc_sbe_trigger_winkle_pibmem.S: the SBE waits for Hostboot to put the *)
(* boot core into winkle, wakes the core by an interrupt, and waits for    *)
(* Hostboot to report that it is alive, all under one deadman timer.       *)
(* The chiplets, their power management and Hostboot are external: what    *)
(* they do is what the polls of the code expect to see.                    *)
(***************************************************************************)
EXTENDS SbeMaster

Targets == IF sbe.ex = AllEx THEN cfg.cores ELSE {sbe.ex} \cap Positions

(***************************************************************************)
(* What a read of the history and of the state machine of P1 gives.  A     *)
(* multicast read combines the bits of all the chiplets with AND.          *)
(***************************************************************************)
WinkleInHistory == \A c \in Targets : ex.phase[c] # "run"

FsmBits(phase) == CASE phase = "entering"  -> {1, 3, 4, 5}        \* x2E
                    [] phase = "goto"      -> {0, 2, 6}           \* x51
                    [] phase = "restoring" -> {0, 2, 4, 5, 6}     \* x57
                    [] OTHER               -> {}
FsmRead == {b \in 0 .. 6 : \A c \in Targets : b \in FsmBits(ex.phase[c])}
PORE_GOTO_CMD == FsmBits("goto")

(***************************************************************************)
(* Hostboot, and the chiplets it runs on.                                  *)
(***************************************************************************)
WinkleStep(step) == vital.proc = "trigger_winkle" /\ vital.step = step

HostStarts ==
    /\ cfg.host /\ host.phase = "idle" /\ WinkleStep(SBE_READY)
    /\ vital' = [vital EXCEPT !.step = DEADMAN_START]
    /\ host' = [host EXCEPT !.phase = "started"]
    /\ UNCHANGED <<cfg, sbe, lock, attn, ex, mbox, ring>>

(* Hostboot blocks the wakeup and puts its cores into winkle.              *)
HostWinkles ==
    /\ host.phase = "started"
    /\ host' = [host EXCEPT !.phase = "asleep"]
    /\ ex' = [ex EXCEPT !.blocked = TRUE, !.age = 0,
                        !.phase = [c \in Positions |-> IF c \in Targets THEN "entering" ELSE @[c]]]
    /\ UNCHANGED <<cfg, sbe, vital, lock, attn, mbox, ring>>

Wakeable(c) == ex.phase[c] = "winkled" /\ c \in ex.ipi /\ ~ex.blocked
NextPhase == [entering |-> "winkled", winkled |-> "goto",
              goto |-> "restoring", restoring |-> "awake"]

(* A core has executed since it went into winkle only when it is awake;    *)
(* the goto command of the PMC takes at least as long as a poll.           *)
ChipletMoves == \E c \in Positions :
    /\ \/ ex.phase[c] \in {"entering", "restoring"}
       \/ ex.phase[c] = "goto" /\ ex.age > 0
       \/ Wakeable(c)
    /\ ex' = [ex EXCEPT !.phase[c] = NextPhase[@], !.age = 0]
    /\ UNCHANGED <<cfg, sbe, vital, lock, attn, mbox, ring, host>>

HostAwake == host.phase = "asleep" /\ \E c \in Targets : ex.phase[c] = "awake"
HostAlive ==
    /\ HostAwake /\ WinkleStep(WAITING_FOR_HOSTBOOT)
    /\ vital' = [vital EXCEPT !.step = HOSTBOOT_ALIVE]
    /\ host' = [host EXCEPT !.phase = "alive"]
    /\ ex' = [ex EXCEPT !.age = 0]
    /\ UNCHANGED <<cfg, sbe, lock, attn, mbox, ring>>

WinkleHost == HostStarts \/ HostWinkles \/ ChipletMoves \/ HostAlive

(***************************************************************************)
(* The SBE.  updatestep_inline reads SBEVITAL and writes it back with the  *)
(* new step: Load is the read, Store the write.                            *)
(***************************************************************************)
Load(pc) == sbe' = [sbe EXCEPT !.pc = pc, !.loaded = vital]
Store(step) == vital' = [sbe.loaded EXCEPT !.step = step]

Unlock == FALSE
WinkleEntry ==
    /\ At("winkleEntry")
    /\ lock' = Unlock
    /\ Load("winkleReady")
    /\ UNCHANGED <<vital, attn, others>>

WinkleReady ==
    /\ At("winkleReady")
    /\ Store(SBE_READY)
    /\ Goto("pollStart")
    /\ UNCHANGED <<lock, attn, others>>

MutantPollStart ==
    /\ At("pollStart")
    /\ Load("started")
    /\ UNCHANGED <<vital, lock, attn, others>>
PollStart ==
    /\ At("pollStart") /\ WinkleStep(DEADMAN_START)
    /\ Load("started")
    /\ UNCHANGED <<vital, lock, attn, others>>

Started ==
    /\ At("started")
    /\ Store(WAITING_FOR_WINKLE)
    /\ sbe' = [sbe EXCEPT !.pc = "pollWinkle", !.ctr = DeadmanCount]
    /\ UNCHANGED <<lock, attn, others>>

(* A poll that fails waits, then counts; at zero it stops the system.      *)
Due == \/ host.phase = "started"
       \/ \E c \in Positions : ex.phase[c] \in {"entering", "goto", "restoring"} \/ Wakeable(c)
       \/ HostAwake /\ WinkleStep(WAITING_FOR_HOSTBOOT)
Tick(fired) ==
    /\ (Due /\ ex.age = PhaseMax) => cfg.mayHang
    /\ ex' = [ex EXCEPT !.age = IF ex.age < PhaseMax THEN @ + 1 ELSE @,
                        !.late = @ \/ (Due /\ ex.age = PhaseMax),
                        !.fir = @ \/ fired]

MutantCounted == sbe.ctr
Counted == sbe.ctr - 1
PollAgain(rc) ==
    /\ IF sbe.ctr > 0
       THEN Tick(FALSE) /\ sbe' = [sbe EXCEPT !.ctr = Counted]
       ELSE Tick(TRUE) /\ ErrorHalt(rc)
    /\ UNCHANGED <<cfg, vital, lock, attn, mbox, ring, host>>

MutantInWinkle == FsmRead = {}
InWinkle == WinkleInHistory /\ FsmRead = {}
PollWinkle ==
    /\ At("pollWinkle")
    /\ IF InWinkle
       THEN Goto("wake") /\ UNCHANGED <<vital, lock, attn, others>>
       ELSE PollAgain("noWinkle")

Wake ==
    /\ At("wake")
    /\ IF "skipIpi" \in cfg.control["trigger_winkle"] THEN Goto("success")
       ELSE Load("waking")
    /\ UNCHANGED <<vital, lock, attn, others>>

Waking ==
    /\ At("waking")
    /\ Store(WAITING_FOR_WAKEUP)
    /\ Goto("unblock")
    /\ UNCHANGED <<lock, attn, others>>

Unblock ==
    /\ At("unblock")
    /\ ex' = [ex EXCEPT !.blocked = FALSE, !.icp = TRUE]
    /\ Goto("ipi")
    /\ UNCHANGED <<cfg, vital, lock, attn, mbox, ring, host>>

(* The bit for a single chiplet: a one in bit 63 is rotated once more than *)
(* the number of the chiplet says, with CTR as the counter; the count of   *)
(* the deadman timer is kept in D0 meanwhile.                              *)
RotatedBit(n) == (63 + n + 1) % 64
IpiBits == IF sbe.ex = AllEx THEN cfg.cores ELSE {RotatedBit(sbe.ex)}
MutantRestoredCount == 0
RestoredCount == sbe.ctr
Ipi ==
    /\ At("ipi")
    /\ ex' = [ex EXCEPT !.ipi = IpiBits, !.age = 0]
    /\ sbe' = [sbe EXCEPT !.pc = "pollGoto", !.ctr = RestoredCount]
    /\ UNCHANGED <<cfg, vital, lock, attn, mbox, ring, host>>

PollGoto ==
    /\ At("pollGoto")
    /\ IF FsmRead = PORE_GOTO_CMD
       THEN Goto("pollIdle") /\ UNCHANGED <<vital, lock, attn, others>>
       ELSE PollAgain("noGoto")

PollIdle ==
    /\ At("pollIdle")
    /\ IF FsmRead = {}
       THEN Load("awake") /\ UNCHANGED <<vital, lock, attn, others>>
       ELSE PollAgain("noWakeup")

Awake ==
    /\ At("awake")
    /\ Store(WAITING_FOR_HOSTBOOT)
    /\ Goto("icpOff")
    /\ UNCHANGED <<lock, attn, others>>

IcpOff ==
    /\ At("icpOff")
    /\ ex' = [ex EXCEPT !.icp = FALSE]
    /\ Goto("pollAlive")
    /\ UNCHANGED <<cfg, vital, lock, attn, mbox, ring, host>>

PollAlive ==
    /\ At("pollAlive")
    /\ IF WinkleStep(HOSTBOOT_ALIVE)
       THEN Goto("success") /\ UNCHANGED <<vital, lock, attn, others>>
       ELSE PollAgain("noHostboot")

Success ==
    /\ At("success")
    /\ IF cfg.skipIntr
       THEN Goto("done") /\ vital' = HaltedWell(vital)
       ELSE Goto("intrEntry") /\ UNCHANGED vital
    /\ UNCHANGED <<lock, attn, others>>

WinkleEngine ==
    \/ WinkleEntry \/ WinkleReady \/ PollStart \/ Started \/ PollWinkle \/ Wake
    \/ Waking \/ Unblock \/ Ipi \/ PollGoto \/ PollIdle \/ Awake \/ IcpOff
    \/ PollAlive \/ Success
=============================================================================
